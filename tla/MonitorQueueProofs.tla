------------------------- MODULE MonitorQueueProofs -------------------------
(***************************************************************************)
(* Machine-checked proofs about the monitor's event queue: that it goes on *)
(* whatever happens to the files, and, in projects whose directories are   *)
(* left alone, that the database agrees with the disk once all events are  *)
(* handled.  For any number of files, operations and pending events.       *)
(***************************************************************************)
EXTENDS MonitorQueueInv, SequenceTheorems, FiniteSetTheorems, TLAPS

-----------------------------------------------------------------------------
(* The monitor goes on: SurviveInv.  First, what the handlers do.          *)

\* What every handler keeps of the state it works on, [db, cache, watch, gone, ok].
StateOK(s) ==
    /\ DOMAIN s = {"db", "cache", "watch", "gone", "ok"}
    /\ s.cache = [w \in Wds |-> s.cache[w]] /\ s.cache[Top] = Top
    /\ s.watch \in [Dirs -> Nat]
    /\ s.gone \in Seq(Sent) /\ s.ok \in BOOLEAN

\* The IN_IGNORED events that inotify_rm_watch() causes are a sequence of events.
LEMMA SetToSeqIsSeq ==
    ASSUME NEW S, IsFiniteSet(S) PROVE SetToSeq(S) \in Seq(S)
<1>1. PICK n \in Nat : ExistsBijection(1 .. n, S)
  BY FS_NatBijection
<1>2. Cardinality(S) = n
  BY <1>1, FS_CountingElements
<1>3. PICK f : f \in Bijection(1 .. n, S)
  BY <1>1 DEF ExistsBijection
<1>4. f \in [1 .. n -> S] /\ IsInjective(f)
  BY <1>3 DEF Bijection, Injection, IsInjective
<1>5. SetToSeq(S) \in [1 .. n -> S]
  BY <1>2, <1>4 DEF SetToSeq
<1> QED
  BY <1>5, SeqDef

\* What the assumptions say of directories and watch descriptors.
LEMMA DirsFinite == IsFiniteSet(Dirs) /\ Dirs \subseteq Int /\ Top \in Wds /\ Top = 0 /\ MaxOps \in Nat
<1>1. Cardinality(Dirs) \in Nat
  BY MonitorQueueAssumption, FS_CardinalityType
<1> QED
  BY <1>1, MonitorQueueAssumption DEF Top, Wds

\* monitor_rmdir_cb() of a subdirectory leaves the top directory in the dircache.
LEMMA RmdirCbOK ==
    ASSUME NEW s, StateOK(s), NEW t, t # Top
    PROVE  StateOK(RmdirCb(s, t)) /\ RmdirCb(s, t).ok = s.ok /\ RmdirCb(s, t).db = s.db
<1> DEFINE ws == {w \in Wds : s.cache[w] = t}
           R == {s.watch[i] : i \in Dirs}
           W == R \cap (ws \ {0})
           I == {Ignored(w) : w \in W}
<1>1. IsFiniteSet(I)
  <2>1. IsFiniteSet(R)
    <3> DEFINE g == [i \in Dirs |-> s.watch[i]]
    <3>1. g \in Surjection(Dirs, R)
      BY DEF Surjection
    <3> HIDE DEF g, R
    <3> QED
      BY <3>1, DirsFinite, FS_Surjection
  <2>2. IsFiniteSet(W)
    <3> HIDE DEF R
    <3> QED
      BY <2>1, FS_Intersection
  <2> HIDE DEF W
  <2> DEFINE g == [w \in W |-> Ignored(w)]
  <2>3. g \in Surjection(W, I)
    BY DEF Surjection
  <2> HIDE DEF g, I
  <2> QED
    BY <2>2, <2>3, FS_Surjection
<1>2. I \subseteq Sent
  <2> SUFFICES ASSUME NEW w \in W PROVE Ignored(w) \in Sent
    OBVIOUS
  <2>1. w \in Nat /\ w # 0
    BY DEF StateOK
  <2> HIDE DEF W
  <2> QED
    BY <2>1, DirsFinite DEF Sent, Ignored, Masks
<1>3. SetToSeq(I) \in Seq(Sent)
  <2>1. SetToSeq(I) \in Seq(I)
    BY <1>1, SetToSeqIsSeq
  <2> HIDE DEF I
  <2> QED
    BY <1>2, <2>1, SeqMonotonic
<1> HIDE DEF I
<1>4. Top \notin ws
  BY DEF StateOK
<1>5. RmdirCb(s, t) = [s EXCEPT !.cache = [w \in Wds |-> IF w \in ws THEN None ELSE s.cache[w]],
                  !.watch = [i \in Dirs |-> IF s.watch[i] \in ws THEN 0 ELSE s.watch[i]],
                  !.gone = s.gone \o SetToSeq(I)]
  BY DEF RmdirCb, I
<1>6. s.gone \o SetToSeq(I) \in Seq(Sent)
  BY <1>3 DEF StateOK
<1> HIDE DEF ws
<1> QED
  BY <1>4, <1>5, <1>6, DirsFinite DEF StateOK

\* tup_del_id_type() of a directory: so does the removal of its node.
LEMMA DelDirOK ==
    ASSUME NEW s, StateOK(s), NEW n, s.db.dir[n] # Top
    PROVE  StateOK(DelDir(s, n)) /\ DelDir(s, n).ok = s.ok
<1> DEFINE t == s.db.dir[n]
           r == RmdirCb(s, t)
<1>1. StateOK(r) /\ r.ok = s.ok
  BY RmdirCbOK
<1> HIDE DEF r
<1>2. DelDir(s, n) = [r EXCEPT !.db.dir[n] = 0, !.db.file[t] = 0,
                  !.db.modify = @ \ {t}, !.db.create = (@ \ {t}) \cup {Top}]
  BY DEF DelDir, r
<1> QED
  BY <1>1, <1>2 DEF StateOK

\* tup_file_del() never fails, for a file or a directory.
LEMMA FileDelOK ==
    ASSUME NEW s, StateOK(s), NEW t, NEW n
    PROVE  StateOK(FileDel(s, t, n)) /\ FileDel(s, t, n).ok = s.ok
<1>1. CASE t = Top /\ s.db.dir[n] # 0
  BY <1>1, DelDirOK, DirsFinite DEF FileDel
<1>2. CASE ~(t = Top /\ s.db.dir[n] # 0)
  BY <1>2 DEF FileDel, StateOK
<1> QED
  BY <1>1, <1>2

\* tup_file_mod_mtime() never fails, even where it overwrites a directory.
LEMMA FileModMtimeOK ==
    ASSUME NEW s, StateOK(s), NEW t, NEW n, NEW v
    PROVE  /\ StateOK(FileModMtime(s, t, n, v, TRUE)) /\ FileModMtime(s, t, n, v, TRUE).ok = s.ok
           /\ StateOK(FileModMtime(s, t, n, v, FALSE)) /\ FileModMtime(s, t, n, v, FALSE).ok = s.ok
<1> DEFINE overwrite == t = Top /\ s.db.dir[n] # 0
           r == IF overwrite THEN DelDir(s, n) ELSE s
<1>1. StateOK(r) /\ r.ok = s.ok
  BY DelDirOK, DirsFinite
<1> HIDE DEF r, overwrite
<1>2. StateOK(FileModMtime(s, t, n, v, TRUE)) /\ FileModMtime(s, t, n, v, TRUE).ok = s.ok
  BY <1>1 DEF FileModMtime, StateOK, r, overwrite
<1>3. StateOK(FileModMtime(s, t, n, v, FALSE)) /\ FileModMtime(s, t, n, v, FALSE).ok = s.ok
  BY <1>1 DEF FileModMtime, StateOK, r, overwrite
<1> QED
  BY <1>2, <1>3

\* tup_file_mod() of a file in the top directory does not fail, whether the file is still
\* there or not.
LEMMA FileModOK ==
    ASSUME NEW s, StateOK(s), NEW t, NEW n
    PROVE  StateOK(FileMod(s, t, n)) /\ (t = Top => FileMod(s, t, n).ok = s.ok)
<1> DEFINE i == Inode(s, t)
           v == Lstat(CHOOSE x \in i : TRUE, n)
<1>1. CASE i = {}
  <2>1. t # Top
    BY <1>1 DEF Inode
  <2>2. FileMod(s, t, n) = Fail(s)
    BY <1>1 DEF FileMod
  <2> QED
    BY <2>1, <2>2 DEF Fail, StateOK
<1>2. CASE i # {} /\ v = 0
  <2>1. FileMod(s, t, n) = FileDel(s, t, n)
    BY <1>2 DEF FileMod
  <2> QED
    BY <2>1, FileDelOK
<1>3. CASE i # {} /\ v # 0
  <2>1. FileMod(s, t, n) = FileModMtime(s, t, n, v, TRUE)
    BY <1>3 DEF FileMod
  <2> HIDE DEF v, i
  <2>2. StateOK(FileModMtime(s, t, n, v, TRUE)) /\ FileModMtime(s, t, n, v, TRUE).ok = s.ok
    BY FileModMtimeOK
  <2> QED
    BY <2>1, <2>2
<1> QED
  BY <1>1, <1>2, <1>3

\* Nor does watch_path() of such a file.
LEMMA WatchPathOK ==
    ASSUME NEW s, StateOK(s), NEW t, NEW n
    PROVE  StateOK(WatchPath(s, t, n)) /\ (t = Top => WatchPath(s, t, n).ok = s.ok)
<1> DEFINE i == Inode(s, t)
           v == Lstat(CHOOSE x \in i : TRUE, n)
<1>1. CASE i = {}
  <2>1. t # Top
    BY <1>1 DEF Inode
  <2>2. WatchPath(s, t, n) = Fail(s)
    BY <1>1 DEF WatchPath
  <2> QED
    BY <2>1, <2>2 DEF Fail, StateOK
<1>2. CASE i # {} /\ v # 0 /\ v = DirVer
  <2>1. WatchPath(s, t, n) = CreateDirNode(s, n)
    BY <1>2 DEF WatchPath
  <2> QED
    BY <2>1 DEF CreateDirNode, StateOK
<1>3. CASE i # {} /\ v # 0 /\ v # DirVer
  <2>1. WatchPath(s, t, n) = FileModMtime(s, t, n, v, FALSE)
    BY <1>3 DEF WatchPath
  <2> HIDE DEF v, i
  <2>2. StateOK(FileModMtime(s, t, n, v, FALSE)) /\ FileModMtime(s, t, n, v, FALSE).ok = s.ok
    BY FileModMtimeOK
  <2> QED
    BY <2>1, <2>2
<1>4. CASE i # {} /\ v = 0
  BY <1>4 DEF WatchPath
<1> QED
  BY <1>1, <1>2, <1>3, <1>4

\* tup_db_change_node(), which may fail, keeps the state of a handler.
LEMMA ChangeNodeOK ==
    ASSUME NEW s, StateOK(s), NEW from, NEW n
    PROVE  StateOK(ChangeNode(s, from, n))
  BY DEF ChangeNode, Fail, StateOK

\* The modification after an unmatched IN_MOVED_TO does not fail in the top directory.
LEMMA AfterCreateOK ==
    ASSUME NEW s, StateOK(s), NEW t, NEW n
    PROVE  StateOK(AfterCreate(s, t, n)) /\ (t = Top => AfterCreate(s, t, n).ok = s.ok)
  BY FileModOK DEF AfterCreate

\* An error changes nothing else.
LEMMA FailOK == ASSUME NEW s, StateOK(s) PROVE StateOK(Fail(s))
  BY DEF Fail, StateOK

\* A handler begins with such a state, and without an error.
LEMMA StateIsOK == ASSUME SurviveInv PROVE StateOK(State) /\ State.ok = TRUE
  BY DEF SurviveInv, StateOK, State

-----------------------------------------------------------------------------
(* handle_event() keeps SurviveInv.                                        *)

(* A handler that ends in Save. *)
LEMMA SaveKeeps ==
    ASSUME SurviveInv, NEW s, StateOK(s), Save(s), UNCHANGED <<user, queue>>, nwd' \in Nat,
           s.ok = FALSE => MonitorSurvives'
    PROVE  SurviveInv'
<1>1. inot' \in Seq(Sent)
  BY DEF Save, StateOK, SurviveInv
<1>2. /\ dircache' = [w \in Wds |-> dircache'[w]] /\ dircache'[Top] = Top /\ watch' \in [Dirs -> Nat]
      /\ alive' \in BOOLEAN
  BY DEF Save, StateOK
<1>3. MonitorSurvives'
  <2>1. CASE s.ok = FALSE
    BY <2>1
  <2>2. CASE s.ok = TRUE
    BY <2>2 DEF Save, MonitorSurvives
  <2>3. s.ok = TRUE \/ s.ok = FALSE
    BY DEF StateOK
  <2> QED
    BY <2>1, <2>2, <2>3
<1> QED
  BY <1>1, <1>2, <1>3 DEF SurviveInv, user, queue

(* Where the monitor may give up. *)
Excepted ==
    \/ dangling \/ E.dir \/ E.wd # Top \/ step # "handle" \/ (HasFrom /\ FromE.wd # Top)

\* What excuses the end of the monitor: an event that is not on a file of the top directory.
LEMMA ExceptedStays ==
    ASSUME UNCHANGED <<queue, cur, step>>, Excepted PROVE MonitorSurvives'
  BY DEF Excepted, MonitorSurvives, queue, E, M, HasFrom, FromE

\* A handler that ends without an error, or on an excepted event, keeps SurviveInv.
LEMMA DoneKeeps ==
    ASSUME SurviveInv, NEW s, StateOK(s), Done(s), UNCHANGED <<user, queue>>, nwd' \in Nat,
           s.ok = FALSE => Excepted
    PROVE  SurviveInv'
<1>1. s.ok = FALSE => MonitorSurvives'
  BY ExceptedStays DEF Done
<1> QED
  BY <1>1, SaveKeeps DEF Done

\* handle_event(), a matched move of a file: tup_file_mod() and tup_file_del() both succeed
\* if both directories are the top directory.
LEMMA SurviveMovedFile == ASSUME SurviveInv, HandleMovedFile, step = "handle" PROVE SurviveInv'
<1> DEFINE s == FileMod(State, Dt, E.name)
           r == IF FromDt \in {None, Disabled} THEN Fail(State)
                ELSE IF s.ok THEN FileDel(s, FromDt, FromE.name) ELSE s
<1>1. Done(r) /\ HasFrom /\ ~E.dir /\ UNCHANGED <<user, queue, nwd>>
  BY DEF HandleMovedFile
<1>2. StateOK(State) /\ State.ok = TRUE
  BY StateIsOK
<1>3. StateOK(s) /\ (Dt = Top => s.ok = TRUE)
  BY <1>2, FileModOK
<1>4. StateOK(Fail(State))
  BY <1>2, FailOK
<1>5. StateOK(FileDel(s, FromDt, FromE.name)) /\ FileDel(s, FromDt, FromE.name).ok = s.ok
  <2> HIDE DEF s
  <2> QED
    BY <1>3, FileDelOK
<1>6. ~Excepted => Dt = Top /\ FromDt = Top
  BY <1>1 DEF Excepted, Dt, FromDt, SurviveInv
<1>7. StateOK(r)
  <2> HIDE DEF s
  <2> QED
    BY <1>3, <1>4, <1>5
<1>8. ~Excepted => r.ok = TRUE
  <2>1. Top \notin {None, Disabled}
    BY DEF Top, None, Disabled
  <2> HIDE DEF s
  <2> QED
    BY <1>3, <1>5, <1>6, <2>1
<1>9. nwd' \in Nat
  BY <1>1 DEF SurviveInv
<1> HIDE DEF r
<1> QED
  BY <1>1, <1>7, <1>8, <1>9, DoneKeeps

\* handle_event(), a create or an unmatched IN_MOVED_TO.
LEMMA SurviveCreate == ASSUME SurviveInv, HandleCreate, step = "handle" PROVE SurviveInv'
<1> DEFINE r == IF ~HasFrom THEN State
                ELSE IF db.dir[FromE.name] = 0 /\ db.file[FromE.name] = 0 THEN Fail(State)
                ELSE ChangeNode(State, FromE.name, E.name)
           s == IF r.ok THEN WatchPath(r, Dt, E.name) ELSE r
           a == AfterCreate(s, Dt, E.name)
<1>1. /\ (IF GoesOn(s, E.name) THEN Save(s) /\ step' = "watch" /\ UNCHANGED cur ELSE Done(a))
      /\ (HasFrom => E.dir) /\ UNCHANGED <<user, queue, nwd>>
  BY DEF HandleCreate
<1>2. StateOK(State) /\ State.ok = TRUE
  BY StateIsOK
<1>3. StateOK(r) /\ (~HasFrom => r.ok = TRUE)
  <2> HIDE DEF State
  <2> QED
    BY <1>2, FailOK, ChangeNodeOK
<1>4. StateOK(s) /\ (~HasFrom /\ Dt = Top => s.ok = TRUE)
  <2> HIDE DEF r
  <2> QED
    BY <1>3, WatchPathOK
<1>5. StateOK(a) /\ (Dt = Top => a.ok = s.ok)
  <2> HIDE DEF s
  <2> QED
    BY <1>4, AfterCreateOK
<1>6. ~Excepted => Dt = Top /\ ~HasFrom
  BY <1>1 DEF Excepted, Dt, SurviveInv
<1>7. nwd' \in Nat
  BY <1>1 DEF SurviveInv
<1>8. GoesOn(s, E.name) => s.ok
  BY DEF GoesOn
<1> HIDE DEF s, a
<1>9. CASE GoesOn(s, E.name)
  BY <1>1, <1>4, <1>7, <1>8, <1>9, SaveKeeps
<1>10. CASE ~GoesOn(s, E.name)
  BY <1>1, <1>4, <1>5, <1>6, <1>7, <1>10, DoneKeeps
<1> QED
  BY <1>9, <1>10

\* handle_event(), IN_MODIFY or IN_ATTRIB: the file may be gone by now.
LEMMA SurviveModify == ASSUME SurviveInv, HandleModify PROVE SurviveInv'
<1> DEFINE s == FileMod(State, Dt, E.name)
<1>1. Done(s) /\ UNCHANGED <<user, queue, nwd>>
  BY DEF HandleModify
<1>2. StateOK(s) /\ (Dt = Top => s.ok = TRUE)
  BY StateIsOK, FileModOK
<1>3. ~Excepted => Dt = Top
  BY DEF Excepted, Dt, SurviveInv
<1>4. nwd' \in Nat
  BY <1>1 DEF SurviveInv
<1> HIDE DEF s
<1> QED
  BY <1>1, <1>2, <1>3, <1>4, DoneKeeps

\* handle_event(), IN_DELETE or an IN_MOVED_FROM that nobody claimed.
LEMMA SurviveDelete == ASSUME SurviveInv, HandleDelete PROVE SurviveInv'
<1> DEFINE s == FileDel(State, Dt, E.name)
<1>1. Done(s) /\ UNCHANGED <<user, event_list, dangling, nwd>> /\ moved_from' = moved_from \ {cur}
  BY DEF HandleDelete
<1>2. StateOK(s) /\ s.ok = TRUE
  BY StateIsOK, FileDelOK
<1> HIDE DEF s
<1>3. alive' = TRUE /\ dircache' = s.cache /\ watch' = s.watch /\ inot' = inot \o s.gone
  BY <1>1, <1>2 DEF Done, Save
<1>4. inot' \in Seq(Sent)
  BY <1>2, <1>3 DEF StateOK, SurviveInv
<1> QED
  BY <1>1, <1>2, <1>3, <1>4 DEF SurviveInv, StateOK, MonitorSurvives, user

-----------------------------------------------------------------------------
(* So do the user, queue_event() and flush_queue().                        *)

\* What the kernel says of a place is an event.
LEMMA EvSent ==
    ASSUME SurviveInv, NEW p \in Names \cup Dirs, NEW m \in Masks \ {"ignored"}, NEW c \in Nat
    PROVE  /\ [Ev(p, m) EXCEPT !.cookie = c] \in Sent
           /\ [Ev(p, m) EXCEPT !.cookie = c, !.dir = TRUE] \in Sent
<1>1. watch \in [Dirs -> Nat] /\ Top = 0
  BY DEF SurviveInv, Top
<1> QED
  BY <1>1 DEF Ev, Sent

\* ... and so is what it queues for a file,
LEMMA NotifySent ==
    ASSUME SurviveInv, NEW q \in Seq(Sent), NEW p \in Place, NEW m \in Masks \ {"ignored"}, NEW c \in Nat
    PROVE  Notify(q, p, m, c) \in Seq(Sent)
<1>1. CASE Watched(p)
  <2>1. p \in Names \cup Dirs
    BY <1>1 DEF Watched
  <2> DEFINE e == [Ev(p, m) EXCEPT !.cookie = c]
  <2>2. e \in Sent
    BY <2>1, EvSent
  <2>3. Notify(q, p, m, c) = q \/ Notify(q, p, m, c) = Append(q, e)
    BY DEF Notify
  <2> HIDE DEF e
  <2> QED
    BY <2>2, <2>3
<1>2. CASE ~Watched(p)
  BY <1>2 DEF Notify
<1> QED
  BY <1>1, <1>2

\* and for a directory.
LEMMA NotifyDirSent ==
    ASSUME SurviveInv, NEW q \in Seq(Sent), NEW n \in Names \cup {Out}, NEW m \in Masks \ {"ignored"}, NEW c \in Nat
    PROVE  NotifyDir(q, n, m, c) \in Seq(Sent)
<1>1. CASE n = Out
  BY <1>1 DEF NotifyDir
<1>2. CASE n # Out
  <2> DEFINE e == [Ev(n, m) EXCEPT !.cookie = c, !.dir = TRUE]
  <2>1. e \in Sent
    BY <1>2, EvSent
  <2>2. NotifyDir(q, n, m, c) = Append(q, e)
    BY <1>2 DEF NotifyDir
  <2> HIDE DEF e
  <2> QED
    BY <2>1, <2>2
<1> QED
  BY <1>1, <1>2

\* Whoever uses the project changes neither event_list nor the monitor.
LEMMA UserKeeps ==
    ASSUME SurviveInv, NEW k, Tick(k), inot' \in Seq(Sent), watch' \in [Dirs -> Nat],
           where' \in [Dirs -> Names \cup {Out, Gone}]
    PROVE  SurviveInv'
<1>1. alive' = TRUE /\ UNCHANGED <<event_list, moved_from, dircache, nwd>> /\ ops' \in Nat
  BY DEF Tick, queue, SurviveInv
<1> QED
  BY <1>1 DEF SurviveInv, MonitorSurvives

\* The user does not end the monitor.
LEMMA SurviveUser == ASSUME SurviveInv, User PROVE SurviveInv'
<1> USE DEF SurviveInv
<1>0. inot \in Seq(Sent) /\ ops + 1 \in Nat /\ 0 \in Nat
  OBVIOUS
<1>m. {"create", "modify", "delete", "from", "to"} \subseteq Masks \ {"ignored"}
  BY DEF Masks
<1>1. ASSUME NEW p \in Place, Create(p) PROVE SurviveInv'
  <2> USE <1>1 DEF Create
  <2>1. Notify(inot, p, "create", 0) \in Seq(Sent)
    BY <1>0, <1>m, NotifySent
  <2> QED
    BY <2>1, UserKeeps
<1>2. ASSUME NEW p \in Place, Edit(p) PROVE SurviveInv'
  <2> USE <1>2 DEF Edit
  <2>1. Notify(inot, p, "modify", 0) \in Seq(Sent)
    BY <1>0, <1>m, NotifySent
  <2> QED
    BY <2>1, UserKeeps
<1>3. ASSUME NEW p \in Place, Delete(p) PROVE SurviveInv'
  <2> USE <1>3 DEF Delete
  <2>1. Notify(inot, p, "delete", 0) \in Seq(Sent)
    BY <1>0, <1>m, NotifySent
  <2> QED
    BY <2>1, UserKeeps
<1>4. ASSUME NEW p \in Place, NEW q \in Place, Move(p, q) PROVE SurviveInv'
  <2> USE <1>4 DEF Move
  <2>1. Notify(inot, p, "from", ops + 1) \in Seq(Sent)
    BY <1>0, <1>m, NotifySent
  <2>2. Notify(Notify(inot, p, "from", ops + 1), q, "to", ops + 1) \in Seq(Sent)
    BY <1>0, <1>m, <2>1, NotifySent
  <2> QED
    BY <2>2, UserKeeps
<1>5. ASSUME NEW i \in Dirs, Rmdir(i) PROVE SurviveInv'
  <2> USE <1>5 DEF Rmdir
  <2> DEFINE q == IF watch[i] = 0 THEN inot ELSE Append(inot, Ignored(watch[i]))
  <2>1. watch[i] # 0 => Ignored(watch[i]) \in Sent
    BY DEF Ignored, Sent, Masks, Top
  <2>2. q \in Seq(Sent)
    <3> DEFINE e == Ignored(watch[i])
    <3> HIDE DEF e
    <3> QED
      BY <1>0, <2>1 DEF e
  <2>3. where[i] \in Names \cup {Out}
    OBVIOUS
  <2>4. inot' = NotifyDir(q, where[i], "delete", 0)
    OBVIOUS
  <2> HIDE DEF q
  <2>5. NotifyDir(q, where[i], "delete", 0) \in Seq(Sent)
    BY <1>0, <1>m, <2>2, <2>3, NotifyDirSent
  <2>6. inot' \in Seq(Sent)
    BY <2>4, <2>5
  <2> QED
    BY <2>6, UserKeeps
<1>6. ASSUME NEW i \in Dirs, NEW n \in Names \cup {Out}, Mkdir(i, n) PROVE SurviveInv'
  <2> USE <1>6 DEF Mkdir
  <2>1. NotifyDir(inot, n, "create", 0) \in Seq(Sent)
    BY <1>0, <1>m, NotifyDirSent
  <2> QED
    BY <2>1, UserKeeps
<1>7. ASSUME NEW i \in Dirs, NEW n \in Names \cup {Out}, MoveDir(i, n) PROVE SurviveInv'
  <2> USE <1>7 DEF MoveDir
  <2>1. where[i] \in Names \cup {Out}
    OBVIOUS
  <2>2. NotifyDir(inot, where[i], "from", ops + 1) \in Seq(Sent)
    BY <1>0, <1>m, <2>1, NotifyDirSent
  <2>3. NotifyDir(NotifyDir(inot, where[i], "from", ops + 1), n, "to", ops + 1) \in Seq(Sent)
    BY <1>0, <1>m, <2>2, NotifyDirSent
  <2> QED
    BY <2>3, UserKeeps
<1> QED
  BY <1>1, <1>2, <1>3, <1>4, <1>5, <1>6, <1>7 DEF User

\* An entry of event_list.
Item == [e : Sent, from : Nat]

\* Setting the mask of an entry to 0 leaves an entry.
LEMMA BlankItem ==
    ASSUME NEW x \in Item PROVE [x EXCEPT !.e.mask = "none"] \in Item
<1>1. [x.e EXCEPT !.mask = "none"] \in Sent
  BY DEF Item, Sent, Masks
<1>2. [x EXCEPT !.e.mask = "none"] = [e |-> [x.e EXCEPT !.mask = "none"], from |-> x.from]
  BY DEF Item
<1> QED
  BY <1>1, <1>2 DEF Item

(* Some events of a list are blanked. *)
Blank(list, B) ==
    [k \in DOMAIN list |-> IF k \in B THEN [list[k] EXCEPT !.e.mask = "none"] ELSE list[k]]

\* So does doing it to several entries of event_list.
LEMMA BlankList ==
    ASSUME NEW T, \A x \in T : [x EXCEPT !.e.mask = "none"] \in T, NEW list \in Seq(T), NEW B
    PROVE  /\ Blank(list, B) \in Seq(T)
           /\ Len(Blank(list, B)) = Len(list) /\ DOMAIN Blank(list, B) = DOMAIN list
<1> DEFINE f == [k \in DOMAIN list |-> IF k \in B THEN [list[k] EXCEPT !.e.mask = "none"] ELSE list[k]]
           L == Len(list)
<1>0. Blank(list, B) = f
  BY DEF Blank
<1>1. L \in Nat /\ DOMAIN list = 1 .. L
  OBVIOUS
<1>2. \A k \in 1 .. L : f[k] \in T
  <2> SUFFICES ASSUME NEW k \in 1 .. L PROVE f[k] \in T
    OBVIOUS
  <2>1. list[k] \in T
    BY <1>1
  <2>2. [list[k] EXCEPT !.e.mask = "none"] \in T
    BY <2>1
  <2> QED
    BY <1>1, <2>1, <2>2
<1>3. DOMAIN f = 1 .. L
  BY <1>1
<1>4. f = [k \in 1 .. L |-> f[k]]
  BY <1>1
<1> HIDE DEF f, L
<1>5. f \in [1 .. L -> T]
  BY <1>2, <1>4
<1>6. f \in Seq(T)
  BY <1>1, <1>5, SeqDef
<1>7. Len(f) = L
  BY <1>1, <1>3, <1>6
<1> QED
  BY <1>0, <1>1, <1>3, <1>6, <1>7 DEF L

\* The events that ephemeral_event() finds the new event e to undo,
Hits(list, e) ==
    {k \in DOMAIN list : /\ ~e.dir
                         /\ list[k].e.wd = e.wd /\ list[k].e.name = e.name
                         /\ (\/ (IsNew(list[k].e.mask) /\ IsDel(e.mask))
                             \/ (IsDel(list[k].e.mask) /\ IsNew(e.mask)))}
\* and the ones that it blanks.
Blanked(list, e) ==
    {k \in DOMAIN list : /\ list[k].e.wd = e.wd /\ list[k].e.name = e.name
                         /\ \E h \in Hits(list, e) : h <= k}

\* ephemeral_event() in these terms.
LEMMA EphemeralIs ==
    ASSUME NEW list, NEW e
    PROVE  Ephemeral(list, e) =
             [mask |-> IF Hits(list, e) # {} /\ IsNew(e.mask) THEN "modify" ELSE e.mask,
              drop |-> Hits(list, e) # {} /\ IsDel(e.mask),
              list |-> Blank(list, Blanked(list, e))]
<1>1. \A k \in DOMAIN list : k \in Blanked(list, e) <=>
        (list[k].e.wd = e.wd /\ list[k].e.name = e.name /\ \E h \in Hits(list, e) : h <= k)
  BY DEF Blanked
<1>2. Blank(list, Blanked(list, e)) =
        [k \in DOMAIN list |->
          IF list[k].e.wd = e.wd /\ list[k].e.name = e.name /\ \E h \in Hits(list, e) : h <= k
          THEN [list[k] EXCEPT !.e.mask = "none"] ELSE list[k]]
  BY <1>1, Zenon DEF Blank
<1> QED
  BY <1>2, Zenon DEF Ephemeral, Hits

\* ephemeral_event() leaves a list of events, and never turns one into IN_IGNORED.
LEMMA EphemeralOK ==
    ASSUME NEW list \in Seq(Item), NEW e \in Sent
    PROVE  /\ Ephemeral(list, e).list \in Seq(Item)
           /\ Len(Ephemeral(list, e).list) = Len(list)
           /\ [e EXCEPT !.mask = Ephemeral(list, e).mask] \in Sent
<1> DEFINE f == Blank(list, Blanked(list, e))
           m == IF Hits(list, e) # {} /\ IsNew(e.mask) THEN "modify" ELSE e.mask
<1>1. f \in Seq(Item) /\ Len(f) = Len(list)
  BY BlankItem, BlankList
<1>2. Ephemeral(list, e).list = f /\ Ephemeral(list, e).mask = m
  BY EphemeralIs
<1>3. m \in Masks /\ (m = "ignored" => e.mask = "ignored")
  BY DEF Masks, Sent
<1> HIDE DEF f, m
<1>4. [e EXCEPT !.mask = m] \in Sent
  BY <1>3 DEF Sent
<1> QED
  BY <1>1, <1>2, <1>4

\* queue_event(): only a dangling moved_from_list can end the monitor.
LEMMA SurviveQueue == ASSUME SurviveInv, QueueEvent PROVE SurviveInv'
<1> DEFINE e == Head(inot)
           r == Ephemeral(event_list, e)
           froms == {k \in moved_from : e.cookie = event_list[k].e.cookie}
           claim == IF r.mask = "to" THEN froms ELSE {}
           list == Blank(r.list, claim)
           from == IF claim = {} THEN 0 ELSE CHOOSE k \in claim : TRUE
           x == [e |-> [e EXCEPT !.mask = r.mask], from |-> from]
<1>1. alive /\ inot # <<>> /\ inot' = Tail(inot) /\ UNCHANGED <<user, watch, nwd, dangling, cur, step, db>>
  BY DEF QueueEvent
<1>2. e \in Sent /\ inot' \in Seq(Sent)
  BY <1>1 DEF SurviveInv
<1>3. event_list \in Seq(Item)
  BY DEF SurviveInv, Item
<1>4. r.list \in Seq(Item) /\ [e EXCEPT !.mask = r.mask] \in Sent
  BY <1>2, <1>3, EphemeralOK
<1>5. list \in Seq(Item)
  <2> HIDE DEF claim, r
  <2> QED
    BY <1>4, BlankItem, BlankList
<1>6. from \in Nat
  <2>1. claim \subseteq Nat
    BY DEF SurviveInv
  <2> HIDE DEF claim
  <2> QED
    BY <2>1
<1>7. x \in Item
  <2> HIDE DEF r, from, e
  <2> QED
    BY <1>4, <1>6 DEF Item
<1>8. \/ UNCHANGED <<event_list, moved_from, dircache, alive>>
      \/ event_list' = r.list /\ UNCHANGED <<moved_from, dircache, alive>>
      \/ /\ event_list' = Append(list, x)
         /\ moved_from' \subseteq moved_from \cup {Len(list) + 1}
         /\ dircache' = IF e.mask = "ignored" /\ dircache[e.wd] # None
                        THEN [dircache EXCEPT ![e.wd] = Disabled] ELSE dircache
         /\ alive' \in IF r.mask = "to" /\ dangling THEN BOOLEAN ELSE {TRUE}
  <2>1. LET dup == event_list # <<>> /\ Last(event_list).e = e
        IN  IF dup THEN UNCHANGED <<event_list, moved_from, dircache, alive>>
           ELSE IF r.drop THEN
             /\ event_list' = r.list
             /\ UNCHANGED <<moved_from, dircache, alive>>
           ELSE
             /\ event_list' = Append(list, x)
             /\ moved_from' = (moved_from \ claim) \cup
                              (IF r.mask = "from" THEN {Len(list) + 1} ELSE {})
             /\ dircache' = IF e.mask = "ignored" /\ dircache[e.wd] # None
                            THEN [dircache EXCEPT ![e.wd] = Disabled] ELSE dircache
             /\ alive' \in IF r.mask = "to" /\ dangling THEN BOOLEAN ELSE {TRUE}
    BY DEF QueueEvent, Blank
  <2> HIDE DEF e, r, claim, list, x
  <2> QED
    BY <2>1
<1> HIDE DEF e, r, claim, list, from, x
<1>9. event_list' \in Seq(Item) /\ moved_from' \subseteq Nat
  <2>1. moved_from \subseteq Nat /\ Len(list) + 1 \in Nat
    BY <1>5 DEF SurviveInv
  <2>2. Append(list, x) \in Seq(Item)
    BY <1>5, <1>7
  <2> QED
    BY <1>3, <1>4, <1>8, <2>1, <2>2
<1>10. dircache' = [w \in Wds |-> dircache'[w]] /\ dircache'[Top] = Top
  <2>1. e.mask = "ignored" => e.wd # Top
    BY <1>2 DEF Sent
  <2>2. dircache = [w \in Wds |-> dircache[w]] /\ dircache[Top] = Top
    BY DEF SurviveInv
  <2>3. dircache' = dircache \/ (e.wd # Top /\ dircache' = [dircache EXCEPT ![e.wd] = Disabled])
    BY <1>8, <2>1
  <2>4. CASE dircache' = dircache
    BY <2>2, <2>4
  <2>5. CASE e.wd # Top /\ dircache' = [dircache EXCEPT ![e.wd] = Disabled]
    <3>1. dircache' = [w \in Wds |-> IF w = e.wd THEN Disabled ELSE dircache[w]]
      BY <2>2, <2>5
    <3> QED
      BY <2>2, <2>5, <3>1, DirsFinite
  <2> QED
    BY <2>3, <2>4, <2>5
<1>11. alive' \in BOOLEAN /\ (alive' \/ dangling')
  BY <1>1, <1>8
<1> QED
  BY <1>1, <1>2, <1>9, <1>10, <1>11 DEF SurviveInv, MonitorSurvives, Item, user

\* flush_queue() begins and ends.
LEMMA SurviveFlush == ASSUME SurviveInv, Flush \/ FlushDone PROVE SurviveInv'
<1>1. CASE Flush
  BY <1>1 DEF Flush, SurviveInv, MonitorSurvives, user, kernel, queue
<1>2. CASE FlushDone
  <2>1. event_list' \in Seq([e : Sent, from : Nat])
    BY <1>2 DEF FlushDone
  <2> QED
    BY <1>2, <2>1 DEF FlushDone, SurviveInv, MonitorSurvives, user, kernel
<1> QED
  BY <1>1, <1>2

\* handle_event() passes over a blank event; "dircache entry not found" cannot be about the
\* top directory.
LEMMA SurvivePassed ==
    ASSUME SurviveInv, alive, cur \in DOMAIN event_list, HandleSkipped \/ HandleIgnored \/ HandleUnknown
    PROVE  SurviveInv'
<1>1. CASE HandleSkipped
  BY <1>1 DEF HandleSkipped, SurviveInv, MonitorSurvives, user, kernel, queue
<1>2. CASE HandleIgnored
  <2>1. E.wd # Top
    <3>1. event_list \in Seq(Item)
      BY DEF SurviveInv, Item
    <3>2. event_list[cur] \in Item
      BY <3>1
    <3>3. E \in Sent /\ E.mask = "ignored"
      BY <1>2, <3>2 DEF HandleIgnored, E, M, Item
    <3> QED
      BY <3>3 DEF Sent
  <2>2. dircache = [w \in Wds |-> dircache[w]] /\ dircache[Top] = Top
    BY DEF SurviveInv
  <2> DEFINE wd == E.wd
  <2>3. dircache' = [dircache EXCEPT ![wd] = None] /\ wd # Top
    BY <1>2, <2>1 DEF HandleIgnored
  <2> HIDE DEF wd
  <2>4. dircache' = [w \in Wds |-> IF w = wd THEN None ELSE dircache[w]]
    BY <2>2, <2>3
  <2>5. dircache' = [w \in Wds |-> dircache'[w]] /\ dircache'[Top] = Top
    BY <2>2, <2>3, <2>4, DirsFinite
  <2> QED
    BY <1>2, <2>5 DEF HandleIgnored, SurviveInv, MonitorSurvives, user, kernel, queue
<1>3. CASE HandleUnknown
  <2>1. Dt = None /\ alive' = FALSE /\ UNCHANGED <<user, kernel, queue, cur, step, dircache, db>>
    BY <1>3 DEF HandleUnknown
  <2>2. Excepted
    BY <2>1 DEF Excepted, Dt, SurviveInv, Top, None
  <2>3. MonitorSurvives'
    BY <2>1, <2>2, ExceptedStays
  <2> QED
    BY <2>1, <2>3 DEF SurviveInv, user, kernel, queue
<1> QED
  BY <1>1, <1>2, <1>3

\* watch_path(), first step: an error there is one of a directory.
LEMMA SurviveWatch == ASSUME SurviveInv, WatchDir PROVE SurviveInv'
<1> DEFINE n == E.name
           i == CHOOSE x \in InodeAt(n) : TRUE
           w == IF watch[i] = 0 THEN nwd + 1 ELSE watch[i]
           t == [State EXCEPT !.watch[i] = w, !.cache[w] = db.dir[n]]
           d == IF file[n] # 0 THEN Fail(State) ELSE FileDel(State, Top, n)
<1>1. step = "watch" /\ UNCHANGED <<user, queue>>
  BY DEF WatchDir
<1>2. StateOK(State) /\ State.ok = TRUE
  BY StateIsOK
<1>3. CASE InodeAt(n) # {}
  <2>1. /\ nwd' = IF watch[i] = 0 THEN nwd + 1 ELSE nwd
        /\ Save(t)
    BY <1>3 DEF WatchDir
  <2>2. i \in Dirs
    BY <1>3 DEF InodeAt
  <2>3. w \in Nat /\ w # Top /\ nwd' \in Nat
    <3> HIDE DEF i
    <3> QED
      BY <2>1, <2>2 DEF SurviveInv, Top
  <2> HIDE DEF i, w
  <2>4. StateOK(t) /\ t.ok = TRUE
    <3>1. t = [State EXCEPT !.watch = [State.watch EXCEPT ![i] = w],
                            !.cache = [State.cache EXCEPT ![w] = db.dir[n]]]
      BY DEF State
    <3>2. [State.watch EXCEPT ![i] = w] \in [Dirs -> Nat]
      BY <1>2, <2>3 DEF StateOK
    <3> DEFINE c == [State.cache EXCEPT ![w] = db.dir[n]]
    <3>3. c = [v \in Wds |-> c[v]] /\ c[Top] = Top
      <4>1. State.cache = [v \in Wds |-> State.cache[v]] /\ State.cache[Top] = Top
        BY <1>2 DEF StateOK
      <4>2. c = [v \in Wds |-> IF v = w THEN db.dir[n] ELSE State.cache[v]]
        BY <4>1
      <4> HIDE DEF c
      <4> QED
        BY <4>1, <4>2, <2>3, DirsFinite
    <3> HIDE DEF c, t
    <3>4. t = [State EXCEPT !.watch = [State.watch EXCEPT ![i] = w], !.cache = c]
      BY <3>1 DEF c
    <3> QED
      BY <1>2, <3>2, <3>3, <3>4 DEF StateOK
  <2> HIDE DEF t
  <2> QED
    BY <1>1, <2>1, <2>3, <2>4, SaveKeeps
<1>4. CASE InodeAt(n) = {}
  <2>1. Done(d) /\ nwd' = nwd
    BY <1>4 DEF WatchDir
  <2>2. StateOK(d)
    <3> HIDE DEF n
    <3> QED
      BY <1>2, FailOK, FileDelOK
  <2>3. nwd' \in Nat
    BY <2>1 DEF SurviveInv
  <2>4. Excepted
    BY <1>1 DEF Excepted
  <2> HIDE DEF d
  <2> QED
    BY <1>1, <2>1, <2>2, <2>3, <2>4, DoneKeeps
<1> QED
  BY <1>3, <1>4

\* watch_path(), the rest.
LEMMA SurviveScan == ASSUME SurviveInv, ScanDir PROVE SurviveInv'
<1> DEFINE n == E.name
           t == db.dir[n]
           is == InodeAt(n)
           i == CHOOSE x \in is : TRUE
           f == IF file[n] # 0 THEN Fail(State) ELSE FileDel(State, Top, n)
           g == IF file[i] # 0 THEN FileModMtime(State, t, Kid, file[i], FALSE)
                ELSE FileDel(State, t, Kid)
           s == IF is = {} THEN f ELSE g
           r == IF is = {} THEN s ELSE AfterCreate(s, Top, n)
<1>1. step = "scan" /\ UNCHANGED <<file, where, ops, behind, lost, queue, nwd>> /\ Done(r)
  BY DEF ScanDir
<1>2. StateOK(State) /\ State.ok = TRUE
  BY StateIsOK
<1>3. StateOK(f)
  <2> HIDE DEF n
  <2> QED
    BY <1>2, FailOK, FileDelOK
<1>4. StateOK(g)
  <2> DEFINE v == file[i]
  <2> HIDE DEF v, t
  <2>1. StateOK(FileModMtime(State, t, Kid, v, FALSE)) /\ StateOK(FileDel(State, t, Kid))
    BY <1>2, FileModMtimeOK, FileDelOK
  <2> QED
    BY <2>1 DEF v
<1>5. StateOK(s)
  <2> HIDE DEF f, g
  <2> QED
    BY <1>3, <1>4
<1>6. StateOK(r)
  <2> HIDE DEF s
  <2> QED
    BY <1>5, AfterCreateOK
<1> HIDE DEF r
<1>7. MonitorSurvives'
  <2>1. CASE r.ok = FALSE
    BY <1>1, <2>1, ExceptedStays DEF Done, Excepted
  <2>2. CASE r.ok = TRUE
    BY <1>1, <2>2 DEF Done, Save, MonitorSurvives
  <2> QED
    BY <1>6, <2>1, <2>2 DEF StateOK
<1>8. inot' \in Seq(Sent) /\ alive' \in BOOLEAN
  BY <1>1, <1>6 DEF Done, Save, StateOK, SurviveInv
<1> QED
  BY <1>1, <1>6, <1>7, <1>8 DEF Done, Save, StateOK, SurviveInv, queue

\* The invariant holds at the start.
LEMMA SurviveInit == Init => SurviveInv
<1> SUFFICES ASSUME Init PROVE SurviveInv
  OBVIOUS
<1>1. inot \in Seq(Sent) /\ event_list \in Seq([e : Sent, from : Nat])
  BY DEF Init
<1> QED
  BY <1>1, DirsFinite DEF Init, SurviveInv, MonitorSurvives

\* Every step keeps it.
LEMMA SurviveNext == SurviveInv /\ [Next]_vars => SurviveInv'
<1> SUFFICES ASSUME SurviveInv, [Next]_vars PROVE SurviveInv'
  OBVIOUS
<1>1. CASE User
  BY <1>1, SurviveUser
<1>2. CASE QueueEvent
  BY <1>2, SurviveQueue
<1>3. CASE Flush \/ FlushDone
  BY <1>3, SurviveFlush
<1>4. CASE Handle
  <2>1. alive /\ cur \in DOMAIN event_list
    BY <1>4 DEF Handle
  <2>2. CASE step = "handle" /\ (HandleSkipped \/ HandleIgnored \/ HandleUnknown)
    BY <2>1, <2>2, SurvivePassed
  <2>3. CASE step = "handle" /\ HandleMovedFile
    BY <2>3, SurviveMovedFile
  <2>4. CASE step = "handle" /\ HandleCreate
    BY <2>4, SurviveCreate
  <2>5. CASE HandleModify
    BY <2>5, SurviveModify
  <2>6. CASE HandleDelete
    BY <2>6, SurviveDelete
  <2>7. CASE WatchDir
    BY <2>7, SurviveWatch
  <2>8. CASE ScanDir
    BY <2>8, SurviveScan
  <2> QED
    BY <1>4, <2>2, <2>3, <2>4, <2>5, <2>6, <2>7, <2>8 DEF Handle
<1>5. CASE UNCHANGED vars
  BY <1>5 DEF vars, SurviveInv, MonitorSurvives, E, M, HasFrom, FromE
<1> QED
  BY <1>1, <1>2, <1>3, <1>4, <1>5 DEF Next

\* The events in the queues are events, and the top directory always has its dircache
\* entry: whatever is done to files and directories, in whatever order the monitor reads
\* and handles it.
THEOREM SurviveInvariance == Spec => []SurviveInv
  BY SurviveInit, SurviveNext, PTL DEF Spec

\* The monitor never gives up on an event of a file in the top directory (handle_event(),
\* queue_event()), for any number of names, directories and operations.
THEOREM MonitorGoesOn == Spec => []MonitorSurvives
<1>1. SurviveInv => MonitorSurvives
  BY DEF SurviveInv
<1> QED
  BY <1>1, SurviveInvariance, PTL

-----------------------------------------------------------------------------
(* Projects whose directories are left alone: FlatTypes and KnownInv.  The user first.*)

\* An event on a file of the top directory,
FE == FileEvent(FileMasks)
\* and the one the kernel makes.
FileEv(n, m, c) == [Ev(n, m) EXCEPT !.cookie = c]

\* Names, directories and the outside are different places.
LEMMA PlaceFacts ==
    /\ Out \notin Names /\ Out \notin Dirs
    /\ \A n \in Names : n \notin Dirs
  BY MonitorQueueAssumption, DirsFinite

\* The masks there are.
LEMMA FlatMasks == /\ "create" \in FileMasks /\ "modify" \in FileMasks /\ "delete" \in FileMasks
                   /\ "from" \in FileMasks /\ "to" \in FileMasks
  BY DEF FileMasks

\* The kernel's queue is a sequence of such events.
LEMMA FlatSeq == FlatTypes => inot \in Seq(FE) /\ ops \in Nat /\ 0 \in Nat /\ ops + 1 \in Nat
  BY DEF FlatTypes, FE

(* What one more event is to the kernel's queue. *)
OneMore(q, r, e) == r = Append(q, e) \/ (q # <<>> /\ q[Len(q)] = e /\ r = q)

\* The kernel appends an event, or merges it with an equal neighbour (inotify(7)).
LEMMA NotifyIs ==
    ASSUME NEW q \in Seq(FE), NEW p \in Names \cup {Out}, NEW m \in FileMasks, NEW c \in Nat
    PROVE  /\ p \in Names => OneMore(q, Notify(q, p, m, c), FileEv(p, m, c))
           /\ p = Out => Notify(q, p, m, c) = q
<1> DEFINE e == FileEv(p, m, c)
<1>1. Notify(q, p, m, c) = IF ~Watched(p) \/ (q # <<>> /\ Last(q) = e) THEN q ELSE Append(q, e)
  BY Zenon DEF Notify, FileEv
<1>2. Last(q) = q[Len(q)]
  BY DEF Last
<1>3. p = Out => ~Watched(p)
  BY PlaceFacts DEF Watched
<1>4. p \in Names => Watched(p)
  BY DEF Watched
<1> HIDE DEF e
<1>5. p \in Names => OneMore(q, Notify(q, p, m, c), e)
  BY <1>1, <1>2, <1>4 DEF OneMore
<1>6. p = Out => Notify(q, p, m, c) = q
  BY <1>1, <1>3
<1> QED
  BY <1>5, <1>6 DEF e

\* Either way the event is the last one, and the others are where they were.
LEMMA OneMoreIs ==
    ASSUME NEW q \in Seq(FE), NEW r, NEW e \in FE, OneMore(q, r, e)
    PROVE  /\ r \in Seq(FE) /\ Len(q) <= Len(r) /\ Len(r) <= Len(q) + 1 /\ Len(r) > 0
           /\ \A j \in DOMAIN q : j \in DOMAIN r /\ r[j] = q[j]
           /\ r[Len(r)] = e
<1>1. CASE r = Append(q, e)
  BY <1>1
<1>2. CASE q # <<>> /\ q[Len(q)] = e /\ r = q
  BY <1>2
<1> QED
  BY <1>1, <1>2 DEF OneMore

(* What a step of the user does. *)
Grown ==
    /\ inot' \in Seq(FE) /\ Len(inot) <= Len(inot')
    /\ \A j \in DOMAIN inot : j \in DOMAIN inot' /\ inot'[j] = inot[j]
    /\ \A n \in Names : file'[n] # 0 =>
         \/ Len(inot') > 0 /\ LookAt(Len(inot), n)'
         \/ file'[n] = file[n] /\ \A j \in DOMAIN inot' : j > Len(inot) => ~DelAt(j, n)'
    /\ \A j \in DOMAIN inot' : j > Len(inot) =>
         /\ inot'[j].cookie <= ops + 1
         /\ inot'[j].mask \in {"from", "to"} => inot'[j].cookie = ops + 1
         /\ inot'[j].mask = "to" =>
              \A i \in DOMAIN inot' : i > Len(inot) /\ inot'[i].mask = "from" =>
                  i = j - 1 /\ inot'[i].name # inot'[j].name

\* The rest is left alone.
Still ==
    /\ UNCHANGED <<where, watch, event_list, moved_from, cur, step, dircache, db, alive>>
    /\ ops \in Nat /\ ops' = ops + 1 /\ ops' <= MaxOps
    /\ file' \in [Place -> Nat] /\ (\A i \in Dirs : file'[i] = 0) /\ (\A p \in Place : file'[p] <= ops' + 1)

\* No file is made in a directory that is not there.
LEMMA FlatPlaces ==
    ASSUME FlatTypes, NEW p \in Place
    PROVE  /\ file[p] # 0 => p \in Names \cup {Out}
           /\ Room(p) => p \in Names \cup {Out}
  BY DEF FlatTypes, Place, Room

\* An operation on one place, which sends one event or merges it.
LEMMA GrownBy ==
    ASSUME FlatTypes, NEW e \in FE, OneMore(inot, inot', e), e.cookie \in {0, ops + 1},
           e.mask \in {"from", "to"} => e.cookie = ops + 1,
           \A n \in Names : file'[n] # 0 =>
               \/ n = e.name /\ IsLook(e.mask)
               \/ file'[n] = file[n] /\ ~(n = e.name /\ IsDel(e.mask))
    PROVE  Grown
<1>1. inot \in Seq(FE) /\ ops \in Nat
  BY DEF FlatTypes, FE
<1>2. /\ inot' \in Seq(FE) /\ Len(inot) <= Len(inot') /\ Len(inot') <= Len(inot) + 1 /\ Len(inot') > 0
      /\ \A j \in DOMAIN inot : j \in DOMAIN inot' /\ inot'[j] = inot[j]
      /\ inot'[Len(inot')] = e
  BY <1>1, OneMoreIs
<1>3. \A j \in DOMAIN inot' : j > Len(inot) => j = Len(inot') /\ inot'[j] = e
  BY <1>1, <1>2
<1>4. \A n \in Names : file'[n] # 0 =>
         \/ Len(inot') > 0 /\ LookAt(Len(inot), n)'
         \/ file'[n] = file[n] /\ \A j \in DOMAIN inot' : j > Len(inot) => ~DelAt(j, n)'
  BY <1>2, <1>3 DEF LookAt, DelAt
<1>5. \A j \in DOMAIN inot' : j > Len(inot) =>
         /\ inot'[j].cookie <= ops + 1
         /\ inot'[j].mask \in {"from", "to"} => inot'[j].cookie = ops + 1
         /\ inot'[j].mask = "to" =>
              \A i \in DOMAIN inot' : i > Len(inot) => inot'[i].mask # "from"
  BY <1>1, <1>3
<1> QED
  BY <1>2, <1>4, <1>5 DEF Grown

\* The parts of an event.
LEMMA FileEvIs ==
    ASSUME NEW n \in Names, NEW m \in FileMasks, NEW c \in Nat
    PROVE  /\ FileEv(n, m, c) \in FE
           /\ FileEv(n, m, c).name = n /\ FileEv(n, m, c).mask = m /\ FileEv(n, m, c).cookie = c
<1>1. n \notin Dirs
  BY PlaceFacts
<1> QED
  BY <1>1 DEF FileEv, Ev, FE, FileEvent

\* An operation outside the project.
LEMMA GrownNot ==
    ASSUME FlatTypes, inot' = inot, \A n \in Names : file'[n] = file[n]
    PROVE  Grown
  BY DEF Grown, FlatTypes, FE

\* A file is made: the new events say so.
LEMMA GrownCreate == ASSUME FlatTypes, NEW p \in Place, Create(p) PROVE Grown
<1>0. p \in Names \cup {Out} /\ ops \in Nat
  BY FlatPlaces DEF Create, FlatTypes
<1>1. file' = [file EXCEPT ![p] = ops + 2] /\ inot' = Notify(inot, p, "create", 0) /\ file \in [Place -> Nat]
  BY DEF Create, FlatTypes
<1>2. CASE p \in Names
  <2> DEFINE e == FileEv(p, "create", 0)
  <2>1. e \in FE /\ e.name = p /\ e.mask = "create" /\ e.cookie = 0
    BY <1>2, FlatSeq, FileEvIs, FlatMasks
  <2>2. OneMore(inot, inot', e)
    BY <1>0, <1>1, <1>2, FlatSeq, FlatMasks, NotifyIs
  <2> HIDE DEF e
  <2>3. \A n \in Names : file'[n] # 0 =>
               \/ n = e.name /\ IsLook(e.mask)
               \/ file'[n] = file[n] /\ ~(n = e.name /\ IsDel(e.mask))
    BY <1>1, <1>2, <2>1 DEF IsLook, IsDel, Place
  <2> QED
    BY <2>1, <2>2, <2>3, GrownBy
<1>3. CASE p = Out
  <2>1. inot' = inot
    BY <1>0, <1>1, <1>3, FlatSeq, FlatMasks, NotifyIs
  <2> QED
    BY <1>1, <1>3, <2>1, GrownNot, PlaceFacts DEF Place
<1> QED
  BY <1>0, <1>2, <1>3

\* A file is edited.
LEMMA GrownEdit == ASSUME FlatTypes, NEW p \in Place, Edit(p) PROVE Grown
<1>0. p \in Names \cup {Out} /\ ops \in Nat
  BY FlatPlaces DEF Edit, FlatTypes
<1>1. file' = [file EXCEPT ![p] = ops + 2] /\ inot' = Notify(inot, p, "modify", 0) /\ file \in [Place -> Nat]
  BY DEF Edit, FlatTypes
<1>2. CASE p \in Names
  <2> DEFINE e == FileEv(p, "modify", 0)
  <2>1. e \in FE /\ e.name = p /\ e.mask = "modify" /\ e.cookie = 0
    BY <1>2, FlatSeq, FileEvIs, FlatMasks
  <2>2. OneMore(inot, inot', e)
    BY <1>0, <1>1, <1>2, FlatSeq, FlatMasks, NotifyIs
  <2> HIDE DEF e
  <2>3. \A n \in Names : file'[n] # 0 =>
               \/ n = e.name /\ IsLook(e.mask)
               \/ file'[n] = file[n] /\ ~(n = e.name /\ IsDel(e.mask))
    BY <1>1, <1>2, <2>1 DEF IsLook, IsDel, Place
  <2> QED
    BY <2>1, <2>2, <2>3, GrownBy
<1>3. CASE p = Out
  <2>1. inot' = inot
    BY <1>0, <1>1, <1>3, FlatSeq, FlatMasks, NotifyIs
  <2> QED
    BY <1>1, <1>3, <2>1, GrownNot, PlaceFacts DEF Place
<1> QED
  BY <1>0, <1>2, <1>3

\* A file is removed.
LEMMA GrownDelete == ASSUME FlatTypes, NEW p \in Place, Delete(p) PROVE Grown
<1>0. p \in Names \cup {Out} /\ ops \in Nat
  BY FlatPlaces DEF Delete, FlatTypes
<1>1. file' = [file EXCEPT ![p] = 0] /\ inot' = Notify(inot, p, "delete", 0) /\ file \in [Place -> Nat]
  BY DEF Delete, FlatTypes
<1>2. CASE p \in Names
  <2> DEFINE e == FileEv(p, "delete", 0)
  <2>1. e \in FE /\ e.name = p /\ e.mask = "delete" /\ e.cookie = 0
    BY <1>2, FlatSeq, FileEvIs, FlatMasks
  <2>2. OneMore(inot, inot', e)
    BY <1>0, <1>1, <1>2, FlatSeq, FlatMasks, NotifyIs
  <2> HIDE DEF e
  <2>3. \A n \in Names : file'[n] # 0 =>
               \/ n = e.name /\ IsLook(e.mask)
               \/ file'[n] = file[n] /\ ~(n = e.name /\ IsDel(e.mask))
    BY <1>1, <1>2, <2>1 DEF IsLook, IsDel, Place
  <2> QED
    BY <2>1, <2>2, <2>3, GrownBy
<1>3. CASE p = Out
  <2>1. inot' = inot
    BY <1>0, <1>1, <1>3, FlatSeq, FlatMasks, NotifyIs
  <2> QED
    BY <1>1, <1>3, <2>1, GrownNot, PlaceFacts DEF Place
<1> QED
  BY <1>0, <1>2, <1>3

\* A file is moved: two events, one, or none.
LEMMA GrownMove == ASSUME FlatTypes, NEW p \in Place, NEW q \in Place, Move(p, q) PROVE Grown
<1>0. p \in Names \cup {Out} /\ q \in Names \cup {Out} /\ ops \in Nat /\ p # q
  BY FlatPlaces DEF Move, FlatTypes
<1>1. /\ file' = [file EXCEPT ![q] = file[p], ![p] = 0] /\ file \in [Place -> Nat]
      /\ inot' = Notify(Notify(inot, p, "from", ops + 1), q, "to", ops + 1)
  BY DEF Move, FlatTypes
<1> DEFINE d == FileEv(p, "from", ops + 1)
           e == FileEv(q, "to", ops + 1)
<1>2. p \in Names => d \in FE /\ d.name = p /\ d.mask = "from" /\ d.cookie = ops + 1
  BY <1>0, FlatSeq, FileEvIs, FlatMasks
<1>3. q \in Names => e \in FE /\ e.name = q /\ e.mask = "to" /\ e.cookie = ops + 1
  BY <1>0, FlatSeq, FileEvIs, FlatMasks
<1>4. CASE p \in Names /\ q = Out
  <2> DEFINE r == Notify(inot, p, "from", ops + 1)
  <2>0. OneMore(inot, r, d) /\ inot' = Notify(r, q, "to", ops + 1)
    BY <1>0, <1>1, <1>4, FlatSeq, FlatMasks, NotifyIs
  <2> HIDE DEF r, d
  <2>1. OneMore(inot, inot', d)
    <3>1. r \in Seq(FE)
      BY <1>2, <1>4, <2>0, FlatSeq, OneMoreIs
    <3> QED
      BY <1>0, <1>4, <2>0, <3>1, FlatSeq, FlatMasks, NotifyIs
  <2> HIDE DEF d
  <2>3. \A n \in Names : file'[n] # 0 => file'[n] = file[n] /\ n # d.name
    BY <1>1, <1>2, <1>4, PlaceFacts DEF Place
  <2> QED
    BY <1>2, <1>4, <2>1, <2>3, GrownBy
<1>5. CASE p = Out /\ q \in Names
  <2>0. Notify(inot, p, "from", ops + 1) = inot
    BY <1>0, <1>5, FlatSeq, FlatMasks, NotifyIs
  <2>1. OneMore(inot, inot', e)
    BY <1>0, <1>1, <1>5, <2>0, FlatSeq, FlatMasks, NotifyIs
  <2> HIDE DEF e
  <2>3. \A n \in Names : file'[n] # 0 =>
               \/ n = e.name /\ IsLook(e.mask)
               \/ file'[n] = file[n] /\ ~(n = e.name /\ IsDel(e.mask))
    BY <1>1, <1>3, <1>5, PlaceFacts DEF Place, IsLook
  <2> QED
    BY <1>3, <1>5, <2>1, <2>3, GrownBy
<1>6. CASE p \in Names /\ q \in Names
  <2> DEFINE r == Notify(inot, p, "from", ops + 1)
  <2>1. OneMore(inot, r, d)
    BY <1>0, <1>6, FlatSeq, FlatMasks, NotifyIs
  <2> HIDE DEF r, d, e
  <2>3. inot \in Seq(FE)
    BY DEF FlatTypes, FE
  <2>4. /\ r \in Seq(FE) /\ Len(inot) <= Len(r) /\ Len(r) <= Len(inot) + 1 /\ Len(r) > 0
        /\ \A j \in DOMAIN inot : j \in DOMAIN r /\ r[j] = inot[j]
        /\ r[Len(r)] = d
    BY <1>2, <1>6, <2>1, <2>3, OneMoreIs
  <2>2. OneMore(r, inot', e)
    <3>1. inot' = Notify(r, q, "to", ops + 1)
      BY <1>1 DEF r
    <3> QED
      BY <1>0, <1>6, <2>4, <3>1, FlatMasks, NotifyIs DEF e
  <2>5. inot' = Append(r, e)
    BY <1>2, <1>3, <1>6, <2>2, <2>4 DEF OneMore
  <2>6. /\ inot' \in Seq(FE) /\ Len(inot') = Len(r) + 1 /\ Len(inot) <= Len(inot')
        /\ \A j \in DOMAIN inot : j \in DOMAIN inot' /\ inot'[j] = inot[j]
        /\ inot'[Len(inot')] = e /\ inot'[Len(r)] = d
    BY <1>3, <1>6, <2>3, <2>4, <2>5
  <2>7. \A j \in DOMAIN inot' : j > Len(inot) =>
            \/ j = Len(inot') /\ inot'[j] = e
            \/ j = Len(inot') - 1 /\ inot'[j] = d
    BY <2>3, <2>4, <2>6
  <2>8. \A n \in Names : file'[n] # 0 =>
         \/ Len(inot') > 0 /\ LookAt(Len(inot), n)'
         \/ file'[n] = file[n] /\ \A j \in DOMAIN inot' : j > Len(inot) => ~DelAt(j, n)'
    <3> SUFFICES ASSUME NEW n \in Names, file'[n] # 0
                 PROVE  \/ Len(inot') > 0 /\ LookAt(Len(inot), n)'
                        \/ file'[n] = file[n] /\ \A j \in DOMAIN inot' : j > Len(inot) => ~DelAt(j, n)'
      OBVIOUS
    <3>1. n # p
      BY <1>1, <1>6 DEF Place
    <3>2. CASE n = q
      BY <1>3, <1>6, <2>3, <2>4, <2>6, <3>2 DEF LookAt, IsLook
    <3>3. CASE n # q
      <4>1. file'[n] = file[n]
        BY <1>1, <3>1, <3>3 DEF Place
      <4>2. \A j \in DOMAIN inot' : j > Len(inot) => inot'[j].name # n
        BY <1>2, <1>3, <1>6, <2>7, <3>1, <3>3
      <4> QED
        BY <4>1, <4>2 DEF DelAt
    <3> QED
      BY <3>2, <3>3
  <2>9. \A j \in DOMAIN inot' : j > Len(inot) =>
         /\ inot'[j].cookie <= ops + 1
         /\ inot'[j].mask \in {"from", "to"} => inot'[j].cookie = ops + 1
         /\ inot'[j].mask = "to" =>
              \A i \in DOMAIN inot' : i > Len(inot) /\ inot'[i].mask = "from" =>
                  i = j - 1 /\ inot'[i].name # inot'[j].name
    BY <1>0, <1>2, <1>3, <1>6, <2>7
  <2> QED
    BY <2>6, <2>8, <2>9 DEF Grown
<1> QED
  BY <1>0, <1>4, <1>5, <1>6

\* An entry of event_list, in a project without directories.
FI == [e : FileEvent(FileMasks \cup {"none"}), from : Nat]

(* The parts of an event. *)
LEMMA FlatItems ==
    ASSUME FlatTypes
    PROVE  /\ \A j \in DOMAIN inot : inot[j] \in FE
           /\ \A j \in DOMAIN inot : /\ inot[j].cookie \in Nat /\ inot[j].name \in Names
                                     /\ inot[j].mask \in FileMasks /\ inot[j].dir = FALSE /\ inot[j].wd = Top
           /\ \A k \in DOMAIN event_list : event_list[k] \in FI
           /\ \A k \in DOMAIN event_list :
                /\ event_list[k].e.cookie \in Nat /\ event_list[k].e.name \in Names /\ event_list[k].from \in Nat
                /\ event_list[k].e.mask \in FileMasks \cup {"none"} /\ event_list[k].e.dir = FALSE
                /\ event_list[k].e.wd = Top
           /\ moved_from \subseteq DOMAIN event_list
<1>1. inot \in Seq(FE) /\ event_list \in Seq(FI) /\ moved_from \subseteq DOMAIN event_list
  BY DEF FlatTypes, FE, FI
<1>2. (\A j \in DOMAIN inot : inot[j] \in FE) /\ (\A k \in DOMAIN event_list : event_list[k] \in FI)
  BY <1>1
<1>3. \A x \in FE : /\ x.cookie \in Nat /\ x.name \in Names /\ x.mask \in FileMasks
                    /\ x.dir = FALSE /\ x.wd = Top
  BY DEF FE, FileEvent
<1>4. \A x \in FI : /\ x.e.cookie \in Nat /\ x.e.name \in Names /\ x.from \in Nat
                    /\ x.e.mask \in FileMasks \cup {"none"} /\ x.e.dir = FALSE /\ x.e.wd = Top
  BY DEF FI, FileEvent
<1> QED
  BY <1>1, <1>2, <1>3, <1>4

\* Every operation of the user is one of these.
LEMMA UserStill == ASSUME Flat, FlatTypes, User PROVE Still /\ Grown
<1>0. /\ file \in [Place -> Nat] /\ ops \in Nat /\ MaxOps \in Nat
      /\ \A i \in Dirs : file[i] = 0
      /\ \A p \in Place : file[p] <= ops + 1
  BY MonitorQueueAssumption DEF FlatTypes
<1>1. ASSUME NEW k, Tick(k)
      PROVE  /\ UNCHANGED <<event_list, moved_from, cur, step, dircache, db, alive>>
             /\ k \in Kinds /\ ops' = ops + 1 /\ ops' <= MaxOps
  BY <1>0, <1>1 DEF Tick, queue
<1>2. ASSUME NEW p \in Place, Create(p) PROVE Still /\ Grown
  <2>1. Grown
    BY <1>2, GrownCreate
  <2>2. p \notin Dirs
    BY <1>2, FlatPlaces, PlaceFacts DEF Create
  <2>3. file' = [file EXCEPT ![p] = ops + 2] /\ UNCHANGED <<where, watch>> /\ Tick("create")
    BY <1>2 DEF Create
  <2>4. UNCHANGED <<event_list, moved_from, cur, step, dircache, db, alive>> /\ ops' = ops + 1 /\ ops' <= MaxOps
    BY <1>1, <2>3
  <2> QED
    BY <1>0, <2>1, <2>2, <2>3, <2>4 DEF Still, Place
<1>3. ASSUME NEW p \in Place, Edit(p) PROVE Still /\ Grown
  <2>1. Grown
    BY <1>3, GrownEdit
  <2>2. p \notin Dirs
    BY <1>0, <1>3 DEF Edit
  <2>3. file' = [file EXCEPT ![p] = ops + 2] /\ UNCHANGED <<where, watch>> /\ Tick("edit")
    BY <1>3 DEF Edit
  <2>4. UNCHANGED <<event_list, moved_from, cur, step, dircache, db, alive>> /\ ops' = ops + 1 /\ ops' <= MaxOps
    BY <1>1, <2>3
  <2> QED
    BY <1>0, <2>1, <2>2, <2>3, <2>4 DEF Still, Place
<1>4. ASSUME NEW p \in Place, Delete(p) PROVE Still /\ Grown
  <2>1. Grown
    BY <1>4, GrownDelete
  <2>3. file' = [file EXCEPT ![p] = 0] /\ UNCHANGED <<where, watch>> /\ Tick("delete")
    BY <1>4 DEF Delete
  <2>4. UNCHANGED <<event_list, moved_from, cur, step, dircache, db, alive>> /\ ops' = ops + 1 /\ ops' <= MaxOps
    BY <1>1, <2>3
  <2> QED
    BY <1>0, <2>1, <2>3, <2>4 DEF Still, Place
<1>5. ASSUME NEW p \in Place, NEW q \in Place, Move(p, q) PROVE Still /\ Grown
  <2>1. Grown
    BY <1>5, GrownMove
  <2>2. q \notin Dirs
    BY <1>5, FlatPlaces, PlaceFacts DEF Move
  <2>3. file' = [file EXCEPT ![q] = file[p], ![p] = 0] /\ UNCHANGED <<where, watch>> /\ Tick("move")
    BY <1>5 DEF Move
  <2>4. UNCHANGED <<event_list, moved_from, cur, step, dircache, db, alive>> /\ ops' = ops + 1 /\ ops' <= MaxOps
    BY <1>1, <2>3
  <2>5. file' \in [Place -> Nat] /\ (\A i \in Dirs : file'[i] = 0)
    BY <1>0, <2>2, <2>3 DEF Place
  <2>6. \A x \in Place : file'[x] <= ops' + 1
    BY <1>0, <2>3, <2>4
  <2> QED
    BY <1>0, <2>1, <2>3, <2>4, <2>5, <2>6 DEF Still
<1>6. /\ \A i \in Dirs : ~Rmdir(i)
      /\ \A i \in Dirs, n \in Names \cup {Out} : ~Mkdir(i, n) /\ ~MoveDir(i, n)
  BY DEF Flat, Tick, Rmdir, Mkdir, MoveDir
<1> QED
  BY <1>2, <1>3, <1>4, <1>5, <1>6 DEF User

\* The user keeps the types.
LEMMA TypesUser == ASSUME FlatTypes, Still, Grown PROVE FlatTypes'
<1>1. inot' \in Seq(FileEvent(FileMasks))
  BY DEF Grown, FE
<1> QED
  BY <1>1 DEF FlatTypes, Still

\* Whatever the user changes in the files, the event that tells of it is in the kernel's
\* queue, after all others.
LEMMA KnownUser == ASSUME FlatTypes, KnownInv, Still, Grown PROVE KnownInv'
<1> USE DEF KnownInv
<1>0. /\ inot \in Seq(FE) /\ inot' \in Seq(FE) /\ Len(inot) \in Nat /\ Len(inot') \in Nat /\ Len(inot) <= Len(inot')
      /\ DOMAIN inot = 1 .. Len(inot) /\ DOMAIN inot' = 1 .. Len(inot')
      /\ \A j \in DOMAIN inot : j \in DOMAIN inot' /\ inot'[j] = inot[j]
  BY DEF FlatTypes, Grown, FE
<1>1. UNCHANGED <<event_list, moved_from, cur, db>> /\ ops' = ops + 1 /\ ops \in Nat
  BY DEF Still
<1>2. \A n \in Names : file'[n] # 0 =>
         \/ Len(inot') \in DOMAIN inot' /\ LookAt(Len(inot), n)'
         \/ file'[n] = file[n] /\ \A j \in DOMAIN inot' : j > Len(inot) => ~DelAt(j, n)'
  BY <1>0 DEF Grown
<1>3. \A n \in Names : \A j \in DOMAIN inot : (LookAt(j, n) <=> LookAt(j, n)') /\ (DelAt(j, n) <=> DelAt(j, n)')
  BY <1>0 DEF LookAt, DelAt
<1>4. /\ Pend' = Pend
      /\ \A k \in Pend, n \in Names : (Looks(k, n) <=> Looks(k, n)') /\ (Removes(k, n) <=> Removes(k, n)')
  BY <1>1 DEF Pend, Looks, Removes, Dels, Carries, Name, Mask
<1>5. \A n \in Names, k \in Nat : LookedAtAfter(k, n) => LookedAtAfter(k, n)'
  BY <1>0, <1>3, <1>4 DEF LookedAtAfter
<1>6. \A n \in Names, k \in Nat : Len(inot') \in DOMAIN inot' /\ LookAt(Len(inot), n)' => LookedAtAfter(k, n)'
  BY DEF LookedAtAfter
<1>7. BackInKernel'
  <2> SUFFICES ASSUME NEW n \in Names, NEW j \in DOMAIN inot', DelAt(j, n)', file'[n] # 0
               PROVE  \E i \in DOMAIN inot' : i > j /\ LookAt(i, n)'
    BY DEF BackInKernel
  <2>1. CASE Len(inot') \in DOMAIN inot' /\ LookAt(Len(inot), n)'
    <3>1. j # Len(inot')
      BY <2>1 DEF LookAt, DelAt, IsLook, IsDel
    <3> QED
      BY <1>0, <2>1, <3>1
  <2>2. CASE file'[n] = file[n] /\ \A x \in DOMAIN inot' : x > Len(inot) => ~DelAt(x, n)'
    <3>1. j \in DOMAIN inot /\ DelAt(j, n) /\ file[n] # 0
      BY <1>0, <1>3, <2>2
    <3>2. PICK i \in DOMAIN inot : i > j /\ LookAt(i, n)
      BY <3>1 DEF BackInKernel
    <3> QED
      BY <1>0, <1>3, <3>2
  <2> QED
    BY <1>2, <2>1, <2>2
<1>8. BackInList'
  <2> SUFFICES ASSUME NEW n \in Names, NEW k \in Pend, Removes(k, n), file'[n] # 0
               PROVE  LookedAtAfter(k, n)'
    BY <1>4 DEF BackInList
  <2>0. k \in Nat
    BY DEF Pend, FlatTypes
  <2>1. CASE Len(inot') \in DOMAIN inot' /\ LookAt(Len(inot), n)'
    BY <1>6, <2>0, <2>1
  <2>2. CASE file'[n] = file[n]
    BY <1>5, <2>0, <2>2 DEF BackInList
  <2> QED
    BY <1>2, <2>1, <2>2
<1>9. DirtyIsLookedAt'
  <2> SUFFICES ASSUME NEW n \in Names, file'[n] # 0, db.file[n] # file'[n]
               PROVE  LookedAtAfter(0, n)'
    BY <1>1 DEF DirtyIsLookedAt
  <2>1. CASE Len(inot') \in DOMAIN inot' /\ LookAt(Len(inot), n)'
    BY <1>6, <2>1
  <2>2. CASE file'[n] = file[n]
    BY <1>5, <2>2 DEF DirtyIsLookedAt
  <2> QED
    BY <1>2, <2>1, <2>2
<1>10. NewIsFlagged'
  BY <1>1 DEF NewIsFlagged, Flagged
<1>11. Cookies'
  <2> USE DEF Cookies
  <2>0. /\ \A j \in DOMAIN inot : inot[j].cookie \in Nat
        /\ \A k \in DOMAIN event_list : event_list[k].e.cookie \in Nat
        /\ moved_from \subseteq DOMAIN event_list
    BY FlatItems
  <2>1. \A j \in DOMAIN inot' : j > Len(inot) =>
         /\ inot'[j].cookie <= ops + 1
         /\ inot'[j].mask \in {"from", "to"} => inot'[j].cookie = ops + 1
         /\ inot'[j].mask = "to" =>
              \A i \in DOMAIN inot' : i > Len(inot) /\ inot'[i].mask = "from" =>
                  i = j - 1 /\ inot'[i].name # inot'[j].name
    BY DEF Grown
  <2>2. \A j \in DOMAIN inot' : j <= Len(inot) => j \in DOMAIN inot /\ inot'[j] = inot[j] /\ inot'[j].cookie <= ops
    BY <1>0
  <2>3. \A j \in DOMAIN inot' : inot'[j].cookie <= ops'
    BY <1>0, <1>1, <2>0, <2>1, <2>2
  <2>4. \A k \in DOMAIN event_list : event_list[k].e.cookie <= ops'
    BY <1>1, <2>0
  <2>5. ASSUME NEW j \in DOMAIN inot', inot'[j].mask = "to",
               NEW i \in DOMAIN inot', inot'[i].mask = "from", inot'[i].cookie = inot'[j].cookie
        PROVE  i = j - 1 /\ inot'[i].name # inot'[j].name
    <3>1. CASE j <= Len(inot) /\ i <= Len(inot)
      BY <2>2, <2>5, <3>1
    <3>2. CASE j > Len(inot) /\ i > Len(inot)
      BY <2>1, <2>5, <3>2
    <3>3. CASE j > Len(inot) /\ i <= Len(inot)
      <4>1. inot'[j].cookie = ops + 1 /\ inot'[i].cookie <= ops /\ inot'[i].cookie \in Nat
        BY <2>0, <2>1, <2>2, <2>5, <3>3
      <4> QED
        BY <1>1, <2>5, <4>1
    <3>4. CASE j <= Len(inot) /\ i > Len(inot)
      <4>1. inot'[i].cookie = ops + 1 /\ inot'[j].cookie <= ops /\ inot'[j].cookie \in Nat
        BY <2>0, <2>1, <2>2, <2>5, <3>4
      <4> QED
        BY <1>1, <2>5, <4>1
    <3> QED
      BY <1>0, <3>1, <3>2, <3>3, <3>4
  <2>6. ASSUME NEW j \in DOMAIN inot', inot'[j].mask = "to",
               NEW k \in moved_from, event_list[k].e.cookie = inot'[j].cookie
        PROVE  j = 1 /\ k = Len(event_list) /\ Mask(k) = "from" /\ Name(k) # inot'[j].name
    <3>1. CASE j <= Len(inot)
      BY <2>2, <2>6, <3>1
    <3>2. CASE j > Len(inot)
      <4>1. inot'[j].cookie = ops + 1 /\ event_list[k].e.cookie <= ops /\ event_list[k].e.cookie \in Nat
        BY <2>0, <2>1, <2>6, <3>2
      <4> QED
        BY <1>1, <2>6, <4>1
    <3> QED
      BY <1>0, <3>1, <3>2
  <2> QED
    BY <1>1, <2>3, <2>4, <2>5, <2>6 DEF Carries, Name, Mask
<1> QED
  BY <1>7, <1>8, <1>9, <1>10, <1>11

-----------------------------------------------------------------------------
(* queue_event().                                                          *)

(* event_list with the events B blanked, at the front of the new one. *)
Keeps(B) ==
    \A k \in DOMAIN event_list :
        /\ k \in DOMAIN event_list' /\ event_list'[k].from = event_list[k].from
        /\ event_list'[k].e.name = event_list[k].e.name
        /\ event_list'[k].e.cookie = event_list[k].e.cookie
        /\ event_list'[k].e.mask = IF k \in B THEN "none" ELSE event_list[k].e.mask

(* The new event is the last one. *)
Adds(e, m, f) ==
    /\ Len(event_list') = Len(event_list) + 1
    /\ event_list'[Len(event_list')].from = f
    /\ event_list'[Len(event_list')].e.name = e.name
    /\ event_list'[Len(event_list')].e.cookie = e.cookie
    /\ event_list'[Len(event_list')].e.mask = m

\* The IN_MOVED_FROM events that check_from_events() finds for e.
Claim(e) == {k \in moved_from : e.mask = "to" /\ e.cookie = event_list[k].e.cookie}

\* queue_event() has four outcomes: the event is the same as the last one,
ReadDup(e) ==
    /\ event_list # <<>> /\ event_list[Len(event_list)].e = e
    /\ UNCHANGED <<event_list, moved_from>>
\* it removes what was made, and is dropped,
ReadDrop(e) ==
    /\ IsDel(e.mask) /\ Hits(event_list, e) # {}
    /\ Len(event_list') = Len(event_list) /\ Keeps(Blanked(event_list, e))
    /\ UNCHANGED moved_from
\* it makes again what was removed, and becomes a modification,
ReadAgain(e) ==
    /\ IsNew(e.mask) /\ Hits(event_list, e) # {}
    /\ Keeps(Blanked(event_list, e)) /\ Adds(e, "modify", 0)
    /\ UNCHANGED moved_from
\* or it is queued as it is, and claims the other half of a move.
ReadPlain(e) ==
    /\ Hits(event_list, e) = {}
    /\ Keeps(Claim(e))
    /\ \E f \in Nat : /\ Adds(e, e.mask, f)
                      /\ IF Claim(e) = {} THEN f = 0 ELSE f \in Claim(e)
    /\ moved_from' = (moved_from \ Claim(e)) \cup
                     (IF e.mask = "from" THEN {Len(event_list) + 1} ELSE {})

Read(e) == ReadDup(e) \/ ReadDrop(e) \/ ReadAgain(e) \/ ReadPlain(e)

\* Entries stay entries when they are blanked,
LEMMA BlankFI == \A x \in FI : [x EXCEPT !.e.mask = "none"] \in FI
<1> SUFFICES ASSUME NEW x \in FI PROVE [x EXCEPT !.e.mask = "none"] \in FI
  OBVIOUS
<1>1. [x.e EXCEPT !.mask = "none"] \in FileEvent(FileMasks \cup {"none"})
  BY DEF FI, FileEvent
<1>2. [x EXCEPT !.e.mask = "none"] = [e |-> [x.e EXCEPT !.mask = "none"], from |-> x.from]
  BY DEF FI
<1> QED
  BY <1>1, <1>2 DEF FI

\* lists of them stay lists,
LEMMA BlankFlat ==
    ASSUME NEW list \in Seq(FI), NEW B
    PROVE  /\ Blank(list, B) \in Seq(FI)
           /\ Len(Blank(list, B)) = Len(list) /\ DOMAIN Blank(list, B) = DOMAIN list
  BY BlankFI, BlankList

\* and only the mask changes.
LEMMA BlankParts ==
    ASSUME NEW list \in Seq(FI), NEW B, NEW k \in DOMAIN list
    PROVE  /\ Blank(list, B)[k].from = list[k].from
           /\ Blank(list, B)[k].e.name = list[k].e.name
           /\ Blank(list, B)[k].e.cookie = list[k].e.cookie
           /\ Blank(list, B)[k].e.mask = IF k \in B THEN "none" ELSE list[k].e.mask
<1> DEFINE x == list[k]
<1>1. x \in FI
  OBVIOUS
<1>2. Blank(list, B)[k] = IF k \in B THEN [x EXCEPT !.e.mask = "none"] ELSE x
  BY DEF Blank
<1> HIDE DEF x
<1>3. LET y == [x EXCEPT !.e.mask = "none"]
      IN  y.from = x.from /\ y.e.name = x.e.name /\ y.e.cookie = x.e.cookie /\ y.e.mask = "none"
  BY <1>1 DEF FI, FileEvent
<1> QED
  BY <1>2, <1>3 DEF x

\* queue_event() does one of the four.
LEMMA QueueIs ==
    ASSUME FlatTypes, QueueEvent
    PROVE  /\ inot # <<>> /\ Head(inot) \in FE /\ inot' = Tail(inot) /\ cur = 0
           /\ Read(Head(inot))
           /\ event_list' \in Seq(FI)
           /\ UNCHANGED <<file, where, ops, behind, lost, asfile, watch, cur, step, db, dircache>>
<1> DEFINE e == Head(inot)
           r == Ephemeral(event_list, e)
           claim == IF r.mask = "to" THEN {k \in moved_from : e.cookie = event_list[k].e.cookie} ELSE {}
           list == Blank(r.list, claim)
           from == IF claim = {} THEN 0 ELSE CHOOSE k \in claim : TRUE
           x == [e |-> [e EXCEPT !.mask = r.mask], from |-> from]
<1>1. /\ inot # <<>> /\ inot' = Tail(inot) /\ cur = 0
      /\ UNCHANGED <<file, where, ops, behind, lost, asfile, watch, cur, step, db>>
  BY DEF QueueEvent, user
<1>2. e \in FE /\ e.mask \in FileMasks /\ e.dir = FALSE /\ e.wd = Top /\ e.cookie \in Nat /\ e.name \in Names
  <2>1. e = inot[1] /\ 1 \in DOMAIN inot
    BY <1>1, FlatSeq
  <2> HIDE DEF e
  <2> QED
    BY <2>1, FlatItems
<1>3. event_list \in Seq(FI) /\ moved_from \subseteq Nat
  BY DEF FlatTypes, FI
<1>4. LET dup == event_list # <<>> /\ event_list[Len(event_list)].e = e
      IN  IF dup THEN UNCHANGED <<event_list, moved_from, dircache, alive>>
          ELSE IF r.drop THEN
            /\ event_list' = r.list
            /\ UNCHANGED <<moved_from, dircache, alive>>
          ELSE
            /\ event_list' = Append(list, x)
            /\ moved_from' = (moved_from \ claim) \cup
                             (IF r.mask = "from" THEN {Len(list) + 1} ELSE {})
            /\ dircache' = IF e.mask = "ignored" /\ dircache[e.wd] # None
                           THEN [dircache EXCEPT ![e.wd] = Disabled] ELSE dircache
            /\ alive' \in IF r.mask = "to" /\ dangling THEN BOOLEAN ELSE {TRUE}
  BY DEF QueueEvent, Blank, Last
<1> DEFINE H == Hits(event_list, e)
           B == Blanked(event_list, e)
<1>5. /\ r.mask = IF H # {} /\ IsNew(e.mask) THEN "modify" ELSE e.mask
      /\ r.drop = (H # {} /\ IsDel(e.mask))
      /\ r.list = Blank(event_list, B)
  BY EphemeralIs, Zenon
<1> HIDE DEF e, r
<1>6. dircache' = dircache
  BY <1>2, <1>4 DEF FileMasks
<1>7. H # {} => IsNew(e.mask) \/ IsDel(e.mask)
  BY DEF Hits
<1>8. H = {} => B = {}
  BY DEF Blanked
<1> HIDE DEF H, B
<1>9. Blank(event_list, {}) = event_list
  BY <1>3 DEF Blank
<1>10. r.list \in Seq(FI) /\ Len(r.list) = Len(event_list) /\ DOMAIN r.list = DOMAIN event_list
  BY <1>3, <1>5, BlankFlat
<1>11. list \in Seq(FI) /\ Len(list) = Len(event_list) /\ DOMAIN list = DOMAIN event_list
  <2> HIDE DEF claim
  <2> QED
    BY <1>10, BlankFlat
<1>12. from \in Nat /\ (IF claim = {} THEN from = 0 ELSE from \in claim)
  <2>1. claim \subseteq Nat
    BY <1>3
  <2> HIDE DEF claim
  <2> QED
    BY <2>1
<1>13. x \in FI /\ x.from = from /\ x.e.name = e.name /\ x.e.cookie = e.cookie /\ x.e.mask = r.mask
  <2>1. r.mask \in FileMasks
    BY <1>2, <1>5, FlatMasks
  <2> HIDE DEF from
  <2> QED
    BY <1>2, <1>12, <2>1 DEF FI, FE, FileEvent
<1>14. CASE event_list # <<>> /\ event_list[Len(event_list)].e = e
  <2>1. UNCHANGED <<event_list, moved_from>>
    BY <1>4, <1>14
  <2>2. ReadDup(e)
    BY <1>14, <2>1 DEF ReadDup
  <2> QED
    BY <1>1, <1>2, <1>3, <1>6, <2>1, <2>2 DEF Read, e
<1>15. CASE ~(event_list # <<>> /\ event_list[Len(event_list)].e = e) /\ r.drop
  <2>1. event_list' = Blank(event_list, B) /\ UNCHANGED moved_from
    BY <1>4, <1>5, <1>15
  <2>2. Keeps(B) /\ Len(event_list') = Len(event_list)
    BY <1>3, <1>5, <1>10, <2>1, BlankParts DEF Keeps
  <2>3. ReadDrop(e)
    BY <1>5, <1>15, <2>1, <2>2 DEF ReadDrop, H, B
  <2> QED
    BY <1>1, <1>2, <1>5, <1>6, <1>10, <2>1, <2>3 DEF Read, e
<1>16. CASE ~(event_list # <<>> /\ event_list[Len(event_list)].e = e) /\ ~r.drop
  <2>1. /\ event_list' = Append(list, x)
        /\ moved_from' = (moved_from \ claim) \cup (IF r.mask = "from" THEN {Len(list) + 1} ELSE {})
    BY <1>4, <1>16
  <2> HIDE DEF x
  <2>2. /\ event_list' \in Seq(FI) /\ Len(event_list') = Len(event_list) + 1
        /\ event_list'[Len(event_list')] = x
        /\ \A k \in DOMAIN event_list : k \in DOMAIN event_list' /\ event_list'[k] = list[k]
    <3> HIDE DEF list
    <3> QED
      BY <1>3, <1>11, <1>13, <2>1
  <2>3. CASE H = {}
    <3>1. r.list = event_list /\ r.mask = e.mask
      BY <1>5, <1>8, <1>9, <2>3
    <3>2. claim = Claim(e)
      BY <3>1 DEF Claim
    <3> HIDE DEF claim, from
    <3>3. Keeps(Claim(e))
      BY <1>3, <2>2, <3>1, <3>2, BlankParts DEF Keeps
    <3>4. Adds(e, e.mask, from)
      BY <1>13, <2>2, <3>1 DEF Adds
    <3>5. moved_from' = (moved_from \ Claim(e)) \cup (IF e.mask = "from" THEN {Len(event_list) + 1} ELSE {})
      BY <1>11, <2>1, <3>1, <3>2
    <3>6. ReadPlain(e)
      BY <1>12, <2>3, <3>2, <3>3, <3>4, <3>5 DEF ReadPlain, H
    <3> QED
      BY <1>1, <1>2, <1>6, <2>2, <3>6 DEF Read, e
  <2>4. CASE H # {}
    <3>1. IsNew(e.mask) /\ r.mask = "modify"
      BY <1>5, <1>7, <1>16, <2>4
    <3>2. claim = {} /\ from = 0
      BY <3>1
    <3> HIDE DEF claim, from
    <3>3. Keeps(B)
      <4>1. \A k \in DOMAIN event_list : list[k] = r.list[k]
        BY <1>10, <3>2 DEF Blank
      <4> HIDE DEF list
      <4> QED
        BY <1>3, <1>5, <2>2, <4>1, BlankParts DEF Keeps
    <3>4. Adds(e, "modify", 0)
      BY <1>13, <2>2, <3>1, <3>2 DEF Adds
    <3>5. moved_from' = moved_from
      BY <2>1, <3>1, <3>2
    <3>6. ReadAgain(e)
      BY <2>4, <3>1, <3>3, <3>4, <3>5 DEF ReadAgain, H, B
    <3> QED
      BY <1>1, <1>2, <1>6, <2>2, <3>6 DEF Read, e
  <2> QED
    BY <2>3, <2>4
<1> QED
  BY <1>14, <1>15, <1>16

\* What an IN_MOVED_TO claims is the last entry of event_list, and of another name.
LEMMA ClaimIs ==
    ASSUME FlatTypes, Cookies, inot # <<>>, NEW k \in Claim(Head(inot))
    PROVE  k \in moved_from /\ k = Len(event_list) /\ Mask(k) = "from" /\ Name(k) # Head(inot).name
<1>1. Head(inot) = inot[1] /\ 1 \in DOMAIN inot
  BY FlatSeq
<1> QED
  BY <1>1 DEF Claim, Cookies

\* queue_event() keeps the types.
LEMMA TypesQueue == ASSUME FlatTypes, QueueEvent PROVE FlatTypes'
<1> DEFINE e == Head(inot)
<1>1. /\ inot # <<>> /\ inot' = Tail(inot) /\ cur = 0 /\ Read(e) /\ event_list' \in Seq(FI)
      /\ UNCHANGED <<file, where, ops, behind, lost, asfile, watch, cur, step, db, dircache>>
  BY QueueIs
<1>2. inot' \in Seq(FileEvent(FileMasks))
  BY <1>1 DEF FlatTypes
<1>3. event_list \in Seq(FI) /\ Len(event_list) \in Nat /\ DOMAIN event_list = 1 .. Len(event_list)
      /\ moved_from \subseteq DOMAIN event_list /\ (\A k \in DOMAIN event_list : event_list[k].from < k)
  BY DEF FlatTypes, FI
<1>4. Len(event_list') \in Nat /\ DOMAIN event_list' = 1 .. Len(event_list')
  BY <1>1
<1>5. (\A k \in DOMAIN event_list' : event_list'[k].from < k) /\ moved_from' \subseteq DOMAIN event_list'
  <2> HIDE DEF e
  <2>1. CASE ReadDup(e)
    BY <1>3, <2>1 DEF ReadDup
  <2>2. CASE ReadDrop(e)
    BY <1>3, <1>4, <2>2 DEF ReadDrop, Keeps
  <2>3. CASE ReadAgain(e)
    <3>1. \A k \in DOMAIN event_list' : k \in DOMAIN event_list \/ k = Len(event_list')
      BY <1>3, <1>4, <2>3 DEF ReadAgain, Adds
    <3> QED
      BY <1>3, <1>4, <2>3, <3>1 DEF ReadAgain, Keeps, Adds
  <2>4. CASE ReadPlain(e)
    <3>1. \A k \in DOMAIN event_list' : k \in DOMAIN event_list \/ k = Len(event_list')
      BY <1>3, <1>4, <2>4 DEF ReadPlain, Adds
    <3>2. PICK f \in Nat : Adds(e, e.mask, f) /\ (IF Claim(e) = {} THEN f = 0 ELSE f \in Claim(e))
      BY <2>4 DEF ReadPlain
    <3>3. f <= Len(event_list)
      BY <1>3, <3>2 DEF Claim
    <3>4. \A k \in DOMAIN event_list' : event_list'[k].from < k
      BY <1>3, <1>4, <2>4, <3>1, <3>2, <3>3 DEF ReadPlain, Keeps, Adds
    <3>5. moved_from' \subseteq DOMAIN event_list'
      BY <1>3, <1>4, <2>4, <3>2 DEF ReadPlain, Adds
    <3> QED
      BY <3>4, <3>5
  <2> QED
    BY <1>1, <2>1, <2>2, <2>3, <2>4 DEF Read
<1>6. cur' \in Nat /\ cur' <= Len(event_list') + 1
  BY <1>1, <1>4
<1> HIDE DEF e
<1> QED
  BY <1>1, <1>2, <1>5, <1>6 DEF FlatTypes, FI

(* inot without its first event. *)
LEMMA TailIs ==
    ASSUME FlatTypes, inot # <<>>, inot' = Tail(inot)
    PROVE  /\ 1 \in DOMAIN inot /\ Head(inot) = inot[1]
           /\ \A j \in DOMAIN inot' : j \in Nat /\ j + 1 \in DOMAIN inot /\ inot'[j] = inot[j + 1] /\ j >= 1
           /\ \A j \in DOMAIN inot : j \in Nat /\ (j # 1 => j > 1 /\ j - 1 \in DOMAIN inot' /\ inot'[j - 1] = inot[j])
  BY FlatSeq

\* What an entry that is kept stands for.
LEMMA KeptParts ==
    ASSUME FlatTypes, NEW B, Keeps(B), NEW n, NEW k \in DOMAIN event_list
    PROVE  /\ k \notin B /\ Looks(k, n) => Looks(k, n)'
           /\ Removes(k, n)' => Removes(k, n)
           /\ Carries(k, n)' => Carries(k, n)
<1>1. event_list[k].from # 0 => event_list[k].from \in DOMAIN event_list
  <2>1. event_list \in Seq(FI) /\ event_list[k].from < k /\ event_list[k].from \in Nat
    BY FlatItems DEF FlatTypes, FI
  <2> QED
    BY <2>1
<1>2. /\ Name(k)' = Name(k) /\ Mask(k)' = IF k \in B THEN "none" ELSE Mask(k)
      /\ event_list'[k].from = event_list[k].from
  BY DEF Keeps, Name, Mask
<1>3. event_list[k].from # 0 => event_list'[event_list[k].from].e.name = event_list[event_list[k].from].e.name
  BY <1>1 DEF Keeps
<1>4. Carries(k, n)' => Carries(k, n)
  BY <1>2, <1>3 DEF Carries, Name
<1>5. Dels(k, n)' => Dels(k, n)
  BY <1>2 DEF Dels, IsDel
<1>6. k \notin B /\ Looks(k, n) => Looks(k, n)'
  BY <1>2 DEF Looks
<1> QED
  BY <1>4, <1>5, <1>6 DEF Removes

(* What was going to be looked at still is, *)
StillLooked ==
    \A n \in Names, k \in {0} \cup DOMAIN event_list :
        file[n] # 0 /\ LookedAtAfter(k, n) /\ (k = 0 \/ Removes(k, n)) => LookedAtAfter(k, n)'
(* and so is what the new event removes. *)
NewLooked ==
    \A n \in Names, k \in DOMAIN event_list' :
        k \notin DOMAIN event_list /\ file[n] # 0 /\ Removes(k, n)' => LookedAtAfter(k, n)'

\* An event the kernel still has after this one will be looked at.
LEMMA LookInKernel ==
    ASSUME FlatTypes, inot # <<>>, inot' = Tail(inot), NEW n \in Names, NEW k \in Nat,
           NEW j \in DOMAIN inot, j # 1, LookAt(j, n)
    PROVE  LookedAtAfter(k, n)'
<1>1. j - 1 \in DOMAIN inot' /\ inot'[j - 1] = inot[j]
  BY TailIs
<1> QED
  BY <1>1 DEF LookedAtAfter, LookAt

\* Nothing is forgotten of a name that the event is not about.
LEMMA LookKept ==
    ASSUME FlatTypes, cur = 0, cur' = 0, inot # <<>>, inot' = Tail(inot), NEW B, Keeps(B),
           NEW n \in Names, NEW k \in Nat, LookedAtAfter(k, n), ~LookAt(1, n), \A i \in B : ~Looks(i, n)
    PROVE  LookedAtAfter(k, n)'
<1>1. CASE \E j \in DOMAIN inot : LookAt(j, n)
  BY <1>1, LookInKernel
<1>2. CASE \E i \in Pend : i > k /\ Looks(i, n)
  <2>1. PICK i \in Pend : i > k /\ Looks(i, n)
    BY <1>2
  <2>2. i \in DOMAIN event_list /\ i \in Nat
    BY DEF Pend, FlatTypes
  <2>3. i \in DOMAIN event_list' /\ Looks(i, n)'
    BY <2>1, <2>2, KeptParts DEF Keeps
  <2>4. i \in Pend'
    BY <2>2, <2>3 DEF Pend
  <2> QED
    BY <2>1, <2>3, <2>4 DEF LookedAtAfter
<1> QED
  BY <1>1, <1>2 DEF LookedAtAfter

\* A removal of a file that is there is followed by its return.
LEMMA DelIsBack ==
    ASSUME FlatTypes, BackInKernel, inot # <<>>, inot' = Tail(inot), NEW n \in Names, n = Head(inot).name,
           IsDel(Head(inot).mask), file[n] # 0, NEW k \in Nat
    PROVE  LookedAtAfter(k, n)'
<1>1. 1 \in DOMAIN inot /\ DelAt(1, n)
  BY TailIs DEF DelAt
<1>2. PICK i \in DOMAIN inot : i > 1 /\ LookAt(i, n)
  BY <1>1 DEF BackInKernel
<1>3. i # 1
  BY <1>2
<1> QED
  BY <1>2, <1>3, LookInKernel

\* ephemeral_event() and check_from_events() forget nothing about a file that is there.
LEMMA QueueLooks ==
    ASSUME FlatTypes, BackInKernel, BackInList, Cookies, cur = 0, cur' = 0, inot # <<>>, inot' = Tail(inot),
           NEW e, e = Head(inot), Read(e), event_list' \in Seq(FI)
    PROVE  /\ StillLooked /\ NewLooked
           /\ \A k \in DOMAIN event_list, n \in Names : Removes(k, n)' => Removes(k, n)
<1>0. e = inot[1] /\ 1 \in DOMAIN inot /\ e.name \in Names /\ e.mask \in FileMasks
  <2>1. e = inot[1] /\ 1 \in DOMAIN inot
    BY TailIs
  <2> QED
    BY <2>1, FlatItems
<1>1. /\ Len(event_list) \in Nat /\ DOMAIN event_list = 1 .. Len(event_list) /\ Pend = DOMAIN event_list
      /\ Len(event_list') \in Nat /\ DOMAIN event_list' = 1 .. Len(event_list') /\ Pend' = DOMAIN event_list'
  <2>1. event_list \in Seq(FI)
    BY DEF FlatTypes, FI
  <2>2. /\ Len(event_list) \in Nat /\ DOMAIN event_list = 1 .. Len(event_list)
        /\ Len(event_list') \in Nat /\ DOMAIN event_list' = 1 .. Len(event_list')
    BY <2>1
  <2> QED
    BY <2>2 DEF Pend
<1>n. {0} \cup DOMAIN event_list \subseteq Nat
  BY <1>1
<1>2. \A n \in Names : n # e.name => ~LookAt(1, n) /\ \A i \in Blanked(event_list, e) : ~Looks(i, n)
  <2>1. \A n \in Names : n # e.name => ~LookAt(1, n)
    BY <1>0 DEF LookAt
  <2>2. \A i \in Blanked(event_list, e) : event_list[i].e.name = e.name
    BY Zenon DEF Blanked
  <2> QED
    BY <2>1, <2>2 DEF Looks, Name
<1>3. \A k \in Nat, n \in Names : n = e.name /\ IsDel(e.mask) /\ file[n] # 0 => LookedAtAfter(k, n)'
  <2> SUFFICES ASSUME NEW k \in Nat, NEW n \in Names, n = e.name, IsDel(e.mask), file[n] # 0
               PROVE  LookedAtAfter(k, n)'
    OBVIOUS
  <2>1. n = Head(inot).name /\ IsDel(Head(inot).mask)
    BY Zenon
  <2> QED
    BY <2>1, DelIsBack
<1>4. CASE ReadDup(e)
  <2>0. event_list' = event_list /\ event_list # <<>> /\ event_list[Len(event_list)].e = e
    BY <1>4 DEF ReadDup
  <2>1. \A k \in DOMAIN event_list, n \in Names : (Removes(k, n)' <=> Removes(k, n)) /\ (Looks(k, n)' <=> Looks(k, n))
    BY <2>0 DEF Removes, Dels, Carries, Looks, Name, Mask
  <2>2. StillLooked
    <3> SUFFICES ASSUME NEW n \in Names, NEW k \in {0} \cup DOMAIN event_list, LookedAtAfter(k, n),
                        k = 0 \/ Removes(k, n)
                 PROVE  LookedAtAfter(k, n)'
      BY DEF StillLooked
    <3>0. k \in Nat
      BY <1>1
    <3>1. CASE \E i \in Pend : i > k /\ Looks(i, n)
      BY <1>1, <2>0, <2>1, <3>1 DEF LookedAtAfter
    <3>2. CASE \E j \in DOMAIN inot : j # 1 /\ LookAt(j, n)
      BY <3>0, <3>2, LookInKernel
    <3>3. CASE LookAt(1, n)
      <4> PICK L \in Nat : L = Len(event_list)
        BY <1>1
      <4>1. L \in DOMAIN event_list /\ Looks(L, n)
        BY <1>0, <1>1, <2>0, <3>3 DEF LookAt, Looks, Name, Mask
      <4>2. k # L
        <5>1. ~Carries(L, n)
          BY <4>1 DEF Looks, Cookies
        <5>2. ~Dels(L, n)
          BY <4>1 DEF Dels, Looks, IsLook, IsDel
        <5>3. L # 0
          BY <1>1, <4>1
        <5> QED
          BY <5>1, <5>2, <5>3 DEF Removes
      <4> QED
        BY <1>1, <2>0, <2>1, <4>1, <4>2 DEF LookedAtAfter
    <3> QED
      BY <3>1, <3>2, <3>3 DEF LookedAtAfter
  <2> QED
    BY <2>0, <2>1, <2>2 DEF NewLooked
<1>5. CASE ReadDrop(e)
  <2>0. Keeps(Blanked(event_list, e)) /\ IsDel(e.mask) /\ Len(event_list') = Len(event_list)
    BY <1>5 DEF ReadDrop
  <2>1. StillLooked
    BY <1>2, <1>3, <2>0, <1>n, LookKept DEF StillLooked
  <2>2. NewLooked
    BY <1>1, <2>0 DEF NewLooked
  <2> QED
    BY <2>0, <2>1, <2>2, KeptParts
<1>6. CASE ReadAgain(e)
  <2>0. Keeps(Blanked(event_list, e)) /\ Adds(e, "modify", 0)
    BY <1>6 DEF ReadAgain
  <2> PICK L \in Nat : L = Len(event_list) + 1
    BY <1>1
  <2>1. L \in DOMAIN event_list' /\ L = Len(event_list') /\ event_list'[L].e.mask = "modify" /\ event_list'[L].e.name = e.name
    BY <1>1, <2>0 DEF Adds
  <2>2. \A k \in {0} \cup DOMAIN event_list, n \in Names : n = e.name => LookedAtAfter(k, n)'
    BY <1>1, <2>1 DEF LookedAtAfter, Looks, Name, Mask, IsLook
  <2>3. StillLooked
    BY <1>2, <2>0, <2>2, <1>n, LookKept DEF StillLooked
  <2>4. NewLooked
    <3>1. \A n : ~Removes(L, n)'
      BY <2>1 DEF Removes, Dels, Carries, Mask, IsDel
    <3>2. \A k \in DOMAIN event_list' : k \notin DOMAIN event_list => k = L
      BY <1>1, <2>1
    <3> QED
      BY <3>1, <3>2 DEF NewLooked
  <2> QED
    BY <2>0, <2>3, <2>4, KeptParts
<1>7. CASE ReadPlain(e)
  <2>0. Keeps(Claim(e))
    BY <1>7 DEF ReadPlain
  <2>1. PICK f \in Nat : Adds(e, e.mask, f) /\ (IF Claim(e) = {} THEN f = 0 ELSE f \in Claim(e))
    BY <1>7 DEF ReadPlain
  <2> PICK L \in Nat : L = Len(event_list) + 1
    BY <1>1
  <2>2. /\ L \in DOMAIN event_list' /\ L = Len(event_list') /\ event_list'[L].e.mask = e.mask
        /\ event_list'[L].e.name = e.name /\ event_list'[L].from = f
    BY <1>1, <2>1 DEF Adds
  <2>3. \A k \in Claim(e) : k \in DOMAIN event_list /\ k = Len(event_list) /\ Mask(k) = "from" /\ Name(k) # e.name
    BY ClaimIs, FlatItems
  <2>4. \A k \in Claim(e), n \in Names : ~Looks(k, n)
    BY <2>3 DEF Looks, IsLook
  <2>5. IsLook(e.mask) \/ IsDel(e.mask)
    BY <1>0 DEF FileMasks, IsLook, IsDel
  <2>6. \A k \in {0} \cup DOMAIN event_list, n \in Names : n = e.name /\ IsLook(e.mask) => LookedAtAfter(k, n)'
    BY <1>1, <2>2 DEF LookedAtAfter, Looks, Name, Mask
  <2>7. StillLooked
    <3> SUFFICES ASSUME NEW n \in Names, NEW k \in {0} \cup DOMAIN event_list, file[n] # 0, LookedAtAfter(k, n)
                 PROVE  LookedAtAfter(k, n)'
      BY DEF StillLooked
    <3>1. CASE n = e.name
      BY <1>n, <1>3, <2>5, <2>6, <3>1
    <3>2. CASE n # e.name
      BY <1>n, <1>2, <2>0, <2>4, <3>2, LookKept
    <3> QED
      BY <3>1, <3>2
  <2>8. NewLooked
    <3> SUFFICES ASSUME NEW n \in Names, file[n] # 0, Removes(L, n)' PROVE LookedAtAfter(L, n)'
      <4>1. \A k \in DOMAIN event_list' : k \notin DOMAIN event_list => k = L
        BY <1>1, <2>2
      <4> QED
        BY <4>1 DEF NewLooked
    <3>1. CASE Dels(L, n)'
      BY <1>3, <2>2, <3>1 DEF Dels, Name, Mask
    <3>2. CASE Carries(L, n)'
      <4>1. f \in Claim(e) /\ event_list'[f].e.name = n
        BY <2>1, <2>2, <3>2 DEF Carries, Name, Mask
      <4>2. f \in DOMAIN event_list /\ f = Len(event_list) /\ Mask(f) = "from" /\ Name(f) # e.name /\ Name(f) = n
        BY <2>0, <2>3, <4>1 DEF Keeps, Name
      <4>3. LookedAtAfter(f, n)
        BY <1>1, <4>2 DEF BackInList, Removes, Dels, IsDel
      <4>4. PICK j \in DOMAIN inot : LookAt(j, n)
        BY <1>1, <4>2, <4>3 DEF LookedAtAfter
      <4>5. j # 1
        BY <1>2, <4>2, <4>4
      <4> QED
        BY <4>4, <4>5, LookInKernel
    <3> QED
      BY <3>1, <3>2 DEF Removes
  <2> QED
    BY <2>0, <2>7, <2>8, KeptParts
<1> QED
  BY <1>4, <1>5, <1>6, <1>7 DEF Read

\* queue_event() keeps the two halves of a move together.
LEMMA CookiesQueue ==
    ASSUME FlatTypes, Cookies, inot # <<>>, inot' = Tail(inot), ops' = ops,
           NEW e, e = Head(inot), Read(e), event_list' \in Seq(FI)
    PROVE  Cookies'
<1>0. /\ 1 \in DOMAIN inot /\ e = inot[1]
      /\ \A j \in DOMAIN inot' : j \in Nat /\ j + 1 \in DOMAIN inot /\ inot'[j] = inot[j + 1] /\ j >= 1
  BY TailIs
<1>1. /\ Len(event_list) \in Nat /\ DOMAIN event_list = 1 .. Len(event_list)
      /\ Len(event_list') \in Nat /\ DOMAIN event_list' = 1 .. Len(event_list')
      /\ moved_from \subseteq DOMAIN event_list
  <2>1. event_list \in Seq(FI) /\ moved_from \subseteq DOMAIN event_list
    BY DEF FlatTypes, FI
  <2> QED
    BY <2>1
<1>2. \A j \in DOMAIN inot' : inot'[j].cookie <= ops'
  BY <1>0 DEF Cookies
<1>3. \A j \in DOMAIN inot' : inot'[j].mask = "to" =>
         \A i \in DOMAIN inot' : inot'[i].mask = "from" /\ inot'[i].cookie = inot'[j].cookie =>
             i = j - 1 /\ inot'[i].name # inot'[j].name
  <2> SUFFICES ASSUME NEW j \in DOMAIN inot', inot'[j].mask = "to",
                      NEW i \in DOMAIN inot', inot'[i].mask = "from", inot'[i].cookie = inot'[j].cookie
               PROVE  i = j - 1 /\ inot'[i].name # inot'[j].name
    OBVIOUS
  <2>1. i + 1 = (j + 1) - 1 /\ inot[i + 1].name # inot[j + 1].name
    BY <1>0 DEF Cookies
  <2> QED
    BY <1>0, <2>1
(* A move's first event has been read, or is the next one. *)
<1>4. \A j \in DOMAIN inot' : inot'[j].mask = "to" =>
         \A k \in moved_from : event_list[k].e.cookie # inot'[j].cookie
  <2> SUFFICES ASSUME NEW j \in DOMAIN inot', inot'[j].mask = "to", NEW k \in moved_from,
                      event_list[k].e.cookie = inot'[j].cookie
               PROVE  FALSE
    OBVIOUS
  <2>1. j + 1 = 1
    BY <1>0 DEF Cookies
  <2> QED
    BY <1>0, <2>1
<1>5. CASE ReadDup(e)
  BY <1>2, <1>3, <1>4, <1>5 DEF ReadDup, Cookies, Carries, Name, Mask
<1>6. ASSUME NEW B, Keeps(B), moved_from' = moved_from, DOMAIN event_list' = DOMAIN event_list
      PROVE  Cookies'
  <2>1. \A k \in DOMAIN event_list' : event_list'[k].e.cookie <= ops'
    BY <1>6 DEF Keeps, Cookies
  <2>2. \A j \in DOMAIN inot' : inot'[j].mask = "to" =>
         \A k \in moved_from' : event_list'[k].e.cookie # inot'[j].cookie
    BY <1>1, <1>4, <1>6 DEF Keeps
  <2>3. \A k \in DOMAIN event_list', n \in Names : Carries(k, n)' => Name(k)' # n
    <3> SUFFICES ASSUME NEW k \in DOMAIN event_list, NEW n \in Names, Carries(k, n)' PROVE Name(k)' # n
      BY <1>6
    <3>1. Carries(k, n)
      BY <1>6, KeptParts
    <3> QED
      BY <1>6, <3>1 DEF Cookies, Keeps, Name
  <2> QED
    BY <1>2, <1>3, <2>1, <2>2, <2>3 DEF Cookies
<1>7. CASE ReadDrop(e)
  BY <1>1, <1>6, <1>7 DEF ReadDrop
(* One more event. *)
<1>8. ASSUME NEW B, Keeps(B), NEW m, NEW f \in Nat, Adds(e, m, f),
             \A j \in DOMAIN inot' : inot'[j].mask = "to" =>
                 \A k \in moved_from' : event_list'[k].e.cookie = inot'[j].cookie =>
                     j = 1 /\ k = Len(event_list') /\ event_list'[k].e.mask = "from" /\ event_list'[k].e.name # inot'[j].name,
             m = "to" /\ f # 0 => f \in DOMAIN event_list /\ Name(f) # e.name
      PROVE  Cookies'
  <2>0. /\ \A k \in DOMAIN event_list' : k \in DOMAIN event_list \/ k = Len(event_list')
        /\ e.cookie <= ops'
    BY <1>0, <1>1, <1>8 DEF Adds, Cookies
  <2>1. \A k \in DOMAIN event_list' : event_list'[k].e.cookie <= ops'
    BY <1>8, <2>0 DEF Keeps, Adds, Cookies
  <2>2. \A k \in DOMAIN event_list', n \in Names : Carries(k, n)' => Name(k)' # n
    <3> SUFFICES ASSUME NEW k \in DOMAIN event_list', NEW n \in Names, Carries(k, n)' PROVE Name(k)' # n
      OBVIOUS
    <3>1. CASE k \in DOMAIN event_list
      <4>1. Carries(k, n)
        BY <1>8, <3>1, KeptParts
      <4> QED
        BY <1>8, <3>1, <4>1 DEF Cookies, Keeps, Name
    <3>2. CASE k = Len(event_list')
      <4>1. event_list'[k].e.mask = m /\ event_list'[k].from = f /\ event_list'[k].e.name = e.name
        BY <1>8, <3>2 DEF Adds
      <4>2. m = "to" /\ f # 0 /\ event_list'[f].e.name = n
        BY <4>1 DEF Carries, Name, Mask
      <4>3. event_list'[f].e.name = event_list[f].e.name /\ Name(f) # e.name
        BY <1>8, <4>2 DEF Keeps
      <4> QED
        BY <4>1, <4>2, <4>3 DEF Name
    <3> QED
      BY <2>0, <3>1, <3>2
  <2> QED
    BY <1>2, <1>3, <1>8, <2>1, <2>2 DEF Cookies, Name, Mask
<1>9. CASE ReadAgain(e)
  <2>1. \A j \in DOMAIN inot' : inot'[j].mask = "to" =>
           \A k \in moved_from' : event_list'[k].e.cookie # inot'[j].cookie
    BY <1>1, <1>4, <1>9 DEF ReadAgain, Keeps
  <2> QED
    BY <1>8, <1>9, <2>1 DEF ReadAgain
<1>10. CASE ReadPlain(e)
  <2>1. PICK f \in Nat : Adds(e, e.mask, f) /\ (IF Claim(e) = {} THEN f = 0 ELSE f \in Claim(e))
    BY <1>10 DEF ReadPlain
  <2>2. Keeps(Claim(e))
    BY <1>10 DEF ReadPlain
  <2>3. f # 0 => f \in DOMAIN event_list /\ Name(f) # e.name
    BY <1>1, <2>1, ClaimIs
  <2>4. ASSUME NEW j \in DOMAIN inot', inot'[j].mask = "to",
               NEW k \in moved_from', event_list'[k].e.cookie = inot'[j].cookie
        PROVE  j = 1 /\ k = Len(event_list') /\ event_list'[k].e.mask = "from" /\ event_list'[k].e.name # inot'[j].name
    <3>1. k \notin moved_from
      BY <1>1, <1>4, <2>2, <2>4 DEF Keeps
    <3>2. e.mask = "from" /\ k = Len(event_list') /\ event_list'[k].e.mask = "from"
          /\ event_list'[k].e.name = e.name /\ event_list'[k].e.cookie = e.cookie
      BY <1>10, <2>1, <2>4, <3>1 DEF ReadPlain, Adds
    <3>3. 1 = (j + 1) - 1 /\ inot[1].name # inot[j + 1].name
      BY <1>0, <2>4, <3>2 DEF Cookies
    <3> QED
      BY <1>0, <3>2, <3>3
  <2> QED
    BY <1>8, <2>1, <2>2, <2>3, <2>4
<1> QED
  BY <1>5, <1>7, <1>9, <1>10 DEF Read

\* queue_event() keeps what is known.
LEMMA KnownQueue == ASSUME FlatTypes, KnownInv, QueueEvent PROVE KnownInv'
<1>1. /\ inot # <<>> /\ Head(inot) \in FE /\ inot' = Tail(inot) /\ cur = 0 /\ cur' = 0
      /\ Read(Head(inot)) /\ event_list' \in Seq(FI)
      /\ UNCHANGED <<file, ops, db>>
  BY QueueIs
<1> PICK e : e = Head(inot)
  OBVIOUS
<1>2. Read(e)
  BY <1>1, Zenon
<1>3. /\ StillLooked /\ NewLooked
      /\ \A k \in DOMAIN event_list, n \in Names : Removes(k, n)' => Removes(k, n)
  BY <1>1, <1>2, QueueLooks DEF KnownInv
<1>4. Pend = DOMAIN event_list /\ Pend' = DOMAIN event_list'
  <2>1. event_list \in Seq(FI)
    BY DEF FlatTypes, FI
  <2>2. /\ DOMAIN event_list = 1 .. Len(event_list) /\ Len(event_list) \in Nat
        /\ DOMAIN event_list' = 1 .. Len(event_list') /\ Len(event_list') \in Nat
    BY <1>1, <2>1
  <2> QED
    BY <1>1, <2>2 DEF Pend
<1>5. BackInKernel'
  <2> SUFFICES ASSUME NEW n \in Names, NEW j \in DOMAIN inot', DelAt(j, n)', file'[n] # 0
               PROVE  \E i \in DOMAIN inot' : i > j /\ LookAt(i, n)'
    BY DEF BackInKernel
  <2>1. j \in Nat /\ j + 1 \in DOMAIN inot /\ DelAt(j + 1, n) /\ file[n] # 0
    BY <1>1, TailIs DEF DelAt
  <2>2. PICK i \in DOMAIN inot : i > j + 1 /\ LookAt(i, n)
    BY <2>1 DEF KnownInv, BackInKernel
  <2>3. i \in Nat /\ i - 1 \in DOMAIN inot' /\ inot'[i - 1] = inot[i]
    BY <1>1, <2>1, <2>2, TailIs
  <2> QED
    BY <2>1, <2>2, <2>3 DEF LookAt
<1>6. BackInList'
  <2> SUFFICES ASSUME NEW n \in Names, NEW k \in DOMAIN event_list', Removes(k, n)', file[n] # 0
               PROVE  LookedAtAfter(k, n)'
    BY <1>1, <1>4 DEF BackInList
  <2>1. CASE k \in DOMAIN event_list
    BY <1>3, <1>4, <2>1 DEF StillLooked, KnownInv, BackInList
  <2>2. CASE k \notin DOMAIN event_list
    BY <1>3, <2>2 DEF NewLooked
  <2> QED
    BY <2>1, <2>2
<1>7. DirtyIsLookedAt'
  BY <1>1, <1>3 DEF StillLooked, KnownInv, DirtyIsLookedAt
<1>8. NewIsFlagged'
  BY <1>1 DEF KnownInv, NewIsFlagged, Flagged
<1>9. Cookies'
  BY <1>1, <1>2, CookiesQueue DEF KnownInv
<1> QED
  BY <1>5, <1>6, <1>7, <1>8, <1>9 DEF KnownInv

-----------------------------------------------------------------------------
(* handle_event().                                                         *)

\* The database of a project without directories,
DbOK(d) ==
    /\ DOMAIN d = {"file", "dir", "create", "modify", "rerun"}
    /\ d.file \in [Names \cup Tids -> Nat] /\ d.dir = [n \in Names |-> 0]
\* and that what it has that is new is flagged.
FlagOK(d) ==
    \A n \in Names :
        /\ n \in Generated => d.file[n] # 0
        /\ d.file[n] > 1 => IF n \in Generated THEN n \in d.rerun ELSE n \in d.modify \/ Top \in d.create

(* A state of a handler, in a project without directories. *)
FlatState(s) ==
    /\ DOMAIN s = {"db", "cache", "watch", "gone", "ok"}
    /\ s.cache = dircache /\ s.watch = watch /\ s.gone = <<>> /\ s.ok = TRUE
    /\ DbOK(s.db) /\ FlagOK(s.db)

(* From s to r only the node of n changes; what is flagged to be run again stays so. *)
Only(s, r, n) ==
    /\ \A m \in Names : m # n => r.db.file[m] = s.db.file[m]
    /\ s.db.rerun \subseteq r.db.rerun

\* The database is all that changes.
LEMMA GoodDb ==
    ASSUME NEW s, FlatState(s), NEW d, DbOK(d), FlagOK(d)
    PROVE  FlatState([s EXCEPT !.db = d]) /\ [s EXCEPT !.db = d].db = d
  BY DEF FlatState

\* No name is a number.
LEMMA TidsApart == \A n \in Names : n \notin Tids /\ n # Gone /\ n # Out
<1>1. \A n \in Names : n \notin Int /\ n # Gone /\ n # Out
  BY MonitorQueueAssumption
<1> QED
  BY <1>1, MonitorQueueAssumption DEF Tids

\* tup_file_del(): the file is not in the database any more, or its command is flagged.
LEMMA DelGood ==
    ASSUME NEW s, FlatState(s), NEW n \in Names
    PROVE  LET r == FileDel(s, Top, n)
           IN  FlatState(r) /\ Only(s, r, n) /\ (r.db.file[n] = 0 \/ n \in r.db.rerun)
               /\ (s.db.file[n] = 0 => r.db.file[n] = 0)
<1> DEFINE d == s.db
           g == [d EXCEPT !.rerun = @ \cup {n}, !.modify = @ \ {n}]
           h == [d EXCEPT !.file[n] = 0, !.modify = @ \ {n}, !.create = @ \cup {Top}]
<1>0. DbOK(d) /\ FlagOK(d) /\ d.dir[n] = 0
  BY DEF FlatState, DbOK
<1>1. CASE d.file[n] = 0
  <2>1. FileDel(s, Top, n) = s
    BY <1>0, <1>1 DEF FileDel, NodeAt
  <2> QED
    BY <1>1, <2>1 DEF Only
<1>2. CASE d.file[n] # 0 /\ n \in Generated
  <2>1. FileDel(s, Top, n) = [s EXCEPT !.db = g]
    BY <1>0, <1>2 DEF FileDel, NodeAt, FlatState
  <2>2. DbOK(g) /\ FlagOK(g) /\ g.file = d.file /\ n \in g.rerun /\ d.rerun \subseteq g.rerun
    BY <1>0, <1>2 DEF DbOK, FlagOK
  <2> HIDE DEF g
  <2>3. FlatState([s EXCEPT !.db = g]) /\ [s EXCEPT !.db = g].db = g
    BY <2>2, GoodDb
  <2> QED
    BY <1>2, <2>1, <2>2, <2>3 DEF Only
<1>3. CASE d.file[n] # 0 /\ n \notin Generated
  <2>1. FileDel(s, Top, n) = [s EXCEPT !.db = h]
    BY <1>0, <1>3 DEF FileDel, NodeAt, FlatState
  <2>2. DbOK(h) /\ FlagOK(h) /\ h.file = [d.file EXCEPT ![n] = 0] /\ d.rerun \subseteq h.rerun
    <3>1. DbOK(h) /\ h.file = [d.file EXCEPT ![n] = 0] /\ h.rerun = d.rerun /\ h.modify = d.modify \ {n} /\ Top \in h.create
      BY <1>0 DEF DbOK
    <3> HIDE DEF h
    <3> QED
      BY <1>0, <1>3, <3>1 DEF FlagOK, DbOK
  <2> HIDE DEF h
  <2>3. FlatState([s EXCEPT !.db = h]) /\ [s EXCEPT !.db = h].db = h
    BY <2>2, GoodDb
  <2>4. h.file[n] = 0 /\ \A m \in Names : m # n => h.file[m] = d.file[m]
    BY <1>0, <2>2 DEF DbOK
  <2> QED
    BY <2>1, <2>2, <2>3, <2>4 DEF Only
<1> QED
  BY <1>1, <1>2, <1>3

\* tup_file_mod_mtime(): the database has this mtime, and what is new is flagged.
LEMMA ModGood ==
    ASSUME NEW s, FlatState(s), NEW n \in Names, NEW v \in Nat, v # 0
    PROVE  /\ LET r == FileModMtime(s, Top, n, v, TRUE)
              IN  FlatState(r) /\ Only(s, r, n) /\ r.db.file[n] = v
           /\ LET r == FileModMtime(s, Top, n, v, FALSE)
              IN  FlatState(r) /\ Only(s, r, n) /\ r.db.file[n] = v
<1> DEFINE d == s.db
           D(c) == [d EXCEPT !.file[n] = v,
                             !.create = IF d.file[n] = 0 THEN @ \cup {Top} ELSE @,
                             !.modify = IF c THEN @ \cup {n} ELSE @,
                             !.rerun = IF c /\ n \in Generated THEN @ \cup {n} ELSE @]
<1>0. DbOK(d) /\ FlagOK(d) /\ d.dir[n] = 0
  BY DEF FlatState, DbOK
<1>1. ASSUME NEW c \in BOOLEAN, c \/ d.file[n] \in {0, v}
      PROVE  /\ DbOK(D(c)) /\ FlagOK(D(c)) /\ d.rerun \subseteq D(c).rerun
             /\ D(c).file = [d.file EXCEPT ![n] = v]
  <2> DEFINE x == D(c)
  <2>1. /\ DbOK(x) /\ x.file = [d.file EXCEPT ![n] = v]
        /\ x.create = IF d.file[n] = 0 THEN d.create \cup {Top} ELSE d.create
        /\ x.modify = IF c THEN d.modify \cup {n} ELSE d.modify
        /\ x.rerun = IF c /\ n \in Generated THEN d.rerun \cup {n} ELSE d.rerun
    BY <1>0 DEF DbOK
  <2> HIDE DEF x
  <2>2. FlagOK(x)
    <3> SUFFICES ASSUME NEW m \in Names
                 PROVE  /\ m \in Generated => x.file[m] # 0
                        /\ x.file[m] > 1 => IF m \in Generated THEN m \in x.rerun ELSE m \in x.modify \/ Top \in x.create
      BY DEF FlagOK
    <3>1. CASE m # n
      <4>1. x.file[m] = d.file[m]
        BY <1>0, <2>1, <3>1 DEF DbOK
      <4> QED
        BY <1>0, <2>1, <4>1 DEF FlagOK
    <3>2. CASE m = n
      <4>1. x.file[m] = v
        BY <1>0, <2>1, <3>2 DEF DbOK
      <4>2. CASE c
        BY <2>1, <3>2, <4>1, <4>2
      <4>3. CASE ~c
        <5>1. CASE d.file[n] = 0
          BY <1>0, <2>1, <3>2, <4>1, <5>1 DEF FlagOK
        <5>2. CASE d.file[n] = v
          BY <1>0, <2>1, <3>2, <4>1, <5>2 DEF FlagOK
        <5> QED
          BY <1>1, <4>3, <5>1, <5>2
      <4> QED
        BY <4>2, <4>3
    <3> QED
      BY <3>1, <3>2
  <2> QED
    BY <2>1, <2>2 DEF x
<1>2. ASSUME NEW c \in BOOLEAN, c \/ d.file[n] \in {0, v}
      PROVE  LET r == [s EXCEPT !.db = D(c)] IN FlatState(r) /\ Only(s, r, n) /\ r.db.file[n] = v
  <2> DEFINE x == D(c)
  <2>1. DbOK(x) /\ FlagOK(x) /\ d.rerun \subseteq x.rerun /\ x.file = [d.file EXCEPT ![n] = v]
    BY <1>1, <1>2
  <2> HIDE DEF x
  <2>2. FlatState([s EXCEPT !.db = x]) /\ [s EXCEPT !.db = x].db = x
    BY <2>1, GoodDb
  <2>3. x.file[n] = v /\ \A m \in Names : m # n => x.file[m] = d.file[m]
    BY <1>0, <2>1 DEF DbOK
  <2>4. LET r == [s EXCEPT !.db = x] IN FlatState(r) /\ Only(s, r, n) /\ r.db.file[n] = v
    BY <2>1, <2>2, <2>3 DEF Only
  <2> QED
    BY <2>4 DEF x
<1> DEFINE ct == d.file[n] # 0 /\ (d.file[n] # v \/ n \notin Generated)
           cf == d.file[n] # 0 /\ d.file[n] # v
<1>3. FileModMtime(s, Top, n, v, TRUE) = [s EXCEPT !.db = D(ct)]
  BY <1>0 DEF FileModMtime, NodeAt, FlatState
<1>4. FileModMtime(s, Top, n, v, FALSE) = [s EXCEPT !.db = D(cf)]
  BY <1>0 DEF FileModMtime, NodeAt, FlatState
<1>5. ct \in BOOLEAN /\ (ct \/ d.file[n] \in {0, v}) /\ cf \in BOOLEAN /\ (cf \/ d.file[n] \in {0, v})
  OBVIOUS
<1> QED
  BY <1>2, <1>3, <1>4, <1>5

\* lstat() finds the file there is.
LEMMA FlatLstat ==
    ASSUME FlatTypes, NEW s, NEW n \in Names
    PROVE  /\ InodeAt(n) = {}
           /\ Inode(s, Top) = {Top} /\ Lstat(CHOOSE x \in Inode(s, Top) : TRUE, n) = file[n]
           /\ file[n] \in Nat /\ file[n] # DirVer
<1>1. InodeAt(n) = {}
  BY TidsApart DEF FlatTypes, InodeAt
<1>2. Inode(s, Top) = {Top}
  BY DEF Inode
<1>3. (CHOOSE x \in {Top} : TRUE) = Top
  OBVIOUS
<1>4. Lstat(Top, n) = file[n]
  BY <1>1 DEF Lstat
<1>5. file[n] \in Nat /\ file[n] <= ops + 1 /\ ops \in 0 .. MaxOps /\ MaxOps \in Nat
  BY MonitorQueueAssumption DEF FlatTypes, Place
<1>6. file[n] # DirVer
  BY <1>5 DEF DirVer
<1> QED
  BY <1>1, <1>2, <1>3, <1>4, <1>5, <1>6

(* What looking at a file does: it is in the database as it is. *)
LEMMA LookGood ==
    ASSUME FlatTypes, NEW s, FlatState(s), NEW n \in Names
    PROVE  LET r == FileMod(s, Top, n)
           IN  /\ FlatState(r) /\ Only(s, r, n)
               /\ file[n] # 0 => r.db.file[n] = file[n]
               /\ file[n] = 0 => (s.db.file[n] = 0 => r.db.file[n] = 0) /\ (r.db.file[n] = 0 \/ n \in r.db.rerun)
<1>1. CASE file[n] = 0
  <2>1. FileMod(s, Top, n) = FileDel(s, Top, n)
    BY <1>1, FlatLstat DEF FileMod
  <2> QED
    BY <1>1, <2>1, DelGood
<1>2. CASE file[n] # 0
  <2>1. FileMod(s, Top, n) = FileModMtime(s, Top, n, file[n], TRUE)
    BY <1>2, FlatLstat DEF FileMod
  <2> DEFINE v == file[n]
  <2>2. v \in Nat /\ v # 0
    BY <1>2, FlatLstat
  <2> HIDE DEF v
  <2>3. LET r == FileModMtime(s, Top, n, v, TRUE)
        IN  FlatState(r) /\ Only(s, r, n) /\ r.db.file[n] = v
    BY <2>2, ModGood
  <2> QED
    BY <1>2, <2>1, <2>3 DEF v
<1> QED
  BY <1>1, <1>2

\* So does watch_path(), but that it does not remove.
LEMMA WatchGood ==
    ASSUME FlatTypes, NEW s, FlatState(s), NEW n \in Names
    PROVE  LET r == WatchPath(s, Top, n)
           IN  /\ FlatState(r) /\ Only(s, r, n)
               /\ file[n] # 0 => r.db.file[n] = file[n]
               /\ file[n] = 0 => r = s
<1>1. CASE file[n] = 0
  <2>1. WatchPath(s, Top, n) = s
    BY <1>1, FlatLstat DEF WatchPath
  <2> QED
    BY <1>1, <2>1 DEF Only
<1>2. CASE file[n] # 0
  <2>1. WatchPath(s, Top, n) = FileModMtime(s, Top, n, file[n], FALSE)
    BY <1>2, FlatLstat DEF WatchPath
  <2> DEFINE v == file[n]
  <2>2. v \in Nat /\ v # 0
    BY <1>2, FlatLstat
  <2> HIDE DEF v
  <2>3. LET r == FileModMtime(s, Top, n, v, FALSE)
        IN  FlatState(r) /\ Only(s, r, n) /\ r.db.file[n] = v
    BY <2>2, ModGood
  <2> QED
    BY <1>2, <2>1, <2>3 DEF v
<1> QED
  BY <1>1, <1>2

(* The event at hand, once it is handled. *)
Handled ==
    /\ cur' = cur + 1 /\ step' = "handle"
    /\ UNCHANGED <<file, where, ops, watch, inot, event_list, dircache, behind, lost, asfile>>
    /\ moved_from' \subseteq moved_from
    /\ DbOK(db') /\ FlagOK(db') /\ db.rerun \subseteq db'.rerun
    /\ \A n \in Names : db'.file[n] # db.file[n] => Looks(cur, n) \/ Removes(cur, n)
    /\ \A n \in Names : Looks(cur, n) /\ file[n] # 0 => db'.file[n] = file[n]
    /\ \A n \in Names : db.file[n] = 0 /\ db'.file[n] # 0 => Looks(cur, n) /\ file[n] # 0
    /\ \A n \in Names : Removes(cur, n) => db'.file[n] = 0 \/ n \in db'.rerun

\* A handler begins with such a state,
LEMMA StateGood == ASSUME FlatTypes, NewIsFlagged PROVE FlatState(State) /\ State.db = db
  BY DEF FlatTypes, NewIsFlagged, Flagged, State, FlatState, DbOK, FlagOK

\* and the monitor goes on after it.
LEMMA DoneGood ==
    ASSUME FlatTypes, NEW s, FlatState(s), Done(s)
    PROVE  /\ cur' = cur + 1 /\ step' = "handle" /\ db' = s.db /\ alive' = TRUE
           /\ UNCHANGED <<dircache, watch, inot>>
<1>1. inot \o <<>> = inot
  BY FlatSeq
<1> QED
  BY <1>1 DEF FlatState, Done, Save, NextEvent

\* handle_event() of any event: a file that it looks at is in the database as it is now,
\* one that it removes is not, or its command is flagged, and the others stay.
LEMMA FlatHandled ==
    ASSUME FlatTypes, NewIsFlagged, Cookies, Handle
    PROVE  Handled
<1>1. cur \in DOMAIN event_list /\ step = "handle"
  BY DEF Handle, FlatTypes
<1>2. /\ M = event_list[cur] /\ E.name = Name(cur) /\ E.mask = Mask(cur) /\ E.name \in Names
      /\ E.mask \in FileMasks \cup {"none"} /\ E.dir = FALSE /\ Dt = Top
  BY <1>1, FlatItems DEF M, E, Name, Mask, Dt, FlatTypes
<1>3. Dt \notin {None, Disabled}
  BY <1>2 DEF Top, None, Disabled
<1>4. HasFrom => /\ event_list[M.from].e.name \in Names /\ event_list[M.from].e.wd = Top
                 /\ FromE = event_list[M.from].e
                 /\ FromE.name \in Names /\ FromDt = Top /\ FromE.name # E.name
                 /\ \A n : Carries(cur, n) <=> n = FromE.name
  <2>1. HasFrom => E.mask = "to" /\ M.from \in DOMAIN event_list
    <3>1. event_list[cur].from < cur /\ event_list[cur].from \in Nat /\ event_list \in Seq(FI)
      BY <1>1, FlatItems DEF FlatTypes, FI
    <3> QED
      BY <1>1, <1>2, <3>1 DEF HasFrom
  <2>2. HasFrom => event_list[M.from].e.name \in Names /\ event_list[M.from].e.wd = Top /\ FromE = event_list[M.from].e
    BY <2>1, FlatItems DEF FromE
  <2>3. HasFrom => \A n : Carries(cur, n) <=> n = event_list[M.from].e.name
    BY <1>2, <2>1 DEF Carries, HasFrom, Name
  <2>4. HasFrom => event_list[M.from].e.name # E.name
    BY <1>1, <1>2, <2>2, <2>3 DEF Cookies
  <2>5. HasFrom => FromDt = Top
    BY <2>2 DEF FromDt, FlatTypes
  <2> QED
    BY <2>2, <2>3, <2>4, <2>5
<1>5. ~HasFrom => \A n : ~Carries(cur, n)
  BY <1>2 DEF Carries, HasFrom
<1>6. FlatState(State) /\ State.db = db
  BY StateGood
<1>7. \A n \in Names : /\ Looks(cur, n) <=> (n = E.name /\ IsLook(E.mask))
                       /\ Dels(cur, n) <=> (n = E.name /\ IsDel(E.mask))
                       /\ Removes(cur, n) <=> (Dels(cur, n) \/ Carries(cur, n))
  BY <1>2 DEF Looks, Dels, Removes
<1> PICK n \in Names : n = E.name
  BY <1>2
<1>s. CASE HandleSkipped
  <2>1. E.mask = "none"
    BY <1>2, <1>3, <1>s DEF HandleSkipped, Skipped
  <2>2. \A m \in Names : ~Looks(cur, m) /\ ~Removes(cur, m)
    BY <1>5, <1>7, <2>1 DEF IsLook, IsDel, HasFrom
  <2>3. DbOK(db) /\ FlagOK(db)
    BY <1>6 DEF FlatState
  <2> QED
    BY <1>s, <2>2, <2>3 DEF HandleSkipped, NextEvent, Handled, user, kernel, queue
<1>i. CASE HandleIgnored \/ HandleUnknown
  BY <1>2, <1>3, <1>i DEF HandleIgnored, HandleUnknown, FileMasks
<1>v. CASE HandleMovedFile
  <2> DEFINE r == FileMod(State, Top, n)
             t == FileDel(r, Top, FromE.name)
  <2>0. HasFrom /\ UNCHANGED <<user, queue, nwd>>
    BY <1>v DEF HandleMovedFile
  <2> PICK f \in Names : f = FromE.name
    BY <1>4, <2>0
  <2>1. /\ FlatState(r) /\ Only(State, r, n)
        /\ file[n] # 0 => r.db.file[n] = file[n]
        /\ file[n] = 0 => (State.db.file[n] = 0 => r.db.file[n] = 0)
    BY <1>6, LookGood
  <2> HIDE DEF r
  <2>2. /\ FlatState(t) /\ Only(r, t, f) /\ (t.db.file[f] = 0 \/ f \in t.db.rerun)
        /\ (r.db.file[f] = 0 => t.db.file[f] = 0)
    BY <2>1, DelGood
  <2>3. Done(t)
    <3>1. FromDt \notin {None, Disabled}
      BY <1>3, <1>2, <1>4, <2>0
    <3>2. r.ok = TRUE
      BY <2>1 DEF FlatState
    <3> QED
      BY <1>2, <1>4, <1>v, <2>0, <3>1, <3>2 DEF HandleMovedFile, r
  <2> HIDE DEF t
  <2>4. cur' = cur + 1 /\ step' = "handle" /\ db' = t.db /\ UNCHANGED <<dircache, watch, inot>>
    BY <2>2, <2>3, DoneGood
  <2>5. f # n /\ (\A m \in Names : Looks(cur, m) <=> m = n) /\ (\A m \in Names : Removes(cur, m) <=> m = f)
    BY <1>4, <1>7, <2>0 DEF HasFrom, IsLook, IsDel
  <2>6. /\ \A m \in Names : m # n /\ m # f => t.db.file[m] = db.file[m]
        /\ t.db.file[n] = r.db.file[n] /\ r.db.file[f] = db.file[f] /\ db.rerun \subseteq t.db.rerun
    BY <1>6, <2>1, <2>2, <2>5 DEF Only
  <2>7. DbOK(db') /\ FlagOK(db')
    BY <2>2, <2>4 DEF FlatState
  <2> QED
    BY <1>6, <2>0, <2>1, <2>2, <2>4, <2>5, <2>6, <2>7 DEF Handled, user, queue
<1>c. CASE HandleCreate
  <2> DEFINE r == WatchPath(State, Top, n)
             t == AfterCreate(r, Top, n)
  <2>0. ~HasFrom /\ IsNew(E.mask) /\ UNCHANGED <<user, queue, nwd>>
    BY <1>2, <1>c DEF HandleCreate
  <2>1. /\ FlatState(r) /\ Only(State, r, n)
        /\ file[n] # 0 => r.db.file[n] = file[n]
        /\ file[n] = 0 => r = State
    BY <1>6, WatchGood
  <2>2. ~GoesOn(r, n)
    BY FlatLstat DEF GoesOn
  <2>3. Done(t)
    <3>1. State.ok
      BY DEF State
    <3> QED
      BY <1>2, <1>c, <2>0, <2>2, <3>1 DEF HandleCreate
  <2> HIDE DEF r
  <2>4. /\ FlatState(t) /\ Only(r, t, n)
        /\ file[n] # 0 => t.db.file[n] = file[n]
        /\ file[n] = 0 => (r.db.file[n] = 0 => t.db.file[n] = 0)
    <3>1. t = r \/ t = FileMod(r, Top, n)
      BY DEF AfterCreate
    <3>2. CASE t = r
      BY <2>1, <3>2 DEF Only
    <3>3. CASE t = FileMod(r, Top, n)
      <4> HIDE DEF t
      <4> QED
        BY <2>1, <3>3, LookGood
    <3> QED
      BY <3>1, <3>2, <3>3
  <2> HIDE DEF t
  <2>5. cur' = cur + 1 /\ step' = "handle" /\ db' = t.db /\ UNCHANGED <<dircache, watch, inot>>
    BY <2>3, <2>4, DoneGood
  <2>6. (\A m \in Names : Looks(cur, m) <=> m = n) /\ (\A m \in Names : ~Removes(cur, m))
    BY <1>5, <1>7, <2>0 DEF IsLook, IsDel, IsNew
  <2>7. /\ \A m \in Names : m # n => t.db.file[m] = db.file[m]
        /\ db.rerun \subseteq t.db.rerun
    BY <1>6, <2>1, <2>4 DEF Only
  <2>8. DbOK(db') /\ FlagOK(db')
    BY <2>4, <2>5 DEF FlatState
  <2> QED
    BY <1>6, <2>0, <2>1, <2>4, <2>5, <2>6, <2>7, <2>8 DEF Handled, user, queue
<1>m. CASE HandleModify
  <2> DEFINE r == FileMod(State, Top, n)
  <2>0. E.mask = "modify" /\ UNCHANGED <<user, queue, nwd>> /\ Done(r)
    BY <1>2, <1>m DEF HandleModify
  <2>1. /\ FlatState(r) /\ Only(State, r, n)
        /\ file[n] # 0 => r.db.file[n] = file[n]
        /\ file[n] = 0 => (State.db.file[n] = 0 => r.db.file[n] = 0)
    BY <1>6, LookGood
  <2> HIDE DEF r
  <2>2. cur' = cur + 1 /\ step' = "handle" /\ db' = r.db /\ UNCHANGED <<dircache, watch, inot>>
    BY <2>0, <2>1, DoneGood
  <2>3. (\A m \in Names : Looks(cur, m) <=> m = n) /\ (\A m \in Names : ~Removes(cur, m))
    BY <1>5, <1>7, <2>0 DEF IsLook, IsDel, HasFrom
  <2>4. DbOK(db') /\ FlagOK(db')
    BY <2>1, <2>2 DEF FlatState
  <2> QED
    BY <1>6, <2>0, <2>1, <2>2, <2>3, <2>4 DEF Handled, user, queue, Only
<1>d. CASE HandleDelete
  <2> DEFINE r == FileDel(State, Top, n)
  <2>0. IsDel(E.mask) /\ UNCHANGED <<user, event_list, dangling, nwd>> /\ moved_from' = moved_from \ {cur} /\ Done(r)
    BY <1>2, <1>d DEF HandleDelete
  <2>1. /\ FlatState(r) /\ Only(State, r, n) /\ (r.db.file[n] = 0 \/ n \in r.db.rerun)
        /\ (State.db.file[n] = 0 => r.db.file[n] = 0)
    BY <1>6, DelGood
  <2> HIDE DEF r
  <2>2. cur' = cur + 1 /\ step' = "handle" /\ db' = r.db /\ UNCHANGED <<dircache, watch, inot>>
    BY <2>0, <2>1, DoneGood
  <2>3. (\A m \in Names : ~Looks(cur, m)) /\ (\A m \in Names : Removes(cur, m) <=> m = n)
    BY <1>5, <1>7, <2>0 DEF IsLook, IsDel, HasFrom
  <2>4. DbOK(db') /\ FlagOK(db')
    BY <2>1, <2>2 DEF FlatState
  <2> QED
    BY <1>6, <2>0, <2>1, <2>2, <2>3, <2>4 DEF Handled, user, Only
<1> QED
  BY <1>1, <1>s, <1>i, <1>v, <1>c, <1>m, <1>d DEF Handle, WatchDir, ScanDir

-----------------------------------------------------------------------------
(* The invariant.                                                          *)

\* handle_event() keeps the types.
LEMMA TypesHandle == ASSUME FlatTypes, cur \in DOMAIN event_list, Handled PROVE FlatTypes'
<1>1. cur + 1 \in Nat /\ cur + 1 <= Len(event_list) + 1
  BY DEF FlatTypes
<1> QED
  BY <1>1 DEF FlatTypes, Handled, DbOK

\* handle_event() keeps what is known: what it has removed and is there comes later.
LEMMA KnownHandle == ASSUME FlatTypes, KnownInv, cur \in DOMAIN event_list, Handled PROVE KnownInv'
<1>1. /\ UNCHANGED <<file, ops, inot, event_list>> /\ cur' = cur + 1 /\ moved_from' \subseteq moved_from
      /\ cur \in Nat /\ DOMAIN event_list \subseteq Nat
  BY DEF Handled, FlatTypes
<1>2. /\ cur \in Pend /\ Pend' = Pend \ {cur} /\ (\A k \in Pend' : k > cur /\ k \in Nat)
  BY <1>1 DEF Pend
<1>3. \A k \in Nat, n \in Names :
        /\ Looks(k, n)' <=> Looks(k, n)
        /\ Removes(k, n)' <=> Removes(k, n)
        /\ Carries(k, n)' <=> Carries(k, n)
        /\ LookAt(k, n)' <=> LookAt(k, n)
        /\ DelAt(k, n)' <=> DelAt(k, n)
  BY <1>1 DEF Looks, Removes, Dels, Carries, Name, Mask, LookAt, DelAt
<1>4. \A k \in Nat, n \in Names : k >= cur /\ LookedAtAfter(k, n) => LookedAtAfter(k, n)'
  <2> SUFFICES ASSUME NEW k \in Nat, NEW n \in Names, k >= cur, LookedAtAfter(k, n) PROVE LookedAtAfter(k, n)'
    OBVIOUS
  <2>1. CASE \E j \in DOMAIN inot : LookAt(j, n)
    BY <1>1, <2>1 DEF LookedAtAfter, LookAt
  <2>2. CASE \E i \in Pend : i > k /\ Looks(i, n)
    <3>1. PICK i \in Pend : i > k /\ Looks(i, n)
      BY <2>2
    <3>2. i \in Nat /\ i # cur
      BY <1>1, <3>1 DEF Pend
    <3> QED
      BY <1>2, <1>3, <3>1, <3>2 DEF LookedAtAfter
  <2> QED
    BY <2>1, <2>2 DEF LookedAtAfter
<1>5. BackInKernel'
  BY <1>1 DEF KnownInv, BackInKernel, DelAt, LookAt
<1>6. BackInList'
  <2> SUFFICES ASSUME NEW n \in Names, NEW k \in Pend', Removes(k, n)', file'[n] # 0 PROVE LookedAtAfter(k, n)'
    BY DEF BackInList
  <2>1. k \in Pend /\ k \in Nat /\ k >= cur /\ Removes(k, n) /\ file[n] # 0
    BY <1>1, <1>2, <1>3
  <2> QED
    BY <1>4, <2>1 DEF KnownInv, BackInList
<1>7. DirtyIsLookedAt'
  <2> SUFFICES ASSUME NEW n \in Names, file[n] # 0, db'.file[n] # file[n] PROVE LookedAtAfter(0, n)'
    BY <1>1 DEF DirtyIsLookedAt
  <2>0. \A k \in Nat : LookedAtAfter(k, n)' => LookedAtAfter(0, n)'
    BY <1>2 DEF LookedAtAfter
  <2>1. ~Looks(cur, n)
    BY DEF Handled
  <2>2. CASE Removes(cur, n)
    <3>1. LookedAtAfter(cur, n)
      BY <1>2, <2>2 DEF KnownInv, BackInList
    <3> PICK c \in Nat : c = cur
      BY <1>1
    <3>2. LookedAtAfter(c, n)'
      BY <1>1, <1>4, <3>1
    <3> QED
      BY <2>0, <3>2
  <2>3. CASE ~Removes(cur, n)
    <3>1. db.file[n] # file[n]
      BY <2>1, <2>3 DEF Handled
    <3>2. LookedAtAfter(0, n)
      BY <3>1 DEF KnownInv, DirtyIsLookedAt
    <3>3. CASE \E j \in DOMAIN inot : LookAt(j, n)
      BY <1>1, <3>3 DEF LookedAtAfter, LookAt
    <3>4. CASE \E i \in Pend : i > 0 /\ Looks(i, n)
      <4>1. PICK i \in Pend : i > 0 /\ Looks(i, n)
        BY <3>4
      <4>2. i \in Nat /\ i # cur
        BY <1>1, <2>1, <4>1 DEF Pend
      <4> QED
        BY <1>2, <1>3, <4>1, <4>2 DEF LookedAtAfter
    <3> QED
      BY <3>2, <3>3, <3>4 DEF LookedAtAfter
  <2> QED
    BY <2>2, <2>3
<1>8. NewIsFlagged'
  BY DEF Handled, FlagOK, NewIsFlagged, Flagged
<1>9. Cookies'
  BY <1>1 DEF KnownInv, Cookies, Carries, Name, Mask
<1> QED
  BY <1>5, <1>6, <1>7, <1>8, <1>9 DEF KnownInv

\* flush_queue() begins with all of event_list, and throws it away when all is handled.
LEMMA KnownFlush ==
    ASSUME FlatTypes, KnownInv, Flush \/ FlushDone PROVE FlatTypes' /\ KnownInv'
<1>0. event_list \in Seq(FI) /\ DOMAIN event_list = 1 .. Len(event_list) /\ Len(event_list) \in Nat
  <2>1. event_list \in Seq(FI)
    BY DEF FlatTypes, FI
  <2> QED
    BY <2>1
<1>1. UNCHANGED <<file, where, ops, watch, inot, step, dircache, db>>
  BY DEF Flush, FlushDone, user, kernel, queue
<1>2. CASE Flush
  <2>1. UNCHANGED <<event_list, moved_from>> /\ cur = 0 /\ cur' = 1 /\ event_list # <<>>
    BY <1>2 DEF Flush, queue
  <2>2. Pend' = Pend
    BY <1>0, <2>1 DEF Pend
  <2>3. FlatTypes'
    BY <1>0, <1>1, <2>1 DEF FlatTypes
  <2>4. KnownInv'
    BY <1>1, <2>1, <2>2 DEF KnownInv, BackInKernel, BackInList, DirtyIsLookedAt, NewIsFlagged, Cookies, Flagged,
         LookedAtAfter, LookAt, DelAt, Looks, Removes, Dels, Carries, Name, Mask
  <2> QED
    BY <2>3, <2>4
<1>3. CASE FlushDone
  <2>1. event_list' = <<>> /\ moved_from' = {} /\ cur' = 0 /\ cur = Len(event_list) + 1
    BY <1>3 DEF FlushDone
  <2>2. Pend = {} /\ Pend' = {} /\ DOMAIN event_list' = {}
    BY <1>0, <2>1 DEF Pend
  <2>3. FlatTypes'
    BY <1>1, <2>1, <2>2 DEF FlatTypes
  <2>4. BackInKernel' /\ NewIsFlagged'
    BY <1>1 DEF KnownInv, BackInKernel, NewIsFlagged, Flagged, LookAt, DelAt
  <2>5. DirtyIsLookedAt' /\ BackInList'
    BY <1>1, <2>2 DEF KnownInv, DirtyIsLookedAt, BackInList, LookedAtAfter, LookAt
  <2>6. Cookies'
    BY <1>1, <2>1, <2>2 DEF KnownInv, Cookies
  <2> QED
    BY <2>3, <2>4, <2>5, <2>6 DEF KnownInv
<1> QED
  BY <1>2, <1>3

\* At the start the database is right.
LEMMA KnownInit == Init => FlatTypes /\ KnownInv
<1> SUFFICES ASSUME Init PROVE FlatTypes /\ KnownInv
  OBVIOUS
<1>0. MaxOps \in Nat /\ Top \in Wds /\ (\A n \in Names : n \notin Dirs) /\ Generated \subseteq Names
  BY DirsFinite, PlaceFacts, MonitorQueueAssumption
<1>1. inot = <<>> /\ event_list = <<>> /\ moved_from = {} /\ cur = 0 /\ DOMAIN inot = {} /\ DOMAIN event_list = {}
  BY DEF Init
<1>2. db.file = [p \in Names \cup Tids |-> IF p \in Names THEN 1 ELSE 0] /\ file = [p \in Place |-> IF p \in Names THEN 1 ELSE 0]
  BY DEF Init
<1>3. FlatTypes
  BY <1>0, <1>1, <1>2 DEF Init, FlatTypes, Place
<1>4. \A n \in Names : db.file[n] = 1 /\ file[n] = 1
  BY <1>2 DEF Place
<1>5. KnownInv
  BY <1>0, <1>1, <1>4 DEF KnownInv, BackInKernel, BackInList, DirtyIsLookedAt, NewIsFlagged, Cookies, Pend
<1> QED
  BY <1>3, <1>5

\* Every step keeps FlatTypes and KnownInv.
LEMMA KnownNext == ASSUME Flat PROVE FlatTypes /\ KnownInv /\ [Next]_vars => FlatTypes' /\ KnownInv'
<1> SUFFICES ASSUME FlatTypes, KnownInv, [Next]_vars PROVE FlatTypes' /\ KnownInv'
  OBVIOUS
<1>1. CASE User
  BY <1>1, UserStill, TypesUser, KnownUser
<1>2. CASE QueueEvent
  BY <1>2, TypesQueue, KnownQueue
<1>3. CASE Flush \/ FlushDone
  BY <1>3, KnownFlush
<1>4. CASE Handle
  <2>1. cur \in DOMAIN event_list
    BY <1>4 DEF Handle
  <2>2. Handled
    BY <1>4, FlatHandled DEF KnownInv
  <2> QED
    BY <2>1, <2>2, TypesHandle, KnownHandle
<1>5. CASE UNCHANGED vars
  BY <1>5 DEF vars, FlatTypes, KnownInv, BackInKernel, BackInList, DirtyIsLookedAt, NewIsFlagged, Cookies, Flagged,
         LookedAtAfter, LookAt, DelAt, Looks, Removes, Dels, Carries, Name, Mask, Pend
<1> QED
  BY <1>1, <1>2, <1>3, <1>4, <1>5 DEF Next

\* When nothing is left in the queues, that says what the two properties say.
LEMMA QuietMeansKnown == FlatTypes /\ KnownInv => DiskIsKnown /\ EditsAreFlagged
<1> SUFFICES ASSUME FlatTypes, KnownInv, inot = <<>>, event_list = <<>>
             PROVE  /\ \A n \in Names : file[n] # 0 => db.file[n] = file[n]
                    /\ \A i \in Dirs : where[i] \notin Names
                    /\ \A n \in Names : file[n] > 1 =>
                         IF n \in Generated THEN n \in db.rerun ELSE n \in db.modify \/ Top \in db.create
  BY DEF DiskIsKnown, EditsAreFlagged, Quiet
<1>1. \A n \in Names : ~LookedAtAfter(0, n)
  BY DEF LookedAtAfter, Pend
<1>2. \A n \in Names : file[n] # 0 => db.file[n] = file[n]
  BY <1>1 DEF KnownInv, DirtyIsLookedAt
<1>3. \A i \in Dirs : where[i] \notin Names
  BY TidsApart DEF FlatTypes
<1>4. \A n \in Names : file[n] > 1 =>
         IF n \in Generated THEN n \in db.rerun ELSE n \in db.modify \/ Top \in db.create
  <2>1. \A n \in Names : file[n] \in Nat
    BY DEF FlatTypes, Place
  <2> QED
    BY <1>2, <2>1 DEF KnownInv, NewIsFlagged, Flagged
<1> QED
  BY <1>2, <1>3, <1>4

-----------------------------------------------------------------------------
(* GoneInv.  What the user removes.                                        *)

(* What a step of the user does, for what it removes. *)
Left ==
    /\ lost \subseteq lost' /\ BehindType'
    /\ \A n \in Names :
         \/ behind[n] \subseteq lost'
         \/ behind[n] \subseteq behind'[n] /\ \A j \in DOMAIN inot' : j > Len(inot) => ~DelAt(j, n)'
    /\ \A n \in Names : file'[n] = 0 =>
         \/ file[n] = 0 /\ \A j \in DOMAIN inot' : j > Len(inot) => ~LookAt(j, n)'
         \/ \E d \in DOMAIN inot' : DelAt(d, n)' /\ \A j \in DOMAIN inot' : LookAt(j, n)' => j < d
    /\ \A n \in Names, j \in DOMAIN inot' : j > Len(inot) /\ NewAt(j, n)' =>
         /\ \A x \in DOMAIN inot' : x > Len(inot) /\ x < j => ~LookAt(x, n)'
         /\ file[n] = 0 \/ (n \in behind'[n] /\ NoDelAfter(j, n)')
    /\ \A i, j \in DOMAIN inot' : i > Len(inot) /\ j > Len(inot) /\ inot'[i].mask = "from" /\ inot'[j].mask = "to" =>
         inot'[i].name \in behind'[inot'[j].name] /\ \A x \in DOMAIN inot' : x <= j

(* One event, or none, and nothing else. *)
LEMMA LeftBy ==
    ASSUME FlatTypes, NEW e \in FE, OneMore(inot, inot', e),
           lost \subseteq lost', BehindType',
           \A n \in Names : \/ behind[n] \subseteq lost'
                            \/ behind[n] \subseteq behind'[n] /\ ~(n = e.name /\ IsDel(e.mask)),
           \A n \in Names : file'[n] = 0 =>
               \/ file[n] = 0 /\ ~(n = e.name /\ IsLook(e.mask))
               \/ n = e.name /\ IsDel(e.mask),
           IsNew(e.mask) => file[e.name] = 0 \/ e.name \in behind'[e.name]
    PROVE  Left
<1>1. inot \in Seq(FE)
  BY FlatSeq
<1>2. /\ inot' \in Seq(FE) /\ Len(inot) <= Len(inot') /\ Len(inot') <= Len(inot) + 1 /\ Len(inot') > 0
      /\ \A j \in DOMAIN inot : j \in DOMAIN inot' /\ inot'[j] = inot[j]
      /\ inot'[Len(inot')] = e
  BY <1>1, OneMoreIs
<1>3. /\ \A j \in DOMAIN inot' : j > Len(inot) => j = Len(inot') /\ inot'[j] = e
      /\ \A j \in DOMAIN inot' : j \in Nat /\ j <= Len(inot')
      /\ Len(inot') \in DOMAIN inot' /\ Len(inot') \in Nat /\ Len(inot) \in Nat
  BY <1>1, <1>2
<1>4. \A n \in Names :
         \/ behind[n] \subseteq lost'
         \/ behind[n] \subseteq behind'[n] /\ \A j \in DOMAIN inot' : j > Len(inot) => ~DelAt(j, n)'
  BY <1>3 DEF DelAt
<1>5. \A n \in Names : file'[n] = 0 =>
         \/ file[n] = 0 /\ \A j \in DOMAIN inot' : j > Len(inot) => ~LookAt(j, n)'
         \/ \E d \in DOMAIN inot' : DelAt(d, n)' /\ \A j \in DOMAIN inot' : LookAt(j, n)' => j < d
  <2> SUFFICES ASSUME NEW n \in Names, file'[n] = 0
               PROVE  \/ file[n] = 0 /\ \A j \in DOMAIN inot' : j > Len(inot) => ~LookAt(j, n)'
                      \/ \E d \in DOMAIN inot' : DelAt(d, n)' /\ \A j \in DOMAIN inot' : LookAt(j, n)' => j < d
    OBVIOUS
  <2>1. CASE file[n] = 0 /\ ~(n = e.name /\ IsLook(e.mask))
    BY <1>3, <2>1 DEF LookAt
  <2>2. CASE n = e.name /\ IsDel(e.mask)
    <3> PICK d \in Nat : d = Len(inot')
      BY <1>3
    <3>1. d \in DOMAIN inot' /\ DelAt(d, n)'
      BY <1>2, <1>3, <2>2 DEF DelAt
    <3>2. ~LookAt(d, n)'
      BY <1>2, <2>2 DEF LookAt, IsLook, IsDel
    <3>3. \A j \in DOMAIN inot' : LookAt(j, n)' => j < d
      BY <1>3, <3>2
    <3> QED
      BY <3>1, <3>3
  <2> QED
    BY <2>1, <2>2
<1>6. \A n \in Names, j \in DOMAIN inot' : j > Len(inot) /\ NewAt(j, n)' =>
         /\ \A x \in DOMAIN inot' : x > Len(inot) /\ x < j => ~LookAt(x, n)'
         /\ file[n] = 0 \/ (n \in behind'[n] /\ NoDelAfter(j, n)')
  <2> SUFFICES ASSUME NEW n \in Names, NEW j \in DOMAIN inot', j > Len(inot), NewAt(j, n)'
               PROVE  /\ \A x \in DOMAIN inot' : ~(x > Len(inot) /\ x < j)
                      /\ file[n] = 0 \/ (n \in behind'[n] /\ \A x \in DOMAIN inot' : ~(x > j))
    BY DEF NoDelAfter
  <2>1. n = e.name /\ IsNew(e.mask)
    BY <1>3 DEF NewAt
  <2> QED
    BY <1>3, <2>1
<1>7. \A i, j \in DOMAIN inot' : i > Len(inot) /\ j > Len(inot) => inot'[i] = inot'[j]
  BY <1>3
<1>8. \A i, j \in DOMAIN inot' : i > Len(inot) /\ j > Len(inot) /\ inot'[i].mask = "from" => inot'[j].mask # "to"
  BY <1>7
<1> QED
  BY <1>4, <1>5, <1>6, <1>8 DEF Left

\* An operation that sends nothing.
LEMMA LeftNot ==
    ASSUME FlatTypes, inot' = inot, \A n \in Names : file'[n] = file[n] /\ behind'[n] = behind[n],
           lost \subseteq lost', BehindType'
    PROVE  Left
<1>1. \A j \in DOMAIN inot : ~(j > Len(inot))
  BY FlatSeq
<1> QED
  BY <1>1 DEF Left

\* watch_path() has no directory to look into.
LEMMA NoPeek == ASSUME NEW p \in Names \cup {Out} PROVE Peek(p) = {}
  BY PlaceFacts DEF Peek

\* A file is made where there was none.
LEMMA LeftCreate == ASSUME FlatTypes, BehindType, NEW p \in Place, Create(p) PROVE Left
<1>0. p \in Names \cup {Out} /\ ops \in Nat
  BY FlatPlaces DEF Create, FlatTypes
<1>1. /\ file' = [file EXCEPT ![p] = ops + 2] /\ inot' = Notify(inot, p, "create", 0) /\ file \in [Place -> Nat]
      /\ file[p] = 0 /\ lost' = lost
  BY DEF Create, FlatTypes
<1>2. behind' = behind
  <2>1. behind' = [behind EXCEPT ![p] = @ \cup Peek(p)]
    BY DEF Create
  <2> QED
    BY <1>0, <2>1, NoPeek DEF BehindType
<1>3. BehindType'
  BY <1>2 DEF BehindType
<1>4. CASE p \in Names
  <2> DEFINE e == FileEv(p, "create", 0)
  <2>1. e \in FE /\ e.name = p /\ e.mask = "create" /\ e.cookie = 0
    BY <1>4, FlatSeq, FileEvIs, FlatMasks
  <2>2. OneMore(inot, inot', e)
    BY <1>0, <1>1, <1>4, FlatSeq, FlatMasks, NotifyIs
  <2> HIDE DEF e
  <2>3. \A n \in Names : file'[n] = 0 => file[n] = 0 /\ n # e.name
    BY <1>0, <1>1, <1>4, <2>1 DEF Place
  <2>4. ~IsDel(e.mask)
    BY <2>1 DEF IsDel
  <2> QED
    BY <1>1, <1>2, <1>3, <2>1, <2>2, <2>3, <2>4, LeftBy
<1>5. CASE p = Out
  <2>1. inot' = inot
    BY <1>0, <1>1, <1>5, FlatSeq, FlatMasks, NotifyIs
  <2> QED
    BY <1>1, <1>2, <1>3, <1>5, <2>1, LeftNot, PlaceFacts DEF Place
<1> QED
  BY <1>0, <1>4, <1>5

\* A file is edited.
LEMMA LeftEdit == ASSUME FlatTypes, BehindType, NEW p \in Place, Edit(p) PROVE Left
<1>0. p \in Names \cup {Out} /\ ops \in Nat
  BY FlatPlaces DEF Edit, FlatTypes
<1>1. /\ file' = [file EXCEPT ![p] = ops + 2] /\ inot' = Notify(inot, p, "modify", 0) /\ file \in [Place -> Nat]
      /\ lost' = lost /\ behind' = behind
  BY DEF Edit, FlatTypes
<1>3. BehindType'
  BY <1>1 DEF BehindType
<1>4. CASE p \in Names
  <2> DEFINE e == FileEv(p, "modify", 0)
  <2>1. e \in FE /\ e.name = p /\ e.mask = "modify" /\ e.cookie = 0
    BY <1>4, FlatSeq, FileEvIs, FlatMasks
  <2>2. OneMore(inot, inot', e)
    BY <1>0, <1>1, <1>4, FlatSeq, FlatMasks, NotifyIs
  <2> HIDE DEF e
  <2>3. \A n \in Names : file'[n] = 0 => file[n] = 0 /\ n # e.name
    BY <1>0, <1>1, <1>4, <2>1 DEF Place
  <2>4. ~IsDel(e.mask) /\ ~IsNew(e.mask)
    BY <2>1 DEF IsDel, IsNew
  <2> QED
    BY <1>1, <1>3, <2>1, <2>2, <2>3, <2>4, LeftBy
<1>5. CASE p = Out
  <2>1. inot' = inot
    BY <1>0, <1>1, <1>5, FlatSeq, FlatMasks, NotifyIs
  <2> QED
    BY <1>1, <1>3, <1>5, <2>1, LeftNot, PlaceFacts DEF Place
<1> QED
  BY <1>0, <1>4, <1>5

\* A file is removed: what stood behind it is lost.
LEMMA LeftDelete == ASSUME FlatTypes, BehindType, NEW p \in Place, Delete(p) PROVE Left
<1>0. p \in Names \cup {Out} /\ ops \in Nat
  BY FlatPlaces DEF Delete, FlatTypes
<1>1. /\ file' = [file EXCEPT ![p] = 0] /\ inot' = Notify(inot, p, "delete", 0) /\ file \in [Place -> Nat]
      /\ lost' = lost \cup behind[p] /\ behind' = [behind EXCEPT ![p] = {}]
  BY DEF Delete, FlatTypes, Forget
<1>3. BehindType' /\ \A n \in Names : n # p => behind'[n] = behind[n]
  BY <1>1 DEF BehindType, Place
<1>4. CASE p \in Names
  <2> DEFINE e == FileEv(p, "delete", 0)
  <2>1. e \in FE /\ e.name = p /\ e.mask = "delete" /\ e.cookie = 0
    BY <1>4, FlatSeq, FileEvIs, FlatMasks
  <2>2. OneMore(inot, inot', e)
    BY <1>0, <1>1, <1>4, FlatSeq, FlatMasks, NotifyIs
  <2> HIDE DEF e
  <2>3. \A n \in Names : file'[n] = 0 => file[n] = 0 \/ n = e.name
    BY <1>0, <1>1, <1>4, <2>1 DEF Place
  <2>4. IsDel(e.mask) /\ ~IsNew(e.mask) /\ ~IsLook(e.mask)
    BY <2>1 DEF IsDel, IsNew, IsLook
  <2> QED
    BY <1>1, <1>3, <2>1, <2>2, <2>3, <2>4, LeftBy
<1>5. CASE p = Out
  <2>1. inot' = inot
    BY <1>0, <1>1, <1>5, FlatSeq, FlatMasks, NotifyIs
  <2> QED
    BY <1>1, <1>3, <1>5, <2>1, LeftNot, PlaceFacts DEF Place
<1> QED
  BY <1>0, <1>4, <1>5

\* A file is moved: what stood behind it is lost, and its old name stands behind the new one.
LEMMA LeftMove == ASSUME FlatTypes, BehindType, NEW p \in Place, NEW q \in Place, Move(p, q) PROVE Left
<1>0. p \in Names \cup {Out} /\ q \in Names \cup {Out} /\ ops \in Nat /\ p # q
  BY FlatPlaces DEF Move, FlatTypes
<1>1. /\ file' = [file EXCEPT ![q] = file[p], ![p] = 0] /\ file \in [Place -> Nat] /\ file[p] # 0
      /\ inot' = Notify(Notify(inot, p, "from", ops + 1), q, "to", ops + 1)
      /\ lost' = lost \cup behind[p]
      /\ behind' = [behind EXCEPT ![p] = {},
                     ![q] = @ \cup Peek(q) \cup (IF Watched(p) THEN {p} ELSE {})
                              \cup (IF file[q] # 0 THEN {q} ELSE {})]
  BY DEF Move, FlatTypes, Forget
<1>b. /\ BehindType' /\ \A n \in Names : n # p => behind[n] \subseteq behind'[n]
      /\ p \in Names => p \in behind'[q]
      /\ file[q] # 0 => q \in behind'[q]
      /\ behind[p] \subseteq lost'
  <2>1. p \in Names => Watched(p)
    BY DEF Watched
  <2> QED
    BY <1>0, <1>1, <2>1 DEF BehindType, Place
<1> DEFINE d == FileEv(p, "from", ops + 1)
           e == FileEv(q, "to", ops + 1)
<1>2. p \in Names => d \in FE /\ d.name = p /\ d.mask = "from" /\ d.cookie = ops + 1
  BY <1>0, FlatSeq, FileEvIs, FlatMasks
<1>3. q \in Names => e \in FE /\ e.name = q /\ e.mask = "to" /\ e.cookie = ops + 1
  BY <1>0, FlatSeq, FileEvIs, FlatMasks
<1>4. CASE p \in Names /\ q = Out
  <2> DEFINE r == Notify(inot, p, "from", ops + 1)
  <2>0. OneMore(inot, r, d) /\ inot' = Notify(r, q, "to", ops + 1)
    BY <1>0, <1>1, <1>4, FlatSeq, FlatMasks, NotifyIs
  <2> HIDE DEF r, d
  <2>1. OneMore(inot, inot', d)
    <3>1. r \in Seq(FE)
      BY <1>2, <1>4, <2>0, FlatSeq, OneMoreIs
    <3> QED
      BY <1>0, <1>4, <2>0, <3>1, FlatSeq, FlatMasks, NotifyIs
  <2>3. \A n \in Names : file'[n] = 0 => file[n] = 0 \/ n = d.name
    BY <1>1, <1>2, <1>4, PlaceFacts DEF Place
  <2>4. IsDel(d.mask) /\ ~IsNew(d.mask) /\ ~IsLook(d.mask)
    BY <1>2, <1>4 DEF IsDel, IsNew, IsLook
  <2> QED
    BY <1>1, <1>b, <1>2, <1>4, <2>1, <2>3, <2>4, LeftBy
<1>5. CASE p = Out /\ q \in Names
  <2>0. Notify(inot, p, "from", ops + 1) = inot
    BY <1>0, <1>5, FlatSeq, FlatMasks, NotifyIs
  <2>1. OneMore(inot, inot', e)
    BY <1>0, <1>1, <1>5, <2>0, FlatSeq, FlatMasks, NotifyIs
  <2> HIDE DEF e
  <2>3. \A n \in Names : file'[n] = 0 => file[n] = 0 /\ n # e.name
    BY <1>1, <1>3, <1>5, PlaceFacts DEF Place
  <2>4. ~IsDel(e.mask)
    BY <1>3, <1>5 DEF IsDel
  <2>5. \A n \in Names : n # p
    BY <1>5, PlaceFacts
  <2> QED
    BY <1>1, <1>b, <1>3, <1>5, <2>1, <2>3, <2>4, <2>5, LeftBy
<1>6. CASE p \in Names /\ q \in Names
  <2> DEFINE r == Notify(inot, p, "from", ops + 1)
  <2>1. OneMore(inot, r, d)
    BY <1>0, <1>6, FlatSeq, FlatMasks, NotifyIs
  <2> HIDE DEF r, d, e
  <2>3. inot \in Seq(FE)
    BY FlatSeq
  <2>4. /\ r \in Seq(FE) /\ Len(inot) <= Len(r) /\ Len(r) <= Len(inot) + 1 /\ Len(r) > 0
        /\ \A j \in DOMAIN inot : j \in DOMAIN r /\ r[j] = inot[j]
        /\ r[Len(r)] = d
    BY <1>2, <1>6, <2>1, <2>3, OneMoreIs
  <2>2. OneMore(r, inot', e)
    <3>1. inot' = Notify(r, q, "to", ops + 1)
      BY <1>1 DEF r
    <3> QED
      BY <1>0, <1>6, <2>4, <3>1, FlatMasks, NotifyIs DEF e
  <2>5. inot' = Append(r, e)
    BY <1>2, <1>3, <1>6, <2>2, <2>4 DEF OneMore
  <2>6. /\ inot' \in Seq(FE) /\ Len(inot') = Len(r) + 1 /\ Len(inot) <= Len(inot')
        /\ inot'[Len(inot')] = e /\ inot'[Len(r)] = d /\ Len(r) \in Nat /\ Len(r) \in DOMAIN inot'
    BY <1>3, <1>6, <2>3, <2>4, <2>5
  <2>7. /\ \A j \in DOMAIN inot' : j > Len(inot) =>
            \/ j = Len(inot') /\ inot'[j] = e
            \/ j = Len(r) /\ inot'[j] = d
        /\ \A j \in DOMAIN inot' : j \in Nat /\ (j <= Len(r) \/ j = Len(inot'))
    BY <2>3, <2>4, <2>6
  <2>8. ASSUME NEW n \in Names
        PROVE  \/ behind[n] \subseteq lost'
               \/ behind[n] \subseteq behind'[n] /\ \A j \in DOMAIN inot' : j > Len(inot) => ~DelAt(j, n)'
    <3>1. CASE n = p
      BY <1>b, <3>1
    <3>2. CASE n # p
      <4>1. \A j \in DOMAIN inot' : j > Len(inot) => ~DelAt(j, n)'
        BY <1>2, <1>3, <1>6, <2>7, <3>2 DEF DelAt, IsDel
      <4> QED
        BY <1>b, <3>2, <4>1
    <3> QED
      BY <3>1, <3>2
  <2>9. ASSUME NEW n \in Names, file'[n] = 0
        PROVE  \/ file[n] = 0 /\ \A j \in DOMAIN inot' : j > Len(inot) => ~LookAt(j, n)'
               \/ \E x \in DOMAIN inot' : DelAt(x, n)' /\ \A j \in DOMAIN inot' : LookAt(j, n)' => j < x
    <3>0. n # q
      BY <1>0, <1>1, <1>6, <2>9 DEF Place
    <3>1. CASE n = p
      <4> PICK x \in Nat : x = Len(r)
        BY <2>6
      <4>1. x \in DOMAIN inot' /\ DelAt(x, n)' /\ ~LookAt(x, n)'
        BY <1>2, <1>6, <2>6, <3>1 DEF DelAt, LookAt, IsDel, IsLook
      <4>2. \A j \in DOMAIN inot' : LookAt(j, n)' => j # Len(inot')
        BY <1>3, <1>6, <2>6, <3>0 DEF LookAt
      <4>3. \A j \in DOMAIN inot' : LookAt(j, n)' => j < x
        BY <2>7, <4>1, <4>2
      <4> QED
        BY <4>1, <4>3
    <3>2. CASE n # p
      <4>1. file[n] = 0
        BY <1>1, <1>6, <2>9, <3>0, <3>2 DEF Place
      <4>2. \A j \in DOMAIN inot' : j > Len(inot) => ~LookAt(j, n)'
        BY <1>2, <1>3, <1>6, <2>7, <3>0, <3>2 DEF LookAt
      <4> QED
        BY <4>1, <4>2
    <3> QED
      BY <3>1, <3>2
  <2>10. ASSUME NEW n \in Names, NEW j \in DOMAIN inot', j > Len(inot), NewAt(j, n)'
         PROVE  /\ \A x \in DOMAIN inot' : x > Len(inot) /\ x < j => ~LookAt(x, n)'
                /\ file[n] = 0 \/ (n \in behind'[n] /\ NoDelAfter(j, n)')
    <3>1. j = Len(inot') /\ n = q
      BY <1>2, <1>3, <1>6, <2>7, <2>10 DEF NewAt, IsNew
    <3>2. \A x \in DOMAIN inot' : x > Len(inot) /\ x < j => inot'[x] = d
      BY <2>6, <2>7, <3>1
    <3>3. \A x \in DOMAIN inot' : ~(x > j)
      BY <2>6, <2>7, <3>1
    <3> QED
      BY <1>0, <1>b, <1>2, <1>6, <3>1, <3>2, <3>3 DEF NoDelAfter, LookAt
  <2>11. ASSUME NEW i \in DOMAIN inot', NEW j \in DOMAIN inot', i > Len(inot), j > Len(inot),
                inot'[i].mask = "from", inot'[j].mask = "to"
         PROVE  inot'[i].name \in behind'[inot'[j].name] /\ \A x \in DOMAIN inot' : x <= j
    <3>1. inot'[i] = d /\ inot'[j] = e /\ j = Len(inot')
      BY <1>2, <1>3, <1>6, <2>7, <2>11
    <3> QED
      BY <1>b, <1>2, <1>3, <1>6, <2>6, <2>7, <3>1
  <2> QED
    BY <1>1, <1>b, <2>8, <2>9, <2>10, <2>11 DEF Left
<1> QED
  BY <1>0, <1>4, <1>5, <1>6

\* Every operation of the user is one of these.
LEMMA UserLeft == ASSUME Flat, FlatTypes, BehindType, User PROVE Left
<1>1. /\ \A i \in Dirs : ~Rmdir(i)
      /\ \A i \in Dirs, n \in Names \cup {Out} : ~Mkdir(i, n) /\ ~MoveDir(i, n)
  BY DEF Flat, Tick, Rmdir, Mkdir, MoveDir
<1> QED
  BY <1>1, LeftCreate, LeftEdit, LeftDelete, LeftMove DEF User

(* What was excused stays so. *)
LEMMA UserKept ==
    ASSUME FlatTypes, Still, Grown, Left
    PROVE  /\ \A j \in DOMAIN inot : j \in DOMAIN inot' /\ inot'[j] = inot[j] /\ j <= Len(inot)
           /\ \A j \in DOMAIN inot' : j \in Nat /\ (j <= Len(inot) => j \in DOMAIN inot)
           /\ \A n, m \in Names, j \in Nat : Behind(n, m, j) => Behind(n, m, j)'
           /\ \A n \in Names, j \in Nat : Spared(n, j) => Spared(n, j)'
           /\ \A n \in Names : Excused(n) => Excused(n)'
           /\ \A n \in Names, x, y \in Nat : DelBetween(x, y, n) => DelBetween(x, y, n)'
           /\ Pend' = Pend
           /\ \A k \in Nat, n \in Names : /\ Looks(k, n)' <=> Looks(k, n)
                                          /\ Removes(k, n)' <=> Removes(k, n)
                                          /\ Carries(k, n)' <=> Carries(k, n)
                                          /\ News(k, n)' <=> News(k, n)
                                          /\ Dels(k, n)' <=> Dels(k, n)
<1>1. /\ inot' \in Seq(FE) /\ inot \in Seq(FE) /\ Len(inot) <= Len(inot')
      /\ \A j \in DOMAIN inot : j \in DOMAIN inot' /\ inot'[j] = inot[j]
  BY FlatSeq DEF Grown
<1>2. /\ \A j \in DOMAIN inot : j \in DOMAIN inot' /\ inot'[j] = inot[j] /\ j <= Len(inot)
      /\ \A j \in DOMAIN inot' : j \in Nat /\ (j <= Len(inot) => j \in DOMAIN inot)
      /\ Len(inot) \in Nat
  BY <1>1
<1>3. \A n \in Names, j \in DOMAIN inot : DelAt(j, n)' <=> DelAt(j, n)
  BY <1>2 DEF DelAt
<1>4. \A n, m \in Names, j \in Nat : Behind(n, m, j) => Behind(n, m, j)'
  <2> SUFFICES ASSUME NEW n \in Names, NEW m \in Names, NEW j \in Nat, Behind(n, m, j)
               PROVE  Behind(n, m, j)'
    OBVIOUS
  <2>1. CASE n \in lost
    BY <2>1 DEF Left, Behind
  <2>2. CASE n \in behind[m] /\ NoDelAfter(j, m)
    <3>1. CASE behind[m] \subseteq lost'
      BY <2>2, <3>1 DEF Behind
    <3>2. CASE behind[m] \subseteq behind'[m] /\ \A i \in DOMAIN inot' : i > Len(inot) => ~DelAt(i, m)'
      <4>1. \A i \in DOMAIN inot' : i > j => ~DelAt(i, m)'
        BY <1>2, <1>3, <2>2, <3>2 DEF NoDelAfter
      <4> QED
        BY <2>2, <3>2, <4>1 DEF Behind, NoDelAfter
    <3> QED
      BY <3>1, <3>2 DEF Left
  <2> QED
    BY <2>1, <2>2 DEF Behind
<1>5. UNCHANGED <<db, event_list, cur>>
  BY DEF Still
<1>6. \A n \in Names, j \in Nat : Spared(n, j) => Spared(n, j)'
  BY <1>4, <1>5 DEF Spared
<1>7. \A n \in Names : Excused(n) => Excused(n)'
  BY <1>5 DEF Excused, Left
<1>8. \A n \in Names, x, y \in Nat : DelBetween(x, y, n) => DelBetween(x, y, n)'
  BY <1>2, <1>3 DEF DelBetween
<1>9. Pend' = Pend
  BY <1>5 DEF Pend
<1>10. \A k \in Nat, n \in Names : /\ Looks(k, n)' <=> Looks(k, n)
                                   /\ Removes(k, n)' <=> Removes(k, n)
                                   /\ Carries(k, n)' <=> Carries(k, n)
                                   /\ News(k, n)' <=> News(k, n)
                                   /\ Dels(k, n)' <=> Dels(k, n)
  BY <1>5 DEF Looks, Removes, Carries, News, Dels, Name, Mask
<1> QED
  BY <1>2, <1>4, <1>6, <1>7, <1>8, <1>9, <1>10

\* The user keeps GoneInv: what goes away has its event at the end of the kernel's queue.
LEMMA GoneUser == ASSUME FlatTypes, Cookies, GoneInv, Still, Grown, Left PROVE GoneInv'
<1>1. /\ \A j \in DOMAIN inot : j \in DOMAIN inot' /\ inot'[j] = inot[j] /\ j <= Len(inot)
      /\ \A j \in DOMAIN inot' : j \in Nat /\ (j <= Len(inot) => j \in DOMAIN inot)
  BY UserKept
<1>2. /\ \A n, m \in Names, j \in Nat : Behind(n, m, j) => Behind(n, m, j)'
      /\ \A n \in Names, j \in Nat : Spared(n, j) => Spared(n, j)'
      /\ \A n \in Names : Excused(n) => Excused(n)'
      /\ \A n \in Names, x, y \in Nat : DelBetween(x, y, n) => DelBetween(x, y, n)'
  BY UserKept
<1>3. /\ Pend' = Pend /\ Pend \subseteq Nat
      /\ \A k \in Nat, n \in Names : /\ Looks(k, n)' <=> Looks(k, n)
                                     /\ Removes(k, n)' <=> Removes(k, n)
                                     /\ Carries(k, n)' <=> Carries(k, n)
                                     /\ News(k, n)' <=> News(k, n)
                                     /\ Dels(k, n)' <=> Dels(k, n)
  BY UserKept DEF Pend, FlatTypes
<1>4. \A n \in Names, j \in DOMAIN inot : /\ DelAt(j, n)' <=> DelAt(j, n)
                                          /\ LookAt(j, n)' <=> LookAt(j, n)
                                          /\ NewAt(j, n)' <=> NewAt(j, n)
  BY <1>1 DEF DelAt, LookAt, NewAt
<1>5. UNCHANGED <<db, event_list, cur, moved_from>> /\ Len(inot) \in Nat
  BY FlatSeq DEF Still
<1>6. GoneIsTold'
  <2> SUFFICES ASSUME NEW n \in Names, db.file[n] # 0, file'[n] = 0, ~Excused(n)'
               PROVE  \/ \E k \in Pend : Removes(k, n)
                      \/ \E j \in DOMAIN inot' : DelAt(j, n)'
    BY <1>3, <1>5 DEF GoneIsTold
  <2>1. CASE file[n] = 0
    BY <1>1, <1>2, <1>4, <2>1 DEF GoneInv, GoneIsTold
  <2>2. CASE file[n] # 0
    BY <2>2 DEF Left
  <2> QED
    BY <2>1, <2>2
<1>7. SeenAndGone'
  <2> SUFFICES ASSUME NEW n \in Names, file'[n] = 0
               PROVE  /\ \A j \in DOMAIN inot' : LookAt(j, n)' => \E i \in DOMAIN inot' : i > j /\ DelAt(i, n)'
                      /\ \A k \in Pend' : Looks(k, n)' =>
                           \/ Excused(n)' \/ \E i \in Pend' : i > k /\ Removes(i, n)'
                           \/ \E j \in DOMAIN inot' : DelAt(j, n)'
    BY DEF SeenAndGone
  <2>1. CASE \E d \in DOMAIN inot' : DelAt(d, n)' /\ \A j \in DOMAIN inot' : LookAt(j, n)' => j < d
    BY <1>1, <2>1
  <2>2. CASE file[n] = 0 /\ \A j \in DOMAIN inot' : j > Len(inot) => ~LookAt(j, n)'
    <3>1. ASSUME NEW j \in DOMAIN inot', LookAt(j, n)' PROVE \E i \in DOMAIN inot' : i > j /\ DelAt(i, n)'
      <4>1. j \in DOMAIN inot /\ LookAt(j, n)
        BY <1>1, <1>4, <1>5, <2>2, <3>1
      <4>2. PICK i \in DOMAIN inot : i > j /\ DelAt(i, n)
        BY <2>2, <4>1 DEF GoneInv, SeenAndGone
      <4> QED
        BY <1>1, <1>4, <4>2
    <3>2. ASSUME NEW k \in Pend, Looks(k, n)
          PROVE  \/ Excused(n)' \/ \E i \in Pend : i > k /\ Removes(i, n)
                 \/ \E j \in DOMAIN inot' : DelAt(j, n)'
      BY <1>1, <1>2, <1>4, <2>2, <3>2 DEF GoneInv, SeenAndGone
    <3> QED
      BY <1>3, <3>1, <3>2
  <2> QED
    BY <2>1, <2>2 DEF Left
(* A new file: what was there before has gone, or this one came over it. *)
<1>8. ASSUME NEW n \in Names, NEW y \in DOMAIN inot', y > Len(inot), NewAt(y, n)'
      PROVE  /\ \A x \in DOMAIN inot' : x < y /\ LookAt(x, n)' => x \in DOMAIN inot /\ LookAt(x, n)
             /\ file[n] = 0 \/ Spared(n, y)'
             /\ \A i \in DOMAIN inot : DelAt(i, n) => i \in DOMAIN inot' /\ i < y /\ DelAt(i, n)'
  <2>1. /\ \A x \in DOMAIN inot' : x > Len(inot) /\ x < y => ~LookAt(x, n)'
        /\ file[n] = 0 \/ (n \in behind'[n] /\ NoDelAfter(y, n)')
    BY <1>8 DEF Left
  <2>2. file[n] = 0 \/ Spared(n, y)'
    BY <2>1 DEF Spared, Behind
  <2>3. \A i \in DOMAIN inot : i < y /\ i \in Nat
    BY <1>1, <1>5, <1>8
  <2>4. \A x \in DOMAIN inot' : x < y /\ LookAt(x, n)' => x \in DOMAIN inot /\ LookAt(x, n)
    BY <1>1, <1>4, <1>5, <2>1
  <2> QED
    BY <1>1, <1>4, <2>2, <2>3, <2>4
<1>9. SeenAndNew'
  <2>1. ASSUME NEW n \in Names, NEW y \in DOMAIN inot', NewAt(y, n)'
        PROVE  /\ \A x \in DOMAIN inot' : x < y /\ LookAt(x, n)' => Spared(n, y)' \/ DelBetween(x, y, n)'
               /\ \A x \in Pend : Looks(x, n) =>
                    Spared(n, y)' \/ DelBetween(0, y, n)' \/ \E z \in Pend : z > x /\ Removes(z, n)
    <3>1. CASE y <= Len(inot)
      <4>1. y \in DOMAIN inot /\ y \in Nat /\ NewAt(y, n)
        BY <1>1, <1>4, <2>1, <3>1
      <4>2. \A x \in DOMAIN inot' : x < y /\ LookAt(x, n)' => x \in DOMAIN inot /\ x \in Nat /\ LookAt(x, n)
        BY <1>1, <1>4, <1>5, <3>1, <4>1
      <4>3. \A x \in DOMAIN inot : x < y /\ LookAt(x, n) => Spared(n, y) \/ DelBetween(x, y, n)
        BY <4>1 DEF GoneInv, SeenAndNew
      <4>4. \A x \in Pend : Looks(x, n) =>
              Spared(n, y) \/ DelBetween(0, y, n) \/ \E z \in Pend : z > x /\ Removes(z, n)
        BY <4>1 DEF GoneInv, SeenAndNew
      <4> QED
        BY <1>2, <4>1, <4>2, <4>3, <4>4
    <3>2. CASE y > Len(inot)
      <4>1. /\ \A x \in DOMAIN inot' : x < y /\ LookAt(x, n)' => x \in DOMAIN inot /\ LookAt(x, n)
            /\ file[n] = 0 \/ Spared(n, y)'
            /\ \A i \in DOMAIN inot : DelAt(i, n) => i \in DOMAIN inot' /\ i < y /\ DelAt(i, n)'
        BY <1>8, <2>1, <3>2
      <4>2. CASE file[n] = 0
        <5>1. \A x \in DOMAIN inot : LookAt(x, n) => \E i \in DOMAIN inot : i > x /\ DelAt(i, n)
          BY <4>2 DEF GoneInv, SeenAndGone
        <5>2. \A x \in Pend : Looks(x, n) =>
                 Excused(n) \/ (\E i \in Pend : i > x /\ Removes(i, n)) \/ \E j \in DOMAIN inot : DelAt(j, n)
          BY <4>2 DEF GoneInv, SeenAndGone
        <5>3. \A x \in DOMAIN inot' : x < y /\ LookAt(x, n)' => DelBetween(x, y, n)'
          BY <4>1, <5>1 DEF DelBetween
        <5>4. (\E j \in DOMAIN inot : DelAt(j, n)) => DelBetween(0, y, n)'
          <6>1. \A j \in DOMAIN inot : 0 < j
            BY FlatSeq
          <6> QED
            BY <4>1, <6>1 DEF DelBetween
        <5>5. Excused(n) => Spared(n, y)'
          BY <1>2 DEF Excused, Spared, Behind
        <5> QED
          BY <5>2, <5>3, <5>4, <5>5
      <4> QED
        BY <4>1, <4>2
    <3> QED
      BY <1>1, <1>5, <3>1, <3>2
  <2>2. ASSUME NEW n \in Names, NEW y \in Pend, News(y, n), NEW x \in Pend, x < y, Looks(x, n)
        PROVE  Spared(n, 0)' \/ \E z \in Pend : x < z /\ z < y /\ Carries(z, n)
    BY <1>2, <2>2 DEF GoneInv, SeenAndNew
  <2>3. ASSUME NEW n \in Names
        PROVE  /\ \A y \in DOMAIN inot' : NewAt(y, n)' =>
                   /\ \A x \in DOMAIN inot' : x < y /\ LookAt(x, n)' => Spared(n, y)' \/ DelBetween(x, y, n)'
                   /\ \A x \in Pend' : Looks(x, n)' =>
                          Spared(n, y)' \/ DelBetween(0, y, n)' \/ \E z \in Pend' : z > x /\ Removes(z, n)'
               /\ \A y \in Pend' : News(y, n)' =>
                   \A x \in Pend' : x < y /\ Looks(x, n)' =>
                          Spared(n, 0)' \/ \E z \in Pend' : x < z /\ z < y /\ Carries(z, n)'
    BY <1>3, <2>1, <2>2
  <2> QED
    BY <2>3 DEF SeenAndNew
<1>10. KnownAndNew'
  <2>1. ASSUME NEW n \in Names, db.file[n] # 0, NEW y \in DOMAIN inot', NewAt(y, n)'
        PROVE  Spared(n, y)' \/ DelBetween(0, y, n)' \/ \E z \in Pend : Removes(z, n)
    <3>1. CASE y <= Len(inot)
      <4>1. y \in DOMAIN inot /\ y \in Nat /\ NewAt(y, n)
        BY <1>1, <1>4, <2>1, <3>1
      <4>2. Spared(n, y) \/ DelBetween(0, y, n) \/ \E z \in Pend : Removes(z, n)
        BY <2>1, <4>1 DEF GoneInv, KnownAndNew
      <4> QED
        BY <1>2, <4>1, <4>2
    <3>2. CASE y > Len(inot)
      <4>1. /\ file[n] = 0 \/ Spared(n, y)'
            /\ \A i \in DOMAIN inot : DelAt(i, n) => i \in DOMAIN inot' /\ i < y /\ DelAt(i, n)'
        BY <1>8, <2>1, <3>2
      <4>2. CASE file[n] = 0
        <5>1. Excused(n) \/ (\E k \in Pend : Removes(k, n)) \/ \E j \in DOMAIN inot : DelAt(j, n)
          BY <2>1, <4>2 DEF GoneInv, GoneIsTold
        <5>2. (\E j \in DOMAIN inot : DelAt(j, n)) => DelBetween(0, y, n)'
          <6>1. \A j \in DOMAIN inot : 0 < j
            BY FlatSeq
          <6> QED
            BY <4>1, <6>1 DEF DelBetween
        <5>3. Excused(n) => Spared(n, y)'
          BY <1>2 DEF Excused, Spared, Behind
        <5> QED
          BY <5>1, <5>2, <5>3
      <4> QED
        BY <4>1, <4>2
    <3> QED
      BY <1>1, <1>5, <3>1, <3>2
  <2>2. ASSUME NEW n \in Names, db.file[n] # 0, NEW y \in Pend, News(y, n)
        PROVE  Spared(n, 0)' \/ \E z \in Pend : z < y /\ Carries(z, n)
    BY <1>2, <2>2 DEF GoneInv, KnownAndNew
  <2>3. ASSUME NEW n \in Names, db'.file[n] # 0
        PROVE  /\ \A y \in DOMAIN inot' : NewAt(y, n)' =>
                    Spared(n, y)' \/ DelBetween(0, y, n)' \/ \E z \in Pend' : Removes(z, n)'
               /\ \A y \in Pend' : News(y, n)' => Spared(n, 0)' \/ \E z \in Pend' : z < y /\ Carries(z, n)'
    BY <1>3, <1>5, <2>1, <2>2, <2>3
  <2> QED
    BY <2>3 DEF KnownAndNew
<1>11. MovesAreBehind'
  <2>0. \A k \in Nat : Name(k)' = Name(k)
    BY <1>5 DEF Name
  <2>1. ASSUME NEW k \in Pend', NEW n \in Names, NEW m \in Names, Carries(k, n)', Name(k)' = m
        PROVE  Behind(n, m, 0)'
    BY <1>2, <1>3, <2>0, <2>1 DEF GoneInv, MovesAreBehind
  <2>2. ASSUME NEW j \in DOMAIN inot', NEW n \in Names, NEW m \in Names, inot'[j].mask = "to", inot'[j].name = m,
               NEW k \in moved_from', event_list'[k].e.cookie = inot'[j].cookie, Name(k)' = n
        PROVE  Behind(n, m, j)'
    <3>0. k \in moved_from /\ event_list[k].e.cookie = inot'[j].cookie /\ Name(k) = n
          /\ event_list[k].e.cookie \in Nat /\ event_list[k].e.cookie <= ops
      BY <1>5, <2>2, FlatItems DEF Name, Cookies
    <3>1. CASE j <= Len(inot)
      <4>1. j \in DOMAIN inot /\ inot[j] = inot'[j] /\ j \in Nat
        BY <1>1, <3>1
      <4>2. Behind(n, m, j)
        BY <2>2, <3>0, <4>1 DEF GoneInv, MovesAreBehind
      <4> QED
        BY <1>2, <4>1, <4>2
    <3>2. CASE j > Len(inot)
      <4>1. inot'[j].cookie = ops + 1 /\ ops \in Nat
        BY <2>2, <3>2, FlatSeq DEF Grown
      <4> QED
        BY <3>0, <4>1
    <3> QED
      BY <1>1, <1>5, <3>1, <3>2
  <2>3. ASSUME NEW j \in DOMAIN inot', NEW n \in Names, NEW m \in Names, inot'[j].mask = "to", inot'[j].name = m,
               NEW i \in DOMAIN inot', inot'[i].mask = "from", inot'[i].cookie = inot'[j].cookie, inot'[i].name = n
        PROVE  Behind(n, m, j)'
    <3>0. /\ \A x \in DOMAIN inot' : x <= Len(inot) =>
               x \in DOMAIN inot /\ inot'[x] = inot[x] /\ inot'[x].cookie \in Nat /\ inot'[x].cookie <= ops
          /\ \A x \in DOMAIN inot' : x > Len(inot) /\ inot'[x].mask \in {"from", "to"} => inot'[x].cookie = ops + 1
          /\ ops \in Nat
      BY <1>1, FlatItems, FlatSeq DEF Grown, Cookies
    <3>1. CASE j <= Len(inot) /\ i <= Len(inot)
      <4>1. Behind(n, m, j)
        BY <2>3, <3>0, <3>1 DEF GoneInv, MovesAreBehind
      <4> QED
        BY <1>1, <1>2, <2>3, <4>1
    <3>2. CASE j > Len(inot) /\ i > Len(inot)
      <4>1. n \in behind'[m] /\ \A x \in DOMAIN inot' : x <= j
        BY <2>3, <3>2 DEF Left
      <4>2. \A x \in DOMAIN inot' : ~(x > j)
        BY <1>1, <2>3, <4>1
      <4> QED
        BY <4>1, <4>2 DEF Behind, NoDelAfter
    <3>3. CASE (j > Len(inot) /\ i <= Len(inot)) \/ (j <= Len(inot) /\ i > Len(inot))
      BY <2>3, <3>0, <3>3
    <3> QED
      BY <1>1, <1>5, <3>1, <3>2, <3>3
  <2> QED
    BY <2>1, <2>2, <2>3 DEF MovesAreBehind
<1>12. NoneBeforeNew'
  BY <1>3 DEF GoneInv, NoneBeforeNew
<1>13. BehindType'
  BY DEF Left
<1> QED
  BY <1>6, <1>7, <1>9, <1>10, <1>11, <1>12, <1>13 DEF GoneInv

-----------------------------------------------------------------------------
(* handle_event() and flush_queue().                                       *)

\* handle_event() keeps GoneInv: a removal that is handled has reached the database, or
\* the command is flagged; a file it has just found is one that it had seen before.
LEMMA GoneHandle == ASSUME FlatTypes, GoneInv, cur \in DOMAIN event_list, Handled PROVE GoneInv'
<1>1. /\ UNCHANGED <<file, ops, inot, event_list, behind, lost>> /\ cur' = cur + 1 /\ moved_from' \subseteq moved_from
      /\ cur \in Nat /\ DOMAIN event_list \subseteq Nat
  BY DEF Handled, FlatTypes
<1>2. /\ cur \in Pend /\ Pend' = Pend \ {cur} /\ (\A k \in Pend' : k > cur /\ k \in Nat /\ k \in Pend)
      /\ \A k \in Pend : k \in Nat /\ (k > cur => k \in Pend')
  BY <1>1 DEF Pend
<1>3. \A k \in Nat, n \in Names :
        /\ Looks(k, n)' <=> Looks(k, n)
        /\ Removes(k, n)' <=> Removes(k, n)
        /\ Carries(k, n)' <=> Carries(k, n)
        /\ News(k, n)' <=> News(k, n)
        /\ Dels(k, n)' <=> Dels(k, n)
        /\ Name(k)' = Name(k)
  BY <1>1 DEF Looks, Removes, Dels, Carries, News, Name, Mask
<1>4. \A j, n : /\ LookAt(j, n)' <=> LookAt(j, n)
                /\ DelAt(j, n)' <=> DelAt(j, n)
                /\ NewAt(j, n)' <=> NewAt(j, n)
  BY <1>1 DEF LookAt, DelAt, NewAt
<1>5. /\ \A x, y, n : DelBetween(x, y, n)' <=> DelBetween(x, y, n)
      /\ \A n, m, j : Behind(n, m, j)' <=> Behind(n, m, j)
  BY <1>1 DEF DelBetween, Behind, NoDelAfter, DelAt
<1>6. /\ \A n, j : Spared(n, j) => Spared(n, j)'
      /\ \A n : Excused(n) => Excused(n)'
      /\ \A n, j : n \in db'.rerun => Spared(n, j)' /\ Excused(n)'
  BY <1>1, <1>5 DEF Spared, Excused, Handled
<1>7. \A n \in Names : Removes(cur, n) => db'.file[n] = 0 \/ n \in db'.rerun
  BY DEF Handled
<1>8. \A n \in Names : db'.file[n] # 0 /\ db.file[n] = 0 => Looks(cur, n) /\ file[n] # 0
  BY DEF Handled
<1>9. \A n \in Names : Carries(cur, n) => Removes(cur, n)
  BY DEF Removes
<1>10. GoneIsTold'
  <2> SUFFICES ASSUME NEW n \in Names, db'.file[n] # 0, file[n] = 0, ~Excused(n)'
               PROVE  (\E k \in Pend' : Removes(k, n)') \/ \E j \in DOMAIN inot : DelAt(j, n)
    BY <1>1, <1>4 DEF GoneIsTold
  <2>1. (\E k \in Pend : Removes(k, n)) \/ \E j \in DOMAIN inot : DelAt(j, n)
    BY <1>6, <1>8 DEF GoneInv, GoneIsTold
  <2>2. ~Removes(cur, n)
    BY <1>6, <1>7
  <2> QED
    BY <1>2, <1>3, <2>1, <2>2
<1>11. SeenAndGone'
  <2> SUFFICES ASSUME NEW n \in Names, file[n] = 0
               PROVE  /\ \A j \in DOMAIN inot : LookAt(j, n) => \E i \in DOMAIN inot : i > j /\ DelAt(i, n)
                      /\ \A k \in Pend' : Looks(k, n) =>
                           \/ Excused(n)' \/ \E i \in Pend' : i > k /\ Removes(i, n)
                           \/ \E j \in DOMAIN inot : DelAt(j, n)
    BY <1>1, <1>2, <1>3, <1>4 DEF SeenAndGone
  <2>1. \A j \in DOMAIN inot : LookAt(j, n) => \E i \in DOMAIN inot : i > j /\ DelAt(i, n)
    BY DEF GoneInv, SeenAndGone
  <2>2. ASSUME NEW k \in Pend', Looks(k, n)
        PROVE  \/ Excused(n)' \/ \E i \in Pend' : i > k /\ Removes(i, n)
               \/ \E j \in DOMAIN inot : DelAt(j, n)
    <3>1. Excused(n) \/ (\E i \in Pend : i > k /\ Removes(i, n)) \/ \E j \in DOMAIN inot : DelAt(j, n)
      BY <1>2, <2>2 DEF GoneInv, SeenAndGone
    <3> QED
      BY <1>1, <1>2, <1>6, <3>1
  <2> QED
    BY <2>1, <2>2
<1>12. SeenAndNew'
  <2> SUFFICES ASSUME NEW n \in Names
               PROVE  /\ \A y \in DOMAIN inot : NewAt(y, n) =>
                        /\ \A x \in DOMAIN inot : x < y /\ LookAt(x, n) => Spared(n, y)' \/ DelBetween(x, y, n)
                        /\ \A x \in Pend' : Looks(x, n) =>
                             Spared(n, y)' \/ DelBetween(0, y, n) \/ \E z \in Pend' : z > x /\ Removes(z, n)
                      /\ \A y \in Pend' : News(y, n) =>
                           \A x \in Pend' : x < y /\ Looks(x, n) =>
                             Spared(n, 0)' \/ \E z \in Pend' : x < z /\ z < y /\ Carries(z, n)
    BY <1>1, <1>2, <1>3, <1>4, <1>5 DEF SeenAndNew
  <2>1. \A y \in DOMAIN inot : NewAt(y, n) =>
          \A x \in DOMAIN inot : x < y /\ LookAt(x, n) => Spared(n, y)' \/ DelBetween(x, y, n)
    BY <1>6 DEF GoneInv, SeenAndNew
  <2>2. ASSUME NEW y \in DOMAIN inot, NewAt(y, n), NEW x \in Pend', Looks(x, n)
        PROVE  Spared(n, y)' \/ DelBetween(0, y, n) \/ \E z \in Pend' : z > x /\ Removes(z, n)
    <3>1. Spared(n, y) \/ DelBetween(0, y, n) \/ \E z \in Pend : z > x /\ Removes(z, n)
      BY <1>2, <2>2 DEF GoneInv, SeenAndNew
    <3> QED
      BY <1>1, <1>2, <1>6, <3>1
  <2>3. ASSUME NEW y \in Pend', News(y, n), NEW x \in Pend', x < y, Looks(x, n)
        PROVE  Spared(n, 0)' \/ \E z \in Pend' : x < z /\ z < y /\ Carries(z, n)
    <3>1. Spared(n, 0) \/ \E z \in Pend : x < z /\ z < y /\ Carries(z, n)
      BY <1>2, <2>3 DEF GoneInv, SeenAndNew
    <3> QED
      BY <1>1, <1>2, <1>6, <3>1
  <2> QED
    BY <2>1, <2>2, <2>3
<1>13. KnownAndNew'
  <2> SUFFICES ASSUME NEW n \in Names, db'.file[n] # 0
               PROVE  /\ \A y \in DOMAIN inot : NewAt(y, n) =>
                           Spared(n, y)' \/ DelBetween(0, y, n) \/ \E z \in Pend' : Removes(z, n)
                      /\ \A y \in Pend' : News(y, n) => Spared(n, 0)' \/ \E z \in Pend' : z < y /\ Carries(z, n)
    BY <1>1, <1>2, <1>3, <1>4, <1>5 DEF KnownAndNew
  <2>1. CASE Removes(cur, n)
    BY <1>6, <1>7, <2>1
  <2>2. CASE ~Removes(cur, n) /\ db.file[n] # 0
    <3>1. /\ \A y \in DOMAIN inot : NewAt(y, n) =>
               Spared(n, y) \/ DelBetween(0, y, n) \/ \E z \in Pend : Removes(z, n)
          /\ \A y \in Pend : News(y, n) => Spared(n, 0) \/ \E z \in Pend : z < y /\ Carries(z, n)
      BY <2>2 DEF GoneInv, KnownAndNew
    <3> QED
      BY <1>2, <1>6, <1>9, <2>2, <3>1
  <2>3. CASE db.file[n] = 0
    <3>0. Looks(cur, n) /\ cur \in Pend
      BY <1>2, <1>8, <2>3
    <3>1. /\ \A y \in DOMAIN inot : NewAt(y, n) =>
               Spared(n, y) \/ DelBetween(0, y, n) \/ \E z \in Pend : z > cur /\ Removes(z, n)
          /\ \A y \in Pend : News(y, n) /\ cur < y => Spared(n, 0) \/ \E z \in Pend : cur < z /\ z < y /\ Carries(z, n)
      BY <3>0 DEF GoneInv, SeenAndNew
    <3> QED
      BY <1>1, <1>2, <1>6, <3>1
  <2> QED
    BY <2>1, <2>2, <2>3
<1>14. MovesAreBehind'
  <2>1. ASSUME NEW k \in Pend', NEW n \in Names, NEW m \in Names, Carries(k, n)', Name(k)' = m
        PROVE  Behind(n, m, 0)'
    BY <1>2, <1>3, <1>5, <2>1 DEF GoneInv, MovesAreBehind
  <2>2. ASSUME NEW j \in DOMAIN inot, NEW n \in Names, NEW m \in Names, inot[j].mask = "to", inot[j].name = m
        PROVE  /\ \A k \in moved_from' :
                    event_list[k].e.cookie = inot[j].cookie /\ Name(k) = n => Behind(n, m, j)
               /\ \A i \in DOMAIN inot :
                    inot[i].mask = "from" /\ inot[i].cookie = inot[j].cookie /\ inot[i].name = n => Behind(n, m, j)
    BY <1>1, <2>2 DEF GoneInv, MovesAreBehind
  <2>3. \A k : Name(k)' = Name(k)
    BY <1>1 DEF Name
  <2>4. \A j \in DOMAIN inot, n, m \in Names : inot[j].mask = "to" /\ inot[j].name = m =>
          /\ \A k \in moved_from' :
                    event_list[k].e.cookie = inot[j].cookie /\ Name(k) = n => Behind(n, m, j)'
          /\ \A i \in DOMAIN inot :
                    inot[i].mask = "from" /\ inot[i].cookie = inot[j].cookie /\ inot[i].name = n => Behind(n, m, j)'
    BY <1>5, <2>2
  <2> QED
    BY <1>1, <2>1, <2>3, <2>4 DEF MovesAreBehind
<1>15. NoneBeforeNew'
  BY <1>2, <1>3 DEF GoneInv, NoneBeforeNew
<1>16. BehindType'
  BY <1>1 DEF GoneInv, BehindType
<1> QED
  BY <1>10, <1>11, <1>12, <1>13, <1>14, <1>15, <1>16 DEF GoneInv

\* So does flush_queue().
LEMMA GoneFlush == ASSUME FlatTypes, GoneInv, Flush \/ FlushDone PROVE GoneInv'
<1>0. event_list \in Seq(FI) /\ DOMAIN event_list = 1 .. Len(event_list) /\ Len(event_list) \in Nat
  <2>1. event_list \in Seq(FI)
    BY DEF FlatTypes, FI
  <2> QED
    BY <2>1
<1>1. UNCHANGED <<file, inot, db, behind, lost>>
  BY DEF Flush, FlushDone, user, kernel, queue
<1>2. \A j, n : /\ LookAt(j, n)' <=> LookAt(j, n)
                /\ DelAt(j, n)' <=> DelAt(j, n)
                /\ NewAt(j, n)' <=> NewAt(j, n)
  BY <1>1 DEF LookAt, DelAt, NewAt
<1>3. /\ \A x, y, n : DelBetween(x, y, n)' <=> DelBetween(x, y, n)
      /\ \A n, m, j : Behind(n, m, j)' <=> Behind(n, m, j)
      /\ \A n, j : Spared(n, j)' <=> Spared(n, j)
      /\ \A n : Excused(n)' <=> Excused(n)
  BY <1>1 DEF DelBetween, Behind, NoDelAfter, DelAt, Spared, Excused
<1>4. CASE Flush
  <2>1. UNCHANGED <<event_list, moved_from>> /\ cur = 0 /\ cur' = 1 /\ event_list # <<>>
    BY <1>4 DEF Flush, queue
  <2>2. Pend' = Pend
    BY <1>0, <2>1 DEF Pend
  <2>3. \A k, n : /\ Looks(k, n)' <=> Looks(k, n)
                  /\ Removes(k, n)' <=> Removes(k, n)
                  /\ Carries(k, n)' <=> Carries(k, n)
                  /\ News(k, n)' <=> News(k, n)
                  /\ Dels(k, n)' <=> Dels(k, n)
                  /\ Name(k)' = Name(k)
    BY <2>1 DEF Looks, Removes, Dels, Carries, News, Name, Mask
  <2>4. GoneIsTold' /\ SeenAndGone' /\ NoneBeforeNew' /\ BehindType'
    BY <1>1, <1>2, <1>3, <2>2, <2>3 DEF GoneInv, GoneIsTold, SeenAndGone, NoneBeforeNew, BehindType
  <2>5. SeenAndNew'
    BY <1>1, <1>2, <1>3, <2>2, <2>3 DEF GoneInv, SeenAndNew
  <2>6. KnownAndNew'
    BY <1>1, <1>2, <1>3, <2>2, <2>3 DEF GoneInv, KnownAndNew
  <2>7. MovesAreBehind'
    BY <1>1, <1>3, <2>1, <2>2, <2>3 DEF GoneInv, MovesAreBehind
  <2> QED
    BY <2>4, <2>5, <2>6, <2>7 DEF GoneInv
<1>5. CASE FlushDone
  <2>1. event_list' = <<>> /\ moved_from' = {} /\ cur' = 0 /\ cur = Len(event_list) + 1
    BY <1>5 DEF FlushDone
  <2>2. Pend = {} /\ Pend' = {}
    BY <1>0, <2>1 DEF Pend
  <2>3. GoneIsTold' /\ SeenAndGone' /\ NoneBeforeNew' /\ BehindType'
    BY <1>1, <1>2, <1>3, <2>2 DEF GoneInv, GoneIsTold, SeenAndGone, NoneBeforeNew, BehindType
  <2>4. SeenAndNew' /\ KnownAndNew'
    BY <1>1, <1>2, <1>3, <2>2 DEF GoneInv, SeenAndNew, KnownAndNew
  <2>5. MovesAreBehind'
    BY <1>1, <1>3, <2>1, <2>2 DEF GoneInv, MovesAreBehind
  <2> QED
    BY <2>3, <2>4, <2>5 DEF GoneInv
<1> QED
  BY <1>4, <1>5

\* At the start nothing is gone.
LEMMA GoneInit == Init => GoneInv
<1> SUFFICES ASSUME Init PROVE GoneInv
  OBVIOUS
<1>1. inot = <<>> /\ event_list = <<>> /\ moved_from = {} /\ DOMAIN inot = {} /\ DOMAIN event_list = {} /\ Pend = {}
  BY DEF Init, Pend
<1>2. \A n \in Names : file[n] = 1
  BY DEF Init, Place
<1>3. BehindType
  BY DEF Init, BehindType
<1> QED
  BY <1>1, <1>2, <1>3 DEF GoneInv, GoneIsTold, SeenAndGone, SeenAndNew, KnownAndNew, MovesAreBehind, NoneBeforeNew

\* When nothing is left in the queues, that says what GoneIsNoticed says.
LEMMA QuietMeansGone == FlatTypes /\ GoneInv => GoneIsNoticed
<1> SUFFICES ASSUME FlatTypes, GoneInv, inot = <<>>, event_list = <<>>
             PROVE  /\ \A n \in Names : db.file[n] # 0 /\ file[n] = 0 => n \in lost \cup db.rerun
                    /\ \A n \in Names : db.dir[n] = 0
                    /\ \A i \in Dirs : where[i] \notin Names
  BY DEF GoneIsNoticed, Quiet
<1>1. Pend = {} /\ DOMAIN inot = {}
  BY DEF Pend
<1>2. \A n \in Names : db.file[n] # 0 /\ file[n] = 0 => n \in lost \cup db.rerun
  BY <1>1 DEF GoneInv, GoneIsTold, Excused
<1>3. \A i \in Dirs : where[i] \notin Names
  BY TidsApart DEF FlatTypes
<1> QED
  BY <1>2, <1>3 DEF FlatTypes

-----------------------------------------------------------------------------
(* queue_event().                                                          *)

(* The kernel's queue without its first event: what was excused stays so. *)
LEMMA QueueShift ==
    ASSUME FlatTypes, inot # <<>>, inot' = Tail(inot), UNCHANGED <<db, behind, lost>>
    PROVE  /\ \A j \in DOMAIN inot', n \in Names :
                /\ j \in Nat /\ j >= 1 /\ j + 1 \in DOMAIN inot /\ inot'[j] = inot[j + 1]
                /\ LookAt(j, n)' <=> LookAt(j + 1, n)
                /\ DelAt(j, n)' <=> DelAt(j + 1, n)
                /\ NewAt(j, n)' <=> NewAt(j + 1, n)
           /\ \A j \in DOMAIN inot, n \in Names : j \in Nat /\ (j # 1 =>
                j > 1 /\ j - 1 \in DOMAIN inot' /\ (DelAt(j, n) => DelAt(j - 1, n)'))
           /\ \A n, m \in Names, j \in Nat :
                (Behind(n, m, j + 1) => Behind(n, m, j)') /\ (Behind(n, m, j) => Behind(n, m, j)')
           /\ \A n \in Names, j \in Nat : (Spared(n, j + 1) => Spared(n, j)') /\ (Spared(n, j) => Spared(n, j)')
           /\ \A n \in Names : (Excused(n)' <=> Excused(n)) /\ \A j \in Nat : Excused(n) => Spared(n, j)'
           /\ \A n \in Names, x, y \in Nat : DelBetween(x + 1, y + 1, n) => DelBetween(x, y, n)'
           /\ \A n \in Names, y \in Nat : DelBetween(0, y + 1, n) => DelBetween(0, y, n)' \/ DelAt(1, n)
<1>1. /\ 1 \in DOMAIN inot /\ Head(inot) = inot[1]
      /\ \A j \in DOMAIN inot' : j \in Nat /\ j + 1 \in DOMAIN inot /\ inot'[j] = inot[j + 1] /\ j >= 1
      /\ \A j \in DOMAIN inot : j \in Nat /\ (j # 1 => j > 1 /\ j - 1 \in DOMAIN inot' /\ inot'[j - 1] = inot[j])
  BY TailIs
<1>2. \A j \in DOMAIN inot', n \in Names :
         /\ LookAt(j, n)' <=> LookAt(j + 1, n)
         /\ DelAt(j, n)' <=> DelAt(j + 1, n)
         /\ NewAt(j, n)' <=> NewAt(j + 1, n)
  BY <1>1 DEF LookAt, DelAt, NewAt
<1>3. \A j \in DOMAIN inot, n \in Names : j # 1 => (DelAt(j, n) => DelAt(j - 1, n)')
  BY <1>1 DEF DelAt
<1>4. \A n \in Names, j \in Nat : (NoDelAfter(j + 1, n) => NoDelAfter(j, n)') /\ (NoDelAfter(j, n) => NoDelAfter(j, n)')
  BY <1>1, <1>2 DEF NoDelAfter
<1>5. \A n, m \in Names, j \in Nat :
        (Behind(n, m, j + 1) => Behind(n, m, j)') /\ (Behind(n, m, j) => Behind(n, m, j)')
  BY <1>4 DEF Behind
<1>6. \A n \in Names, j \in Nat : (Spared(n, j + 1) => Spared(n, j)') /\ (Spared(n, j) => Spared(n, j)')
  BY <1>5 DEF Spared
<1>7. \A n \in Names : (Excused(n)' <=> Excused(n)) /\ \A j \in Nat : Excused(n) => Spared(n, j)'
  BY DEF Excused, Spared, Behind
<1>8. \A n \in Names, x, y \in Nat : DelBetween(x + 1, y + 1, n) => DelBetween(x, y, n)'
  <2> SUFFICES ASSUME NEW n \in Names, NEW x \in Nat, NEW y \in Nat, NEW i \in DOMAIN inot,
                      x + 1 < i, i < y + 1, DelAt(i, n)
               PROVE  DelBetween(x, y, n)'
    BY DEF DelBetween
  <2>1. i \in Nat /\ i # 1 /\ i - 1 \in DOMAIN inot' /\ DelAt(i - 1, n)' /\ x < i - 1 /\ i - 1 < y
    BY <1>1, <1>3
  <2> QED
    BY <2>1 DEF DelBetween
<1>9. \A n \in Names, y \in Nat : DelBetween(0, y + 1, n) => DelBetween(0, y, n)' \/ DelAt(1, n)
  <2> SUFFICES ASSUME NEW n \in Names, NEW y \in Nat, NEW i \in DOMAIN inot,
                      0 < i, i < y + 1, DelAt(i, n), i # 1
               PROVE  DelBetween(0, y, n)'
    BY DEF DelBetween
  <2>1. i \in Nat /\ i - 1 \in DOMAIN inot' /\ DelAt(i - 1, n)' /\ 0 < i - 1 /\ i - 1 < y
    BY <1>1, <1>3
  <2> QED
    BY <2>1 DEF DelBetween
<1> QED
  BY <1>1, <1>2, <1>3, <1>5, <1>6, <1>7, <1>8, <1>9

(* An event that is kept means what it meant, and a blanked one means nothing. *)
LEMMA KeptAll ==
    ASSUME FlatTypes, NEW B, Keeps(B), NEW n, NEW k \in DOMAIN event_list
    PROVE  /\ k \in DOMAIN event_list' /\ Name(k)' = Name(k)
           /\ k \in B => ~Looks(k, n)' /\ ~Removes(k, n)' /\ ~Carries(k, n)' /\ ~News(k, n)' /\ ~Dels(k, n)'
           /\ k \notin B => /\ Looks(k, n)' <=> Looks(k, n)
                            /\ Removes(k, n)' <=> Removes(k, n)
                            /\ Carries(k, n)' <=> Carries(k, n)
                            /\ News(k, n)' <=> News(k, n)
                            /\ Dels(k, n)' <=> Dels(k, n)
<1>1. event_list[k].from # 0 => event_list[k].from \in DOMAIN event_list
  <2>1. event_list \in Seq(FI) /\ event_list[k].from < k /\ event_list[k].from \in Nat
    BY FlatItems DEF FlatTypes, FI
  <2> QED
    BY <2>1
<1>2. /\ k \in DOMAIN event_list' /\ Name(k)' = Name(k) /\ Mask(k)' = IF k \in B THEN "none" ELSE Mask(k)
      /\ event_list'[k].from = event_list[k].from
  BY DEF Keeps, Name, Mask
<1>3. event_list[k].from # 0 => event_list'[event_list[k].from].e.name = event_list[event_list[k].from].e.name
  BY <1>1 DEF Keeps
<1>4. CASE k \in B
  <2>1. Mask(k)' = "none"
    BY <1>2, <1>4
  <2> QED
    BY <1>2, <1>4, <2>1 DEF Looks, Removes, Carries, News, Dels, IsLook, IsNew, IsDel
<1>5. CASE k \notin B
  <2>1. Mask(k)' = Mask(k)
    BY <1>2, <1>5
  <2>2. Carries(k, n)' <=> Carries(k, n)
    BY <1>2, <1>3, <2>1 DEF Carries, Name
  <2>3. (Looks(k, n)' <=> Looks(k, n)) /\ (News(k, n)' <=> News(k, n)) /\ (Dels(k, n)' <=> Dels(k, n))
    BY <1>2, <2>1 DEF Looks, News, Dels
  <2>4. Removes(k, n)' <=> Removes(k, n)
    BY <2>2, <2>3 DEF Removes
  <2> QED
    BY <1>2, <1>5, <2>2, <2>3, <2>4
<1> QED
  BY <1>4, <1>5

(* Reading an event: a removal that was pending still is, or is excused; *)
RemovalsStay == \A n \in Names, x \in {0} \cup DOMAIN event_list :
        /\ ~LookAt(1, n)
        /\ IF x = 0 THEN db.file[n] # 0 ELSE Looks(x, n)'
        /\ (\E z \in DOMAIN event_list : z > x /\ Removes(z, n)) \/ DelAt(1, n)
        => Excused(n) \/ \E z \in DOMAIN event_list' : z > x /\ Removes(z, n)'
(* a name that is going to be looked at was so before, or is the one that was read; *)
LooksAreRead == \A n \in Names, x \in DOMAIN event_list' : Looks(x, n)' =>
        LookAt(1, n) \/ (x \in DOMAIN event_list /\ Looks(x, n))
(* a move in event_list stays, or its source is excused; *)
MovesStay == \A n \in Names, z \in DOMAIN event_list : Carries(z, n) => Carries(z, n)' \/ n \in lost
(* a new name was there before, or was read and has no removal in front of it; *)
NewsAreRead == \A n \in Names, y \in DOMAIN event_list' : News(y, n)' =>
        \/ y \in DOMAIN event_list /\ News(y, n)
        \/ /\ y = Len(event_list) + 1 /\ NewAt(1, n)
           /\ \A z \in DOMAIN event_list : ~Dels(z, n)
(* a move was there before, or the event read is its second half; *)
MovesAreRead == \A n \in Names, k \in DOMAIN event_list' : Carries(k, n)' =>
        \/ k \in DOMAIN event_list /\ Carries(k, n) /\ Name(k)' = Name(k)
        \/ /\ inot[1].mask = "to" /\ Name(k)' = inot[1].name
           /\ \E f \in moved_from : event_list[f].e.cookie = inot[1].cookie /\ Name(f) = n
(* an IN_MOVED_FROM that waits was there before, or was read; *)
FromsAreRead == \A k \in moved_from' :
        \/ /\ k \in moved_from /\ event_list'[k].e.cookie = event_list[k].e.cookie
           /\ Name(k)' = Name(k)
        \/ /\ inot[1].mask = "from" /\ event_list'[k].e.cookie = inot[1].cookie
           /\ Name(k)' = inot[1].name
(* and the older events mean what they meant, or nothing. *)
NothingElse == \A n \in Names, k \in DOMAIN event_list :
        (Dels(k, n)' => Dels(k, n)) /\ (Looks(k, n)' => Looks(k, n))
(* All of it. *)
ReadGives == RemovalsStay /\ LooksAreRead /\ MovesStay /\ NewsAreRead /\ MovesAreRead /\ FromsAreRead /\ NothingElse

\* queue_event() keeps GoneInv, from what it does to the events of each name.
LEMMA GoneQueue ==
    ASSUME FlatTypes, Cookies, GoneInv, cur = 0, cur' = 0, inot # <<>>, inot' = Tail(inot),
           event_list' \in Seq(FI), UNCHANGED <<file, db, behind, lost>>, ReadGives
    PROVE  GoneInv'
<1>1. /\ Pend = DOMAIN event_list /\ Pend' = DOMAIN event_list' /\ Pend \subseteq Nat /\ Pend' \subseteq Nat
      /\ Len(event_list) \in Nat /\ Pend = 1 .. Len(event_list) /\ Pend' = 1 .. Len(event_list') 
  <2>1. event_list \in Seq(FI)
    BY DEF FlatTypes, FI
  <2>2. /\ DOMAIN event_list = 1 .. Len(event_list) /\ Len(event_list) \in Nat
        /\ DOMAIN event_list' = 1 .. Len(event_list') /\ Len(event_list') \in Nat
    BY <2>1
  <2> QED
    BY <2>2 DEF Pend
<1>2. /\ \A j \in DOMAIN inot', n \in Names :
                /\ j \in Nat /\ j >= 1 /\ j + 1 \in DOMAIN inot /\ inot'[j] = inot[j + 1]
                /\ LookAt(j, n)' <=> LookAt(j + 1, n)
                /\ DelAt(j, n)' <=> DelAt(j + 1, n)
                /\ NewAt(j, n)' <=> NewAt(j + 1, n)
      /\ \A j \in DOMAIN inot, n \in Names : j \in Nat /\ (j # 1 =>
                j > 1 /\ j - 1 \in DOMAIN inot' /\ (DelAt(j, n) => DelAt(j - 1, n)'))
      /\ 1 \in DOMAIN inot
  BY QueueShift, TailIs
<1>3. /\ \A n, m \in Names, j \in Nat :
           (Behind(n, m, j + 1) => Behind(n, m, j)') /\ (Behind(n, m, j) => Behind(n, m, j)')
      /\ \A n \in Names, j \in Nat : (Spared(n, j + 1) => Spared(n, j)') /\ (Spared(n, j) => Spared(n, j)')
      /\ \A n \in Names : (Excused(n)' <=> Excused(n)) /\ \A j \in Nat : Excused(n) => Spared(n, j)'
      /\ \A n \in Names, x, y \in Nat : DelBetween(x + 1, y + 1, n) => DelBetween(x, y, n)'
      /\ \A n \in Names, y \in Nat : DelBetween(0, y + 1, n) => DelBetween(0, y, n)' \/ DelAt(1, n)
  BY QueueShift
(* The file that the event is about: what the kernel still has tells. *)
<1>4. ASSUME NEW n \in Names, LookAt(1, n)
      PROVE  /\ file[n] = 0 => \E j \in DOMAIN inot' : DelAt(j, n)'
             /\ \A y \in DOMAIN inot' : NewAt(y, n)' => Spared(n, y)' \/ DelBetween(0, y, n)'
  <2>1. ASSUME file[n] = 0 PROVE \E j \in DOMAIN inot' : DelAt(j, n)'
    <3>1. PICK i \in DOMAIN inot : i > 1 /\ DelAt(i, n)
      BY <1>2, <1>4, <2>1 DEF GoneInv, SeenAndGone
    <3> QED
      BY <1>2, <3>1
  <2>2. ASSUME NEW y \in DOMAIN inot', NewAt(y, n)' PROVE Spared(n, y)' \/ DelBetween(0, y, n)'
    <3>1. y \in Nat /\ y + 1 \in DOMAIN inot /\ NewAt(y + 1, n) /\ 1 < y + 1
      BY <1>2, <2>2
    <3>2. Spared(n, y + 1) \/ DelBetween(1, y + 1, n)
      BY <1>2, <1>4, <3>1 DEF GoneInv, SeenAndNew
    <3>3. DelBetween(1, y + 1, n) => DelBetween(0, y, n)'
      <4>1. DelBetween(0 + 1, y + 1, n) => DelBetween(0, y, n)'
        BY <1>3, <3>1
      <4> QED
        BY <4>1
    <3> QED
      BY <1>3, <3>1, <3>2, <3>3
  <2> QED
    BY <2>1, <2>2
<1>5. \A n \in Names : (\E j \in DOMAIN inot : DelAt(j, n)) => DelAt(1, n) \/ \E j \in DOMAIN inot' : DelAt(j, n)'
  BY <1>2
<1>6. GoneIsTold'
  <2> SUFFICES ASSUME NEW n \in Names, db.file[n] # 0, file[n] = 0, ~Excused(n)
               PROVE  (\E k \in Pend' : Removes(k, n)') \/ \E j \in DOMAIN inot' : DelAt(j, n)'
    BY <1>3 DEF GoneIsTold
  <2>1. CASE LookAt(1, n)
    BY <1>4, <2>1
  <2>2. CASE ~LookAt(1, n)
    <3>1. (\E k \in Pend : Removes(k, n)) \/ DelAt(1, n) \/ \E j \in DOMAIN inot' : DelAt(j, n)'
      BY <1>5 DEF GoneInv, GoneIsTold
    <3>2. (\E k \in Pend : Removes(k, n)) => \E k \in DOMAIN event_list : k > 0 /\ Removes(k, n)
      BY <1>1
    <3>3. (\E k \in DOMAIN event_list : k > 0 /\ Removes(k, n)) \/ DelAt(1, n) => \E z \in DOMAIN event_list' : z > 0 /\ Removes(z, n)'
      BY <2>2 DEF ReadGives, RemovalsStay
    <3> QED
      BY <1>1, <3>1, <3>2, <3>3
  <2> QED
    BY <2>1, <2>2
<1>7. SeenAndGone'
  <2> SUFFICES ASSUME NEW n \in Names, file[n] = 0
               PROVE  /\ \A j \in DOMAIN inot' : LookAt(j, n)' => \E i \in DOMAIN inot' : i > j /\ DelAt(i, n)'
                      /\ \A k \in Pend' : Looks(k, n)' =>
                           \/ Excused(n)' \/ \E i \in Pend' : i > k /\ Removes(i, n)'
                           \/ \E j \in DOMAIN inot' : DelAt(j, n)'
    BY DEF SeenAndGone
  <2>1. ASSUME NEW j \in DOMAIN inot', LookAt(j, n)' PROVE \E i \in DOMAIN inot' : i > j /\ DelAt(i, n)'
    <3>1. j \in Nat /\ j >= 1 /\ j + 1 \in DOMAIN inot /\ LookAt(j + 1, n)
      BY <1>2, <2>1
    <3>2. PICK i \in DOMAIN inot : i > j + 1 /\ DelAt(i, n)
      BY <3>1 DEF GoneInv, SeenAndGone
    <3>3. i \in Nat /\ i # 1 /\ i - 1 \in DOMAIN inot' /\ DelAt(i - 1, n)' /\ i - 1 > j
      BY <1>2, <3>1, <3>2
    <3> QED
      BY <3>3
  <2>2. ASSUME NEW k \in Pend', Looks(k, n)'
        PROVE  \/ Excused(n)' \/ \E i \in Pend' : i > k /\ Removes(i, n)'
               \/ \E j \in DOMAIN inot' : DelAt(j, n)'
    <3>1. CASE LookAt(1, n)
      BY <1>4, <3>1
    <3>2. CASE ~LookAt(1, n)
      <4>1. k \in DOMAIN event_list /\ Looks(k, n) /\ k # 0
        BY <1>1, <2>2, <3>2 DEF ReadGives, LooksAreRead
      <4>2. Excused(n) \/ (\E i \in DOMAIN event_list : i > k /\ Removes(i, n)) \/ DelAt(1, n) \/ \E j \in DOMAIN inot' : DelAt(j, n)'
        BY <1>1, <1>5, <4>1 DEF GoneInv, SeenAndGone
      <4>3. (\E z \in DOMAIN event_list : z > k /\ Removes(z, n)) \/ DelAt(1, n) =>
               Excused(n) \/ \E z \in DOMAIN event_list' : z > k /\ Removes(z, n)'
        BY <2>2, <3>2, <4>1 DEF ReadGives, RemovalsStay
      <4> QED
        BY <1>1, <1>3, <4>2, <4>3
    <3> QED
      BY <3>1, <3>2
  <2> QED
    BY <2>1, <2>2
<1>8. SeenAndNew'
  <2>1. ASSUME NEW n \in Names, NEW y \in DOMAIN inot', NewAt(y, n)', NEW x \in DOMAIN inot', x < y, LookAt(x, n)'
        PROVE  Spared(n, y)' \/ DelBetween(x, y, n)'
    <3>1. /\ x \in Nat /\ y \in Nat /\ x + 1 \in DOMAIN inot /\ y + 1 \in DOMAIN inot
          /\ x + 1 < y + 1 /\ NewAt(y + 1, n) /\ LookAt(x + 1, n)
      BY <1>2, <2>1
    <3>2. Spared(n, y + 1) \/ DelBetween(x + 1, y + 1, n)
      BY <3>1 DEF GoneInv, SeenAndNew
    <3> QED
      BY <1>3, <3>1, <3>2
  <2>2. ASSUME NEW n \in Names, NEW y \in DOMAIN inot', NewAt(y, n)', NEW x \in Pend', Looks(x, n)'
        PROVE  Spared(n, y)' \/ DelBetween(0, y, n)' \/ \E z \in Pend' : z > x /\ Removes(z, n)'
    <3>1. CASE LookAt(1, n)
      BY <1>4, <2>2, <3>1
    <3>2. CASE ~LookAt(1, n)
      <4>0. y \in Nat /\ y + 1 \in DOMAIN inot /\ NewAt(y + 1, n)
        BY <1>2, <2>2
      <4>1. x \in DOMAIN event_list /\ Looks(x, n) /\ x # 0
        BY <1>1, <2>2, <3>2 DEF ReadGives, LooksAreRead
      <4>2. Spared(n, y + 1) \/ DelBetween(0, y + 1, n) \/ \E z \in DOMAIN event_list : z > x /\ Removes(z, n)
        BY <1>1, <4>0, <4>1 DEF GoneInv, SeenAndNew
      <4>3. (\E z \in DOMAIN event_list : z > x /\ Removes(z, n)) \/ DelAt(1, n) =>
               Excused(n) \/ \E z \in DOMAIN event_list' : z > x /\ Removes(z, n)'
        BY <2>2, <3>2, <4>1 DEF ReadGives, RemovalsStay
      <4> QED
        BY <1>1, <1>3, <4>0, <4>2, <4>3
    <3> QED
      BY <3>1, <3>2
  <2>3. ASSUME NEW n \in Names, NEW y \in Pend', News(y, n)', NEW x \in Pend', x < y, Looks(x, n)'
        PROVE  Spared(n, 0)' \/ \E z \in Pend' : x < z /\ z < y /\ Carries(z, n)'
    <3>0. ASSUME NEW z \in DOMAIN event_list, Carries(z, n), x < z, z < y
          PROVE  Spared(n, 0)' \/ \E w \in Pend' : x < w /\ w < y /\ Carries(w, n)'
      <4>1. Carries(z, n)' \/ n \in lost
        BY <3>0 DEF ReadGives, MovesStay
      <4>2. z \in Pend'
        BY <1>1, <2>3, <3>0
      <4> QED
        BY <1>3, <3>0, <4>1, <4>2 DEF Excused
    <3>1. CASE y \in DOMAIN event_list /\ News(y, n)
      <4>1. x \in DOMAIN event_list /\ Looks(x, n)
        BY <1>1, <2>3, <3>1 DEF ReadGives, NothingElse
      <4>2. Spared(n, 0) \/ \E z \in DOMAIN event_list : x < z /\ z < y /\ Carries(z, n)
        BY <1>1, <2>3, <3>1, <4>1 DEF GoneInv, SeenAndNew
      <4> QED
        BY <1>3, <3>0, <4>2
    <3>2. CASE /\ y = Len(event_list) + 1 /\ NewAt(1, n)
               /\ \A z \in DOMAIN event_list : ~Dels(z, n)
      <4>1. x \in DOMAIN event_list /\ Looks(x, n)
        BY <1>1, <2>3, <3>2 DEF ReadGives, NothingElse
      <4>2. Spared(n, 1) \/ DelBetween(0, 1, n) \/ \E z \in DOMAIN event_list : z > x /\ Removes(z, n)
        BY <1>1, <1>2, <3>2, <4>1 DEF GoneInv, SeenAndNew
      <4>3. ~DelBetween(0, 1, n)
        BY <1>2 DEF DelBetween
      <4>4. Spared(n, 1) => Spared(n, 0)'
        <5>1. Spared(n, 0 + 1) => Spared(n, 0)'
          BY <1>3
        <5> QED
          BY <5>1
      <4>5. \A z \in DOMAIN event_list : Removes(z, n) => Carries(z, n) /\ z < y
        BY <1>1, <3>2 DEF Removes
      <4> QED
        BY <1>1, <2>3, <3>0, <4>2, <4>3, <4>4, <4>5
    <3> QED
      BY <1>1, <2>3, <3>1, <3>2 DEF ReadGives, NewsAreRead
  <2> QED
    BY <2>1, <2>2, <2>3 DEF SeenAndNew
<1>9. KnownAndNew'
  <2>2. ASSUME NEW n \in Names, db.file[n] # 0, NEW y \in DOMAIN inot', NewAt(y, n)'
        PROVE  Spared(n, y)' \/ DelBetween(0, y, n)' \/ \E z \in Pend' : Removes(z, n)'
    <3>1. CASE LookAt(1, n)
      BY <1>4, <2>2, <3>1
    <3>2. CASE ~LookAt(1, n)
      <4>0. y \in Nat /\ y + 1 \in DOMAIN inot /\ NewAt(y + 1, n)
        BY <1>2, <2>2
      <4>2. Spared(n, y + 1) \/ DelBetween(0, y + 1, n) \/ \E z \in DOMAIN event_list : Removes(z, n)
        BY <1>1, <2>2, <4>0 DEF GoneInv, KnownAndNew
      <4>3. (\E z \in DOMAIN event_list : z > 0 /\ Removes(z, n)) \/ DelAt(1, n) =>
               Excused(n) \/ \E z \in DOMAIN event_list' : z > 0 /\ Removes(z, n)'
        BY <2>2, <3>2 DEF ReadGives, RemovalsStay
      <4>4. \A z \in DOMAIN event_list : z > 0
        BY <1>1
      <4> QED
        BY <1>1, <1>3, <4>0, <4>2, <4>3, <4>4
    <3> QED
      BY <3>1, <3>2
  <2>3. ASSUME NEW n \in Names, db.file[n] # 0, NEW y \in Pend', News(y, n)'
        PROVE  Spared(n, 0)' \/ \E z \in Pend' : z < y /\ Carries(z, n)'
    <3>0. ASSUME NEW z \in DOMAIN event_list, Carries(z, n), z < y
          PROVE  Spared(n, 0)' \/ \E w \in Pend' : w < y /\ Carries(w, n)'
      <4>1. Carries(z, n)' \/ n \in lost
        BY <3>0 DEF ReadGives, MovesStay
      <4>2. z \in Pend'
        BY <1>1, <2>3, <3>0
      <4> QED
        BY <1>3, <3>0, <4>1, <4>2 DEF Excused
    <3>1. CASE y \in DOMAIN event_list /\ News(y, n)
      <4>2. Spared(n, 0) \/ \E z \in DOMAIN event_list : z < y /\ Carries(z, n)
        BY <1>1, <2>3, <3>1 DEF GoneInv, KnownAndNew
      <4> QED
        BY <1>3, <3>0, <4>2
    <3>2. CASE /\ y = Len(event_list) + 1 /\ NewAt(1, n)
               /\ \A z \in DOMAIN event_list : ~Dels(z, n)
      <4>2. Spared(n, 1) \/ DelBetween(0, 1, n) \/ \E z \in DOMAIN event_list : Removes(z, n)
        BY <1>1, <1>2, <2>3, <3>2 DEF GoneInv, KnownAndNew
      <4>3. ~DelBetween(0, 1, n)
        BY <1>2 DEF DelBetween
      <4>4. Spared(n, 1) => Spared(n, 0)'
        <5>1. Spared(n, 0 + 1) => Spared(n, 0)'
          BY <1>3
        <5> QED
          BY <5>1
      <4>5. \A z \in DOMAIN event_list : Removes(z, n) => Carries(z, n) /\ z < y
        BY <1>1, <3>2 DEF Removes
      <4> QED
        BY <3>0, <4>2, <4>3, <4>4, <4>5
    <3> QED
      BY <1>1, <2>3, <3>1, <3>2 DEF ReadGives, NewsAreRead
  <2> QED
    BY <2>2, <2>3 DEF KnownAndNew
<1>10. MovesAreBehind'
  <2>1. ASSUME NEW k \in Pend', NEW n \in Names, NEW m \in Names, Carries(k, n)', Name(k)' = m
        PROVE  Behind(n, m, 0)'
    <3>1. CASE k \in DOMAIN event_list /\ Carries(k, n) /\ Name(k)' = Name(k)
      BY <1>1, <1>3, <2>1, <3>1 DEF GoneInv, MovesAreBehind
    <3>2. CASE /\ inot[1].mask = "to" /\ Name(k)' = inot[1].name
               /\ \E f \in moved_from : event_list[f].e.cookie = inot[1].cookie /\ Name(f) = n
      <4>1. Behind(n, m, 1)
        BY <1>2, <2>1, <3>2 DEF GoneInv, MovesAreBehind
      <4>2. Behind(n, m, 0 + 1) => Behind(n, m, 0)'
        BY <1>3
      <4> QED
        BY <4>1, <4>2
    <3> QED
      BY <1>1, <2>1, <3>1, <3>2 DEF ReadGives, MovesAreRead
  <2>2. ASSUME NEW j \in DOMAIN inot', NEW n \in Names, NEW m \in Names, inot'[j].mask = "to", inot'[j].name = m,
               NEW k \in moved_from', event_list'[k].e.cookie = inot'[j].cookie, Name(k)' = n
        PROVE  Behind(n, m, j)'
    <3>0. j \in Nat /\ j >= 1 /\ j + 1 \in DOMAIN inot /\ inot'[j] = inot[j + 1]
      BY <1>2
    <3>1. CASE k \in moved_from /\ event_list'[k].e.cookie = event_list[k].e.cookie
      <4>1. j + 1 = 1
        BY <2>2, <3>0, <3>1 DEF Cookies
      <4> QED
        BY <3>0, <4>1
    <3>2. CASE inot[1].mask = "from" /\ event_list'[k].e.cookie = inot[1].cookie /\ Name(k)' = inot[1].name
      <4>1. Behind(n, m, j + 1)
        BY <1>2, <2>2, <3>0, <3>2 DEF GoneInv, MovesAreBehind
      <4> QED
        BY <1>3, <3>0, <4>1
    <3> QED
      BY <2>2, <3>1, <3>2 DEF ReadGives, FromsAreRead
  <2>3. ASSUME NEW j \in DOMAIN inot', NEW n \in Names, NEW m \in Names, inot'[j].mask = "to", inot'[j].name = m,
               NEW i \in DOMAIN inot', inot'[i].mask = "from", inot'[i].cookie = inot'[j].cookie, inot'[i].name = n
        PROVE  Behind(n, m, j)'
    <3>0. /\ j \in Nat /\ j + 1 \in DOMAIN inot /\ inot'[j] = inot[j + 1]
          /\ i + 1 \in DOMAIN inot /\ inot'[i] = inot[i + 1]
      BY <1>2
    <3>1. Behind(n, m, j + 1)
      BY <2>3, <3>0 DEF GoneInv, MovesAreBehind
    <3> QED
      BY <1>3, <3>0, <3>1
  <2> QED
    BY <2>1, <2>2, <2>3 DEF MovesAreBehind
<1>11. NoneBeforeNew'
  <2> SUFFICES ASSUME NEW n \in Names, NEW j \in Pend', NEW k \in Pend', j < k, Dels(j, n)', News(k, n)' PROVE FALSE
    BY DEF NoneBeforeNew
  <2>1. CASE k \in DOMAIN event_list /\ News(k, n)
    <3>1. j \in DOMAIN event_list /\ Dels(j, n)
      BY <1>1, <2>1 DEF ReadGives, NothingElse
    <3> QED
      BY <1>1, <2>1, <3>1 DEF GoneInv, NoneBeforeNew
  <2>2. CASE k = Len(event_list) + 1 /\ \A z \in DOMAIN event_list : ~Dels(z, n)
    <3>1. j \in DOMAIN event_list /\ Dels(j, n)
      BY <1>1, <2>2 DEF ReadGives, NothingElse
    <3> QED
      BY <2>2, <3>1
  <2> QED
    BY <1>1, <2>1, <2>2 DEF ReadGives, NewsAreRead
<1>12. BehindType'
  BY DEF GoneInv, BehindType
<1> QED
  BY <1>6, <1>7, <1>8, <1>9, <1>10, <1>11, <1>12 DEF GoneInv

(* The event that is read and the lists, in the words of the model. *)
ReadSetup(e) ==
    /\ FlatTypes /\ Cookies /\ GoneInv /\ cur = 0 /\ inot # <<>> /\ inot' = Tail(inot)
    /\ e = inot[1] /\ 1 \in DOMAIN inot /\ e.name \in Names /\ e.mask \in FileMasks
    /\ e.wd = Top /\ e.dir = FALSE
    /\ event_list' \in Seq(FI)

\* What ephemeral_event() finds and blanks, name by name.
LEMMA ReadLists ==
    ASSUME NEW e, ReadSetup(e)
    PROVE  /\ Len(event_list) \in Nat /\ DOMAIN event_list = 1 .. Len(event_list) /\ Pend = DOMAIN event_list
           /\ Len(event_list') \in Nat /\ DOMAIN event_list' = 1 .. Len(event_list')
           /\ moved_from \subseteq DOMAIN event_list
           /\ \A n : /\ LookAt(1, n) <=> (e.name = n /\ IsLook(e.mask))
                     /\ DelAt(1, n) <=> (e.name = n /\ IsDel(e.mask))
                     /\ NewAt(1, n) <=> (e.name = n /\ IsNew(e.mask))
           /\ \A h \in Hits(event_list, e) : /\ h \in DOMAIN event_list /\ Name(h) = e.name
                                             /\ IsDel(e.mask) => News(h, e.name)
                                             /\ IsNew(e.mask) => Dels(h, e.name)
           /\ \A h \in DOMAIN event_list : IsNew(e.mask) /\ Dels(h, e.name) => h \in Hits(event_list, e)
           /\ \A k \in Blanked(event_list, e) : /\ k \in DOMAIN event_list /\ Name(k) = e.name
                                                /\ \E h \in Hits(event_list, e) : h <= k
           /\ \A k \in DOMAIN event_list, h \in Hits(event_list, e) :
                Name(k) = e.name /\ k \notin Blanked(event_list, e) => k < h
<1>1. event_list \in Seq(FI) /\ moved_from \subseteq DOMAIN event_list /\ event_list' \in Seq(FI) /\ cur = 0
  BY DEF FlatTypes, FI, ReadSetup
<1>2. /\ Len(event_list) \in Nat /\ DOMAIN event_list = 1 .. Len(event_list)
      /\ Len(event_list') \in Nat /\ DOMAIN event_list' = 1 .. Len(event_list')
  BY <1>1
<1>3. Pend = DOMAIN event_list
  BY <1>1, <1>2 DEF Pend
<1>4. \A n : /\ LookAt(1, n) <=> (e.name = n /\ IsLook(e.mask))
             /\ DelAt(1, n) <=> (e.name = n /\ IsDel(e.mask))
             /\ NewAt(1, n) <=> (e.name = n /\ IsNew(e.mask))
  BY DEF LookAt, DelAt, NewAt, ReadSetup
<1>5. \A h \in Hits(event_list, e) : /\ h \in DOMAIN event_list /\ Name(h) = e.name
                                     /\ IsDel(e.mask) => News(h, e.name)
                                     /\ IsNew(e.mask) => Dels(h, e.name)
  <2>1. ~(IsDel(e.mask) /\ IsNew(e.mask))
    BY DEF IsDel, IsNew
  <2> QED
    BY <2>1 DEF Hits, News, Dels, Name, Mask
<1>6. \A k \in DOMAIN event_list : event_list[k].e.wd = e.wd /\ e.dir = FALSE
  BY FlatItems DEF ReadSetup
<1>7. \A h \in DOMAIN event_list : IsNew(e.mask) /\ Dels(h, e.name) => h \in Hits(event_list, e)
  BY <1>6 DEF Hits, Dels, Name, Mask
<1>8. \A k \in Blanked(event_list, e) : /\ k \in DOMAIN event_list /\ Name(k) = e.name
                                        /\ \E h \in Hits(event_list, e) : h <= k
  BY DEF Blanked, Name
<1>9. \A k \in DOMAIN event_list, h \in Hits(event_list, e) :
         Name(k) = e.name /\ k \notin Blanked(event_list, e) => k < h
  <2> SUFFICES ASSUME NEW k \in DOMAIN event_list, NEW h \in Hits(event_list, e), Name(k) = e.name, ~(k < h)
               PROVE  k \in Blanked(event_list, e)
    OBVIOUS
  <2>1. h <= k
    BY <1>2, <1>5
  <2> QED
    BY <1>6, <2>1 DEF Blanked, Name
<1> QED
  BY <1>1, <1>2, <1>3, <1>4, <1>5, <1>7, <1>8, <1>9

\* The same event again changes nothing, and the last one stands for both.
LEMMA DupGives == ASSUME NEW e, ReadSetup(e), ReadDup(e) PROVE ReadGives
<1>0. event_list' = event_list /\ moved_from' = moved_from /\ event_list # <<>> /\ event_list[Len(event_list)].e = e
  BY DEF ReadDup
<1>1. \A k, n : /\ Looks(k, n)' <=> Looks(k, n)
                /\ Removes(k, n)' <=> Removes(k, n)
                /\ Carries(k, n)' <=> Carries(k, n)
                /\ News(k, n)' <=> News(k, n)
                /\ Dels(k, n)' <=> Dels(k, n)
                /\ Name(k)' = Name(k)
  BY <1>0 DEF Looks, Removes, Dels, Carries, News, Name, Mask
<1>2. RemovalsStay
  <2> SUFFICES ASSUME NEW n \in Names, NEW x \in {0} \cup DOMAIN event_list, x # 0 => Looks(x, n),
                      (\E z \in DOMAIN event_list : z > x /\ Removes(z, n)) \/ DelAt(1, n)
               PROVE  \E z \in DOMAIN event_list : z > x /\ Removes(z, n)
    BY <1>0, <1>1 DEF RemovalsStay
  <2>1. CASE DelAt(1, n)
    <3>0. PICK L \in Nat : L = Len(event_list)
      BY ReadLists
    <3>1. L \in DOMAIN event_list
      <4>1. event_list \in Seq(FI)
        BY DEF ReadSetup, FlatTypes, FI
      <4> QED
        BY <1>0, <3>0, <4>1
    <3>2. e.name = n /\ IsDel(e.mask)
      BY <2>1, ReadLists
    <3>3. Dels(L, n) /\ ~Looks(L, n)
      BY <1>0, <3>0, <3>2 DEF Dels, Looks, Name, Mask, IsDel, IsLook
    <3>4. x # L /\ x <= L /\ x \in Nat
      BY <3>0, <3>1, <3>3, ReadLists
    <3> QED
      BY <3>0, <3>1, <3>3, <3>4 DEF Removes
  <2> QED
    BY <2>1
<1>3. FromsAreRead
  BY <1>0, <1>1 DEF FromsAreRead
<1>4. LooksAreRead /\ MovesStay /\ NewsAreRead /\ MovesAreRead /\ NothingElse
  BY <1>0, <1>1 DEF LooksAreRead, MovesStay, NewsAreRead, MovesAreRead, NothingElse
<1> QED
  BY <1>2, <1>3, <1>4 DEF ReadGives

\* A removal that undoes a creation: whatever was there before the creation has another
\* removal, or is excused; a move to this name goes with it, and its source is excused.
LEMMA DropGives == ASSUME NEW e, ReadSetup(e), ReadDrop(e) PROVE ReadGives
<1> DEFINE B == Blanked(event_list, e)
<1>0. /\ IsDel(e.mask) /\ Hits(event_list, e) # {} /\ Len(event_list') = Len(event_list)
      /\ Keeps(B) /\ moved_from' = moved_from /\ FlatTypes
  BY DEF ReadDrop, ReadSetup
<1>1. \A n \in Names, k \in DOMAIN event_list :
         /\ k \in DOMAIN event_list' /\ Name(k)' = Name(k)
         /\ k \in B => ~Looks(k, n)' /\ ~Removes(k, n)' /\ ~Carries(k, n)' /\ ~News(k, n)' /\ ~Dels(k, n)'
         /\ k \notin B => /\ Looks(k, n)' <=> Looks(k, n)
                          /\ Removes(k, n)' <=> Removes(k, n)
                          /\ Carries(k, n)' <=> Carries(k, n)
                          /\ News(k, n)' <=> News(k, n)
                          /\ Dels(k, n)' <=> Dels(k, n)
  BY <1>0, KeptAll
<1>2. /\ DOMAIN event_list' = DOMAIN event_list /\ Pend = DOMAIN event_list
      /\ \A k \in B : k \in DOMAIN event_list /\ Name(k) = e.name
      /\ \A k \in DOMAIN event_list, h \in Hits(event_list, e) : Name(k) = e.name /\ k \notin B => k < h
      /\ \A n \in Names : DelAt(1, n) <=> n = e.name
      /\ \A h \in Hits(event_list, e) : h \in DOMAIN event_list /\ News(h, e.name)
  BY <1>0, ReadLists
<1> HIDE DEF B
<1>3. e.name \in Names /\ 1 \in DOMAIN inot /\ ~NoDelAfter(0, e.name)
  BY <1>2 DEF ReadSetup, NoDelAfter
(* A move to the name that goes: its source is excused. *)
<1>4. MovesStay
  <2> SUFFICES ASSUME NEW n \in Names, NEW z \in DOMAIN event_list, Carries(z, n), z \in B PROVE n \in lost
    BY <1>1 DEF MovesStay
  <2>1. Name(z) = e.name
    BY <1>2
  <2>2. Behind(n, e.name, 0)
    BY <1>2, <1>3, <2>1 DEF ReadSetup, GoneInv, MovesAreBehind
  <2> QED
    BY <1>3, <2>2 DEF Behind
<1>5. RemovalsStay
  <2> SUFFICES ASSUME NEW n \in Names, NEW x \in {0} \cup DOMAIN event_list,
                      IF x = 0 THEN db.file[n] # 0 ELSE Looks(x, n)',
                      (\E z \in DOMAIN event_list : z > x /\ Removes(z, n)) \/ DelAt(1, n)
               PROVE  n \in db.rerun \/ n \in lost \/ \E z \in DOMAIN event_list' : z > x /\ Removes(z, n)'
    BY DEF RemovalsStay, Excused
  <2>0. \A z \in DOMAIN event_list : Carries(z, n)' => Removes(z, n)'
    BY DEF Removes
  <2>1. CASE n # e.name
    <3>1. PICK z \in DOMAIN event_list : z > x /\ Removes(z, n)
      BY <1>2, <2>1
    <3>2. CASE Carries(z, n)
      BY <1>2, <1>4, <2>0, <3>1, <3>2 DEF MovesStay
    <3>3. CASE Dels(z, n)
      <4>1. z \notin B
        BY <1>2, <2>1, <3>3 DEF Dels
      <4> QED
        BY <1>1, <1>2, <3>1, <4>1
    <3> QED
      BY <3>1, <3>2, <3>3 DEF Removes
  <2>2. CASE n = e.name
    <3>1. PICK h \in DOMAIN event_list : h \in Hits(event_list, e) /\ News(h, n)
      BY <1>0, <1>2, <2>2
    <3>2. Spared(n, 0) \/ \E z \in DOMAIN event_list : z > x /\ Carries(z, n)
      <4>1. CASE x = 0
        <5>1. Spared(n, 0) \/ \E z \in DOMAIN event_list : Carries(z, n)
          BY <1>2, <3>1, <4>1 DEF ReadSetup, GoneInv, KnownAndNew
        <5>2. \A z \in DOMAIN event_list : z > x
          BY <4>1, ReadLists
        <5> QED
          BY <5>1, <5>2
      <4>2. CASE x # 0
        <5>1. x \in DOMAIN event_list /\ x \notin B /\ Looks(x, n)
          BY <1>1, <4>2
        <5>2. x < h
          BY <1>2, <2>2, <3>1, <5>1 DEF Looks
        <5> QED
          BY <1>2, <3>1, <5>1, <5>2 DEF ReadSetup, GoneInv, SeenAndNew
      <4> QED
        BY <4>1, <4>2
    <3>3. CASE Spared(n, 0)
      BY <1>3, <2>2, <3>3 DEF Spared, Behind
    <3>4. CASE \E z \in DOMAIN event_list : z > x /\ Carries(z, n)
      BY <1>2, <1>4, <2>0, <3>4 DEF MovesStay
    <3> QED
      BY <3>2, <3>3, <3>4
  <2> QED
    BY <2>1, <2>2
<1>6. FromsAreRead
  <2>1. \A k \in moved_from : k \in DOMAIN event_list /\ event_list'[k].e.cookie = event_list[k].e.cookie
                              /\ event_list'[k].e.name = event_list[k].e.name
    BY <1>0, ReadLists DEF Keeps
  <2> QED
    BY <1>0, <2>1 DEF FromsAreRead, Name
<1>7. LooksAreRead /\ NewsAreRead /\ MovesAreRead /\ NothingElse
  BY <1>1, <1>2 DEF LooksAreRead, NewsAreRead, MovesAreRead, NothingElse
<1> QED
  BY <1>4, <1>5, <1>6, <1>7 DEF ReadGives

\* A file that is made again: the removals it cancels are followed by another one in the
\* kernel's queue if the file is gone.
LEMMA AgainGives == ASSUME NEW e, ReadSetup(e), ReadAgain(e) PROVE ReadGives
<1> DEFINE B == Blanked(event_list, e)
<1>0. /\ IsNew(e.mask) /\ Hits(event_list, e) # {} /\ Adds(e, "modify", 0)
      /\ Keeps(B) /\ moved_from' = moved_from /\ FlatTypes
  BY DEF ReadAgain, ReadSetup
<1>1. \A n \in Names, k \in DOMAIN event_list :
         /\ k \in DOMAIN event_list' /\ Name(k)' = Name(k)
         /\ k \in B => ~Looks(k, n)' /\ ~Removes(k, n)' /\ ~Carries(k, n)' /\ ~News(k, n)' /\ ~Dels(k, n)'
         /\ k \notin B => /\ Looks(k, n)' <=> Looks(k, n)
                          /\ Removes(k, n)' <=> Removes(k, n)
                          /\ Carries(k, n)' <=> Carries(k, n)
                          /\ News(k, n)' <=> News(k, n)
                          /\ Dels(k, n)' <=> Dels(k, n)
  BY <1>0, KeptAll
<1>2. /\ Pend = DOMAIN event_list
      /\ \A k \in B : k \in DOMAIN event_list /\ Name(k) = e.name /\ \E h \in Hits(event_list, e) : h <= k
      /\ \A n \in Names : ~DelAt(1, n) /\ (LookAt(1, n) <=> n = e.name)
      /\ \A h \in Hits(event_list, e) : h \in DOMAIN event_list /\ Dels(h, e.name)
  BY <1>0, ReadLists DEF IsNew, IsLook, IsDel
<1> HIDE DEF B
<1>d. DOMAIN event_list \subseteq Nat
  BY ReadLists
(* No move is blanked: a removal in front of it would have undone it. *)
<1>3. \A k \in B, n \in Names : ~Carries(k, n)
  <2> SUFFICES ASSUME NEW k \in B, NEW n \in Names, Carries(k, n) PROVE FALSE
    OBVIOUS
  <2>1. k \in DOMAIN event_list /\ News(k, e.name)
    BY <1>2 DEF Carries, News, IsNew
  <2>2. PICK h \in DOMAIN event_list : h <= k /\ Dels(h, e.name)
    BY <1>2
  <2>3. h # k
    BY <2>1, <2>2 DEF Dels, News, IsNew, IsDel
  <2>4. h < k
    BY <1>d, <2>1, <2>2, <2>3
  <2> QED
    BY <1>2, <2>1, <2>2, <2>4 DEF ReadSetup, GoneInv, NoneBeforeNew
<1>4. MovesStay
  BY <1>1, <1>3 DEF MovesStay
<1>5. RemovalsStay
  <2> SUFFICES ASSUME NEW n \in Names, NEW x \in {0} \cup DOMAIN event_list, n # e.name,
                      NEW z \in DOMAIN event_list, z > x, Removes(z, n)
               PROVE  \E w \in DOMAIN event_list' : w > x /\ Removes(w, n)'
    BY <1>2 DEF RemovalsStay
  <2>1. z \notin B
    <3>1. CASE Carries(z, n)
      BY <1>3, <3>1
    <3>2. CASE Dels(z, n)
      BY <1>2, <3>2 DEF Dels
    <3> QED
      BY <3>1, <3>2 DEF Removes
  <2> QED
    BY <1>1, <2>1
<1>6. PICK L \in Nat : L = Len(event_list) + 1
  BY ReadLists
<1>7. /\ \A k \in DOMAIN event_list' : k \in DOMAIN event_list \/ k = L
      /\ event_list'[L].e.mask = "modify" /\ event_list'[L].e.name = e.name
  BY <1>0, <1>6, ReadLists DEF Adds
<1>8. \A n \in Names : /\ ~News(L, n)' /\ ~Carries(L, n)' /\ (Looks(L, n)' => n = e.name)
  BY <1>7 DEF News, Carries, Looks, Name, Mask, IsNew
<1>9. FromsAreRead
  <2>1. \A k \in moved_from : k \in DOMAIN event_list /\ event_list'[k].e.cookie = event_list[k].e.cookie
                              /\ event_list'[k].e.name = event_list[k].e.name
    BY <1>0, ReadLists DEF Keeps
  <2> QED
    BY <1>0, <2>1 DEF FromsAreRead, Name
<1>10. LooksAreRead /\ NothingElse
  BY <1>1, <1>2, <1>7, <1>8 DEF LooksAreRead, NothingElse
<1>11. NewsAreRead /\ MovesAreRead
  BY <1>1, <1>2, <1>7, <1>8 DEF NewsAreRead, MovesAreRead
<1> QED
  BY <1>4, <1>5, <1>9, <1>10, <1>11 DEF ReadGives

\* An event that is queued: the IN_MOVED_TO stands for the IN_MOVED_FROM that it claims.
LEMMA PlainGives == ASSUME NEW e, ReadSetup(e), ReadPlain(e) PROVE ReadGives
<1> DEFINE B == Claim(e)
<1>0. Hits(event_list, e) = {} /\ Keeps(B) /\ FlatTypes /\ Cookies
      /\ moved_from' = (moved_from \ B) \cup (IF e.mask = "from" THEN {Len(event_list) + 1} ELSE {})
  BY DEF ReadPlain, ReadSetup
<1>f. PICK f \in Nat : Adds(e, e.mask, f) /\ (IF Claim(e) = {} THEN f = 0 ELSE f \in Claim(e))
  BY DEF ReadPlain
<1>1. \A n \in Names, k \in DOMAIN event_list :
         /\ k \in DOMAIN event_list' /\ Name(k)' = Name(k)
         /\ k \in B => ~Looks(k, n)' /\ ~Removes(k, n)' /\ ~Carries(k, n)' /\ ~News(k, n)' /\ ~Dels(k, n)'
         /\ k \notin B => /\ Looks(k, n)' <=> Looks(k, n)
                          /\ Removes(k, n)' <=> Removes(k, n)
                          /\ Carries(k, n)' <=> Carries(k, n)
                          /\ News(k, n)' <=> News(k, n)
                          /\ Dels(k, n)' <=> Dels(k, n)
  BY <1>0, KeptAll
<1>2. /\ Pend = DOMAIN event_list
      /\ \A n \in Names : /\ DelAt(1, n) <=> (n = e.name /\ IsDel(e.mask))
                          /\ LookAt(1, n) <=> (n = e.name /\ IsLook(e.mask))
                          /\ NewAt(1, n) <=> (n = e.name /\ IsNew(e.mask))
      /\ \A z \in DOMAIN event_list : IsNew(e.mask) => ~Dels(z, e.name)
      /\ DOMAIN event_list \subseteq Nat
  BY <1>0, ReadLists
<1>3. \A k \in B : /\ k \in moved_from /\ k \in DOMAIN event_list /\ k = Len(event_list) /\ Mask(k) = "from" /\ Name(k) # e.name
                   /\ e.mask = "to" /\ event_list[k].e.cookie = e.cookie
  <2>1. Head(inot) = e
    BY TailIs DEF ReadSetup
  <2>2. \A k \in B : k \in moved_from /\ k = Len(event_list) /\ Mask(k) = "from" /\ Name(k) # e.name
    <3> SUFFICES ASSUME NEW k \in Claim(e)
                 PROVE  k \in moved_from /\ k = Len(event_list) /\ Mask(k) = "from" /\ Name(k) # e.name
      OBVIOUS
    <3>1. k \in Claim(Head(inot))
      BY <2>1, Zenon
    <3> QED
      BY <1>0, <2>1, <3>1, ClaimIs DEF ReadSetup
  <2>3. \A k \in B : e.mask = "to" /\ event_list[k].e.cookie = e.cookie
    BY DEF Claim
  <2> QED
    BY <2>2, <2>3, ReadLists
<1>b. IF B = {} THEN f = 0 ELSE f \in B
  BY <1>f
<1> HIDE DEF B
<1>4. PICK L \in Nat : L = Len(event_list) + 1
  BY ReadLists
<1>5. /\ \A k \in DOMAIN event_list' : k \in DOMAIN event_list \/ k = L
      /\ L \in DOMAIN event_list' /\ L \notin DOMAIN event_list /\ (\A k \in DOMAIN event_list : k < L)
      /\ event_list'[L].e.mask = e.mask /\ event_list'[L].e.name = e.name /\ event_list'[L].from = f
      /\ event_list'[L].e.cookie = e.cookie
  BY <1>f, <1>4, ReadLists DEF Adds
<1>6. \A n \in Names : /\ Looks(L, n)' <=> (n = e.name /\ IsLook(e.mask))
                       /\ Dels(L, n)' <=> (n = e.name /\ IsDel(e.mask))
                       /\ News(L, n)' <=> (n = e.name /\ IsNew(e.mask))
  BY <1>5 DEF News, Looks, Dels, Name, Mask
<1>7. \A n \in Names : Carries(L, n)' <=> (f \in B /\ Name(f) = n)
  <2>1. f \in B <=> f # 0 /\ e.mask = "to"
    BY <1>2, <1>3, <1>b, ReadLists
  <2>2. f \in B => Name(f)' = Name(f)
    BY <1>0, <1>3 DEF Keeps, Name
  <2> QED
    BY <1>5, <2>1, <2>2 DEF Carries, Name, Mask
<1>8. MovesStay
  <2>1. \A k \in B, n \in Names : ~Carries(k, n)
    BY <1>3 DEF Carries
  <2> QED
    BY <1>1, <2>1 DEF MovesStay
<1>9. RemovalsStay
  <2> SUFFICES ASSUME NEW n \in Names, NEW x \in {0} \cup DOMAIN event_list,
                      (\E z \in DOMAIN event_list : z > x /\ Removes(z, n)) \/ DelAt(1, n)
               PROVE  \E w \in DOMAIN event_list' : w > x /\ Removes(w, n)'
    BY DEF RemovalsStay
  <2>0. L > x
    BY <1>4, <1>5
  <2>1. CASE DelAt(1, n)
    BY <1>2, <1>5, <1>6, <2>0, <2>1 DEF Removes
  <2>2. ASSUME NEW z \in DOMAIN event_list, z > x, Removes(z, n)
        PROVE  \E w \in DOMAIN event_list' : w > x /\ Removes(w, n)'
    <3>1. CASE z \notin B
      BY <1>1, <2>2, <3>1
    <3>2. CASE z \in B
      <4>1. Name(z) = n
        BY <1>3, <2>2, <3>2 DEF Removes, Dels, Carries
      <4>2. f = z
        BY <1>3, <1>b, <3>2
      <4>3. Carries(L, n)'
        BY <1>7, <3>2, <4>1, <4>2
      <4> QED
        BY <1>5, <2>0, <4>3 DEF Removes
    <3> QED
      BY <3>1, <3>2
  <2> QED
    BY <2>1, <2>2
<1>10. LooksAreRead /\ NothingElse
  BY <1>1, <1>2, <1>5, <1>6 DEF LooksAreRead, NothingElse
<1>11. NewsAreRead
  BY <1>1, <1>2, <1>4, <1>5, <1>6 DEF NewsAreRead
<1>12. MovesAreRead
  <2> SUFFICES ASSUME NEW n \in Names, NEW k \in DOMAIN event_list', Carries(k, n)'
               PROVE  \/ k \in DOMAIN event_list /\ Carries(k, n) /\ Name(k)' = Name(k)
                      \/ /\ inot[1].mask = "to" /\ Name(k)' = inot[1].name
                         /\ \E g \in moved_from : event_list[g].e.cookie = inot[1].cookie /\ Name(g) = n
    BY DEF MovesAreRead
  <2>1. CASE k \in DOMAIN event_list
    BY <1>1, <2>1
  <2>2. CASE k = L
    <3>1. f \in B /\ Name(f) = n
      BY <1>7, <2>2
    <3>2. Name(k)' = e.name
      BY <1>5, <2>2 DEF Name
    <3> QED
      BY <1>3, <3>1, <3>2 DEF ReadSetup
  <2> QED
    BY <1>5, <2>1, <2>2
<1>13. FromsAreRead
  <2> SUFFICES ASSUME NEW k \in moved_from'
               PROVE  \/ /\ k \in moved_from /\ event_list'[k].e.cookie = event_list[k].e.cookie
                         /\ Name(k)' = Name(k)
                      \/ /\ inot[1].mask = "from" /\ event_list'[k].e.cookie = inot[1].cookie
                         /\ Name(k)' = inot[1].name
    BY DEF FromsAreRead
  <2>1. CASE k \in moved_from
    <3>1. k \in DOMAIN event_list
      BY <2>1, ReadLists
    <3> QED
      BY <1>0, <2>1, <3>1 DEF Keeps, Name
  <2>2. CASE e.mask = "from" /\ k = L
    BY <1>5, <2>2 DEF ReadSetup, Name
  <2> QED
    BY <1>0, <1>4, <2>1, <2>2
<1> QED
  BY <1>8, <1>9, <1>10, <1>11, <1>12, <1>13 DEF ReadGives

\* queue_event() keeps GoneInv.
LEMMA GoneReads == ASSUME FlatTypes, Cookies, GoneInv, QueueEvent PROVE GoneInv'
<1>1. /\ inot # <<>> /\ Head(inot) \in FE /\ inot' = Tail(inot) /\ cur = 0 /\ cur' = 0
      /\ Read(Head(inot)) /\ event_list' \in Seq(FI)
      /\ UNCHANGED <<file, db, behind, lost>>
  BY QueueIs
<1> PICK e : e = Head(inot)
  OBVIOUS
<1>2. Read(e)
  BY <1>1, Zenon
<1>3. e = inot[1] /\ 1 \in DOMAIN inot
  BY <1>1, TailIs
<1>4. e.name \in Names /\ e.mask \in FileMasks /\ e.wd = Top /\ e.dir = FALSE
  BY <1>3, FlatItems
<1>5. ReadSetup(e)
  BY <1>1, <1>3, <1>4 DEF ReadSetup
<1>6. ReadGives
  BY <1>2, <1>5, DupGives, DropGives, AgainGives, PlainGives DEF Read
<1> QED
  BY <1>1, <1>6, GoneQueue

\* Every step keeps GoneInv.
LEMMA GoneNext == ASSUME Flat PROVE FlatTypes /\ KnownInv /\ GoneInv /\ [Next]_vars => GoneInv'
<1> SUFFICES ASSUME FlatTypes, KnownInv, GoneInv, [Next]_vars PROVE GoneInv'
  OBVIOUS
<1>0. Cookies /\ NewIsFlagged /\ BehindType
  BY DEF KnownInv, GoneInv
<1>1. CASE User
  BY <1>0, <1>1, UserStill, UserLeft, GoneUser
<1>2. CASE QueueEvent
  BY <1>0, <1>2, GoneReads
<1>3. CASE Flush \/ FlushDone
  BY <1>3, GoneFlush
<1>4. CASE Handle
  <2>1. cur \in DOMAIN event_list
    BY <1>4 DEF Handle
  <2>2. Handled
    BY <1>0, <1>4, FlatHandled
  <2> QED
    BY <2>1, <2>2, GoneHandle
<1>5. CASE UNCHANGED vars
  <2>1. UNCHANGED <<file, inot, event_list, moved_from, cur, db, behind, lost>>
    BY <1>5 DEF vars
  <2>2. \A j, n : /\ LookAt(j, n)' <=> LookAt(j, n)
                  /\ DelAt(j, n)' <=> DelAt(j, n)
                  /\ NewAt(j, n)' <=> NewAt(j, n)
    BY <2>1 DEF LookAt, DelAt, NewAt
  <2>3. /\ \A x, y, n : DelBetween(x, y, n)' <=> DelBetween(x, y, n)
        /\ \A n, m, j : Behind(n, m, j)' <=> Behind(n, m, j)
        /\ \A n, j : Spared(n, j)' <=> Spared(n, j)
        /\ \A n : Excused(n)' <=> Excused(n)
    BY <2>1 DEF DelBetween, Behind, NoDelAfter, DelAt, Spared, Excused
  <2>4. /\ Pend' = Pend
        /\ \A k, n : /\ Looks(k, n)' <=> Looks(k, n)
                     /\ Removes(k, n)' <=> Removes(k, n)
                     /\ Carries(k, n)' <=> Carries(k, n)
                     /\ News(k, n)' <=> News(k, n)
                     /\ Dels(k, n)' <=> Dels(k, n)
                     /\ Name(k)' = Name(k)
    BY <2>1 DEF Pend, Looks, Removes, Dels, Carries, News, Name, Mask
  <2>5. GoneIsTold' /\ SeenAndGone' /\ NoneBeforeNew' /\ BehindType'
    BY <2>1, <2>2, <2>3, <2>4 DEF GoneInv, GoneIsTold, SeenAndGone, NoneBeforeNew, BehindType
  <2>6. SeenAndNew'
    BY <2>1, <2>2, <2>3, <2>4 DEF GoneInv, SeenAndNew
  <2>7. KnownAndNew'
    BY <2>1, <2>2, <2>3, <2>4 DEF GoneInv, KnownAndNew
  <2>8. MovesAreBehind'
    BY <2>1, <2>3, <2>4 DEF GoneInv, MovesAreBehind
  <2> QED
    BY <2>5, <2>6, <2>7, <2>8 DEF GoneInv
<1> QED
  BY <1>1, <1>2, <1>3, <1>4, <1>5 DEF Next

\* In a project whose directories are left alone, disk and database differ only where an
\* event in the kernel's queue or in event_list still tells of it, or where the code loses
\* it (lost): whatever ephemeral_event() and check_from_events() have cancelled.
THEOREM FlatInvariance == ASSUME Flat PROVE Spec => []FlatInv
<1>1. Init => FlatTypes /\ KnownInv /\ GoneInv
  BY KnownInit, GoneInit
<1>2. FlatTypes /\ KnownInv /\ GoneInv /\ [Next]_vars => (FlatTypes /\ KnownInv /\ GoneInv)'
  BY KnownNext, GoneNext
<1>3. FlatTypes /\ KnownInv /\ GoneInv => FlatInv
  BY DEF FlatInv
<1> QED
  BY <1>1, <1>2, <1>3, PTL DEF Spec

\* A file that is gone has left the database when all events are handled, or its command
\* is flagged; but for the names whose removal stood behind a move that was undone.
THEOREM GoneBecomesNoticed == ASSUME Flat PROVE Spec => []GoneIsNoticed
<1>1. FlatInv => GoneIsNoticed
  BY QuietMeansGone DEF FlatInv
<1> QED
  BY <1>1, FlatInvariance, PTL

\* When the monitor has handled all events, every file there is has its node with the mtime
\* it has now (queue_event(), flush_queue(), handle_event()), for any number of files and
\* operations in a project whose directories are left alone.
THEOREM DiskBecomesKnown == ASSUME Flat PROVE Spec => []DiskIsKnown
<1>1. FlatInv => DiskIsKnown
  BY QuietMeansKnown DEF FlatInv
<1> QED
  BY <1>1, FlatInvariance, PTL

\* An edit is flagged for the next update when all events are handled, whichever events
\* were cancelled on the way.
THEOREM EditsBecomeFlagged == ASSUME Flat PROVE Spec => []EditsAreFlagged
<1>1. FlatInv => EditsAreFlagged
  BY QuietMeansKnown DEF FlatInv
<1> QED
  BY <1>1, FlatInvariance, PTL
=============================================================================
