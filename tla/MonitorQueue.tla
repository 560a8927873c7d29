---------------------------- MODULE MonitorQueue ----------------------------
(***************************************************************************)
(* From file system to database through the monitor: queue_event() reads   *)
(* inotify events into event_list and cancels what belongs together;       *)
(* flush_queue() later handles what is left, by looking at the files as    *)
(* they are by then.  Whoever uses the project meanwhile goes on creating, *)
(* editing, moving and removing files and directories.                     *)
(*                                                                         *)
(* There is one level of directories, with one file in each.  The kernel's *)
(* queue does not overflow here (module TriLock has that case), and the    *)
(* monitor has the object lock whenever it flushes.                        *)
(***************************************************************************)
EXTENDS Integers, Sequences, FiniteSets, SequencesExt

CONSTANTS Names,      \* names in the top directory
          Generated,  \* those of them that a command makes
          Out,        \* anywhere outside the project
          Gone,       \* a directory that was removed, or is not made yet
          Kid,        \* the one name in a subdirectory
          Dirs,       \* directories (inodes) there can be: 1 .. n
          MaxOps,     \* bound on what happens to the files
          Kinds       \* the operations that do happen

ASSUME MonitorQueueAssumption ==
    /\ Generated \subseteq Names
    /\ MaxOps \in Nat
    /\ IsFiniteSet(Dirs) /\ Dirs = 1 .. Cardinality(Dirs)
    /\ \A n \in Names \cup {Out, Gone, Kid} : n \notin Int
    /\ {Out, Gone, Kid} \cap Names = {} /\ Out # Gone

Top == 0              \* the top directory: its inode, its node, its watch
None == -1            \* no entry in the dircache
Disabled == -2        \* dt_node.tupid = -1
Wds == 0 .. MaxOps    \* watch descriptors
Tids == 1 .. MaxOps   \* nodes of subdirectories
Ver == 0 .. MaxOps + 2
DirVer == MaxOps + 2  \* what lstat() says of a directory's mtime

Place == Names \cup Dirs \cup {Out}

VARIABLES
    file,        \* mtime of the file in a place, 0 if there is none
    where,       \* the name each directory has, Out or Gone
    ops,         \* operations so far; also the clock and the rename cookie
    watch,       \* the watch on each directory, 0 if there is none
    nwd,         \* watch descriptors handed out
    inot,        \* the kernel's queue
    event_list,  \* what the monitor has read
    moved_from,  \* moved_from_list: indices into event_list
    dangling,    \* moved_from_list refers to an event that was freed
    cur, step,   \* flush_queue(): event at hand, and where in watch_path()
    dircache,    \* watch descriptor -> node of the directory
    db,          \* the database
    alive,       \* the monitor has not given up
    behind, lost, asfile   \* history, for the properties only

user == <<file, where, ops, behind, lost, asfile>>
kernel == <<watch, nwd, inot>>
queue == <<event_list, moved_from, dangling>>
vars == <<file, where, ops, watch, nwd, inot, event_list, moved_from, dangling,
          cur, step, dircache, db, alive, behind, lost, asfile>>

Event == [wd : Wds, name : Names \cup {Kid, Gone}, dir : BOOLEAN, cookie : 0 .. MaxOps,
          mask : {"create", "modify", "delete", "from", "to", "ignored", "none"}]

TypeOK ==
    /\ file \in [Place -> Ver]
    /\ where \in [Dirs -> Names \cup {Out, Gone}]
    /\ ops \in 0 .. MaxOps /\ nwd \in Wds
    /\ watch \in [Dirs -> Wds]
    /\ \A k \in DOMAIN inot : inot[k] \in Event
    /\ \A k \in DOMAIN event_list :
         event_list[k].e \in Event /\ event_list[k].from \in 0 .. k - 1
    /\ moved_from \subseteq DOMAIN event_list
    /\ cur \in 0 .. Len(event_list) + 1
    /\ step \in {"handle", "watch", "scan"}
    /\ dircache \in [Wds -> Tids \cup {Top, None, Disabled}]
    /\ db \in [file : [Names \cup Tids -> Ver], dir : [Names -> Tids \cup {0}],
               create : SUBSET (Tids \cup {Top}), modify : SUBSET (Names \cup Tids),
               rerun : SUBSET Generated]
    /\ dangling \in BOOLEAN /\ alive \in BOOLEAN
    /\ behind \in [Place -> SUBSET Place]
    /\ lost \subseteq Place /\ asfile \in BOOLEAN

Init ==
    /\ file = [p \in Place |-> IF p \in Names THEN 1 ELSE 0]
    /\ where = [i \in Dirs |-> Gone]
    /\ ops = 0 /\ nwd = 0 /\ inot = <<>>
    /\ watch = [i \in Dirs |-> 0]
    /\ event_list = <<>> /\ moved_from = {} /\ dangling = FALSE
    /\ cur = 0 /\ step = "handle" /\ alive = TRUE
    /\ dircache = [w \in Wds |-> IF w = Top THEN Top ELSE None]
    /\ db = [file |-> [p \in Names \cup Tids |-> IF p \in Names THEN 1 ELSE 0],
             dir |-> [n \in Names |-> 0],
             create |-> {}, modify |-> {}, rerun |-> {}]
    /\ behind = [p \in Place |-> {}] /\ lost = {} /\ asfile = FALSE

-----------------------------------------------------------------------------
(* The files.                                                              *)

InodeAt(n) == {i \in Dirs : where[i] = n}

\* A file can be made in a place: the name is free or the directory is there.
Room(p) == \/ p = Out
           \/ p \in Names /\ InodeAt(p) = {}
           \/ p \in Dirs /\ where[p] # Gone

Watched(p) == p \in Names \/ (p \in Dirs /\ watch[p] # 0)

Ev(p, m) == [wd |-> IF p \in Dirs THEN watch[p] ELSE Top,
             name |-> IF p \in Dirs THEN Kid ELSE p,
             dir |-> FALSE, cookie |-> 0, mask |-> m]

\* The events the kernel sends for a place: it merges equal neighbours.
Notify(q, p, m, cookie) ==
    LET e == [Ev(p, m) EXCEPT !.cookie = cookie]
    IN  IF ~Watched(p) \/ (q # <<>> /\ Last(q) = e) THEN q ELSE Append(q, e)

NotifyDir(q, n, m, cookie) ==
    IF n = Out THEN q
    ELSE Append(q, [Ev(n, m) EXCEPT !.cookie = cookie, !.dir = TRUE])

Ignored(w) == [wd |-> w, name |-> Gone, dir |-> FALSE, cookie |-> 0, mask |-> "ignored"]

Tick(kind) == /\ kind \in Kinds
              /\ ops < MaxOps /\ alive    \* nobody watches any more
              /\ ops' = ops + 1
              /\ UNCHANGED <<queue, cur, step, dircache, db, alive, nwd>>

\* The file that a move brought to p goes away: the names whose removal the events of
\* that move stood for may never be seen to be gone.
Forget(p) == lost' = lost \cup behind[p]

\* watch_path() is about to look into the directory that has just got this file.
Peek(p) ==
    IF /\ p \in Dirs
       /\ \E e \in ToSet(inot) \cup {x.e : x \in ToSet(event_list)} :
            e.dir /\ e.name = where[p] /\ e.mask \in {"create", "to"}
    THEN {p} ELSE {}

Create(p) ==
    /\ Tick("create")
    /\ Room(p) /\ file[p] = 0
    /\ file' = [file EXCEPT ![p] = ops + 2]
    /\ inot' = Notify(inot, p, "create", 0)
    /\ behind' = [behind EXCEPT ![p] = @ \cup Peek(p)]
    /\ UNCHANGED <<where, watch, lost, asfile>>

Edit(p) ==
    /\ Tick("edit")
    /\ file[p] # 0
    /\ file' = [file EXCEPT ![p] = ops + 2]
    /\ inot' = Notify(inot, p, "modify", 0)
    /\ UNCHANGED <<where, watch, behind, lost, asfile>>

Delete(p) ==
    /\ Tick("delete")
    /\ file[p] # 0
    /\ file' = [file EXCEPT ![p] = 0]
    /\ inot' = Notify(inot, p, "delete", 0)
    /\ Forget(p)
    /\ behind' = [behind EXCEPT ![p] = {}]
    /\ UNCHANGED <<where, watch, asfile>>

Move(p, q) ==
    /\ Tick("move")
    /\ p # q /\ file[p] # 0 /\ Room(q)
    /\ file' = [file EXCEPT ![q] = file[p], ![p] = 0]
    /\ inot' = Notify(Notify(inot, p, "from", ops + 1), q, "to", ops + 1)
    /\ Forget(p)
    /\ behind' = [behind EXCEPT ![p] = {},
                   ![q] = @ \cup Peek(q) \cup (IF Watched(p) THEN {p} ELSE {})
                            \cup (IF file[q] # 0 THEN {q} ELSE {})]
    /\ UNCHANGED <<where, watch, asfile>>

Mkdir(i, n) ==
    /\ Tick("mkdir")
    /\ where[i] = Gone /\ file[i] = 0 /\ watch[i] = 0
    /\ n \notin Generated /\ InodeAt(n) = {}
    /\ n = Out \/ file[n] = 0
    /\ where' = [where EXCEPT ![i] = n]
    /\ inot' = NotifyDir(inot, n, "create", 0)
    /\ UNCHANGED <<file, watch, behind, lost, asfile>>

Rmdir(i) ==
    /\ Tick("rmdir")
    /\ where[i] # Gone /\ file[i] = 0
    /\ where' = [where EXCEPT ![i] = Gone]
    /\ watch' = [watch EXCEPT ![i] = 0]
    /\ inot' = NotifyDir(IF watch[i] = 0 THEN inot ELSE Append(inot, Ignored(watch[i])),
                         where[i], "delete", 0)
    /\ UNCHANGED <<file, behind, lost, asfile>>

MoveDir(i, n) ==
    /\ Tick("movedir")
    /\ where[i] \notin {Gone, n} /\ n \notin Generated
    /\ n = Out \/ (InodeAt(n) = {} /\ file[n] = 0)
    /\ where' = [where EXCEPT ![i] = n]
    /\ inot' = NotifyDir(NotifyDir(inot, where[i], "from", ops + 1), n, "to", ops + 1)
    /\ UNCHANGED <<file, watch, behind, lost, asfile>>

User == \/ \E p \in Place : Create(p) \/ Edit(p) \/ Delete(p)
        \/ \E p, q \in Place : Move(p, q)
        \/ \E i \in Dirs : Rmdir(i) \/ \E n \in Names \cup {Out} : Mkdir(i, n) \/ MoveDir(i, n)

-----------------------------------------------------------------------------
(* queue_event().                                                          *)

IsNew(m) == m \in {"create", "to"}
IsDel(m) == m \in {"delete", "from"}

\* Mutant: a file that is removed and made again cancels out like one that is made and
\* removed.
EphemeralBoth(list, e) ==
    LET Same(x) == x.e.wd = e.wd /\ x.e.name = e.name
        Opposite(x) == (IsNew(x.e.mask) /\ IsDel(e.mask)) \/ (IsDel(x.e.mask) /\ IsNew(e.mask))
        hit == ~e.dir /\ \E x \in ToSet(list) : Same(x) /\ Opposite(x)
    IN  [mask |-> e.mask, drop |-> hit,
         list |-> [k \in DOMAIN list |-> IF hit /\ Same(list[k])
                                         THEN [list[k] EXCEPT !.e.mask = "none"] ELSE list[k]]]

\* ephemeral_event(): hits are the events of event_list that the new event e undoes.
\* What was made and is now removed leaves no trace; what was removed and is made again
\* is one modification.  Whatever else came after a hit goes with it.
Ephemeral(list, e) ==
    LET Same(k) == list[k].e.wd = e.wd /\ list[k].e.name = e.name
        Undone(m) == (IsNew(m) /\ IsDel(e.mask)) \/ (IsDel(m) /\ IsNew(e.mask))
        hits == {k \in DOMAIN list : ~e.dir /\ Same(k) /\ Undone(list[k].e.mask)}
    IN  [mask |-> IF hits # {} /\ IsNew(e.mask) THEN "modify" ELSE e.mask,
         drop |-> hits # {} /\ IsDel(e.mask),
         list |-> [k \in DOMAIN list |-> IF Same(k) /\ \E h \in hits : h <= k
                                         THEN [list[k] EXCEPT !.e.mask = "none"] ELSE list[k]]]

\* The monitor reads an event.
QueueEvent ==
    /\ alive /\ cur = 0 /\ inot # <<>>
    /\ inot' = Tail(inot)
    /\ LET e == Head(inot)
           r == Ephemeral(event_list, e)
           dup == event_list # <<>> /\ Last(event_list).e = e
           froms == {k \in moved_from : e.cookie = event_list[k].e.cookie}
           claim == IF r.mask = "to" THEN froms ELSE {}
           list == [k \in DOMAIN r.list |->
                      IF k \in claim THEN [r.list[k] EXCEPT !.e.mask = "none"] ELSE r.list[k]]
           new == Len(list) + 1
       IN  IF dup THEN UNCHANGED <<event_list, moved_from, dircache, alive>>
           ELSE IF r.drop THEN
             /\ event_list' = r.list
             /\ UNCHANGED <<moved_from, dircache, alive>>
           ELSE
             /\ event_list' = Append(list,
                    [e |-> [e EXCEPT !.mask = r.mask],
                     from |-> IF claim = {} THEN 0 ELSE CHOOSE k \in claim : TRUE])
             /\ moved_from' = (moved_from \ claim) \cup
                              (IF r.mask = "from" THEN {new} ELSE {})
             /\ dircache' = IF e.mask = "ignored" /\ dircache[e.wd] # None
                            THEN [dircache EXCEPT ![e.wd] = Disabled] ELSE dircache
             \* check_from_events() looks into freed memory: what it finds there is
             \* no event of the queue, and following it ends the monitor.
             /\ alive' \in IF r.mask = "to" /\ dangling THEN BOOLEAN ELSE {TRUE}
    /\ UNCHANGED <<user, watch, nwd, dangling, cur, step, db>>

-----------------------------------------------------------------------------
(* What the handlers do to the database.  s is [db, cache, watch, gone, ok]. *)

NodeAt(t, n) == IF t = Top THEN n ELSE t      \* a file node: its place in db.file

\* tup_db_chdir(): the directory that has the node's name now.
Inode(s, t) == IF t = Top THEN {Top}
               ELSE UNION {InodeAt(n) : n \in {m \in Names : s.db.dir[m] = t}}

\* lstat() of a name in a directory that exists.
Lstat(i, n) == IF i # Top THEN file[i]
               ELSE IF InodeAt(n) # {} THEN DirVer ELSE file[n]

\* monitor_rmdir_cb(): the kernel answers with IN_IGNORED.
RmdirCb(s, t) ==
    LET ws == {w \in Wds : s.cache[w] = t}
    IN  [s EXCEPT !.cache = [w \in Wds |-> IF w \in ws THEN None ELSE s.cache[w]],
                  !.watch = [i \in Dirs |-> IF s.watch[i] \in ws THEN 0 ELSE s.watch[i]],
                  !.gone = s.gone \o SetToSeq({Ignored(w) : w \in {s.watch[i] : i \in Dirs}
                                                                   \cap (ws \ {0})})]

\* tup_del_id_type() of a directory, and of all that is below.
DelDir(s, n) ==
    LET t == s.db.dir[n]
        r == RmdirCb(s, t)
    IN  [r EXCEPT !.db.dir[n] = 0, !.db.file[t] = 0,
                  !.db.modify = @ \ {t}, !.db.create = (@ \ {t}) \cup {Top}]

\* tup_file_del(), tup_file_missing()
FileDel(s, t, n) ==
    LET p == NodeAt(t, n)
    IN  IF t = Top /\ s.db.dir[n] # 0 THEN DelDir(s, n)
        ELSE IF s.db.file[p] = 0 THEN s
        ELSE IF p \in Generated
        THEN [s EXCEPT !.db.rerun = @ \cup {p}, !.db.modify = @ \ {p}]
        ELSE [s EXCEPT !.db.file[p] = 0, !.db.modify = @ \ {p}, !.db.create = @ \cup {t}]

\* tup_file_mod_mtime()
FileModMtime(s, t, n, v, force) ==
    LET p == NodeAt(t, n)
        overwrite == t = Top /\ s.db.dir[n] # 0
        r == IF overwrite THEN DelDir(s, n) ELSE s
        new == r.db.file[p] = 0
        changed == \/ overwrite
                   \/ ~new /\ (s.db.file[p] # v \/ (force /\ p \notin Generated))
    IN  [r EXCEPT !.db.file[p] = v,
                  !.db.create = IF new THEN @ \cup {t} ELSE @,
                  !.db.modify = IF changed THEN @ \cup {p} ELSE @,
                  !.db.rerun = IF changed /\ p \in Generated THEN @ \cup {p} ELSE @]

Fail(s) == [s EXCEPT !.ok = FALSE]

\* Mutant: a file that is gone by the time its event is handled is an error.
FileModStrict(s, t, n) ==
    LET i == Inode(s, t)
    IN  IF i = {} THEN Fail(s)
        ELSE LET v == Lstat(CHOOSE x \in i : TRUE, n)
             IN  IF v = 0 THEN Fail(s) ELSE FileModMtime(s, t, n, v, TRUE)

\* tup_file_mod()
FileMod(s, t, n) ==
    LET i == Inode(s, t)
    IN  IF i = {} THEN Fail(s)
        ELSE LET v == Lstat(CHOOSE x \in i : TRUE, n)
             IN  IF v = 0 THEN FileDel(s, t, n) ELSE FileModMtime(s, t, n, v, TRUE)

\* tup_db_create_node(TUP_NODE_DIR)
CreateDirNode(s, n) ==
    IF s.db.dir[n] # 0 THEN s
    ELSE LET t == CHOOSE x \in Tids : /\ \A m \in Names : s.db.dir[m] # x
                                      /\ \A y \in 1 .. x - 1 : \E m \in Names : s.db.dir[m] = y
         IN  [s EXCEPT !.db.dir[n] = t, !.db.file[n] = 0, !.db.modify = @ \ {n}]

\* watch_path(): file case and the first step of the directory case.
WatchPath(s, t, n) ==
    LET i == Inode(s, t)
        v == Lstat(CHOOSE x \in i : TRUE, n)
    IN  IF i = {} THEN Fail(s)
        ELSE IF v = 0 THEN s
        ELSE IF v = DirVer THEN CreateDirNode(s, n)
        ELSE FileModMtime(s, t, n, v, FALSE)

\* tup_db_change_node(): the directory's node gets another name.
ChangeNode(s, from, n) ==
    LET t == s.db.dir[from]
    IN  IF s.db.dir[n] # 0 \/ s.db.file[n] # 0 THEN Fail(s)
        ELSE IF t = 0
        THEN [s EXCEPT !.db.file[n] = s.db.file[from], !.db.file[from] = 0,
                       !.db.modify = (@ \ {from}) \cup {n}]
        ELSE [s EXCEPT !.db.dir[n] = t, !.db.dir[from] = 0,
                       !.db.create = @ \cup {t},
                       !.db.modify = IF s.db.file[t] = 0 THEN @ ELSE @ \cup {t}]

-----------------------------------------------------------------------------
(* flush_queue() and handle_event().                                       *)

Flush ==
    /\ alive /\ cur = 0 /\ event_list # <<>>
    /\ cur' = 1
    /\ UNCHANGED <<user, kernel, queue, step, dircache, db, alive>>

FlushDone ==
    /\ alive /\ cur = Len(event_list) + 1 /\ cur # 0
    /\ cur' = 0
    /\ event_list' = <<>> /\ moved_from' = {}
    /\ dangling' = (dangling \/ moved_from # {})
    /\ UNCHANGED <<user, kernel, step, dircache, db, alive>>

State == [db |-> db, cache |-> dircache, watch |-> watch, gone |-> <<>>, ok |-> TRUE]

Save(s) ==
    /\ db' = s.db /\ dircache' = s.cache /\ watch' = s.watch
    /\ inot' = inot \o s.gone
    /\ alive' = s.ok

M == event_list[cur]
E == M.e
Dt == dircache[E.wd]
HasFrom == E.mask = "to" /\ M.from # 0
FromE == event_list[M.from].e
FromDt == dircache[FromE.wd]

\* The last part of a create: an unmatched IN_MOVED_TO is a modification, too.
AfterCreate(s, t, n) ==
    IF E.mask = "to" /\ ~HasFrom /\ s.ok /\ NodeAt(t, n) \notin Generated
       /\ (s.db.file[NodeAt(t, n)] # 0 \/ (t = Top /\ s.db.dir[n] # 0))
    THEN FileMod(s, t, n) ELSE s

\* The event is one on a directory that is there: watch_path() goes on.
GoesOn(s, n) == s.ok /\ Dt = Top /\ InodeAt(n) # {} /\ (HasFrom => E.dir)

NextEvent == cur' = cur + 1 /\ step' = "handle"

\* The handler is done; an error ends flush_queue() and the monitor.
Done(s) == Save(s) /\ IF s.ok THEN NextEvent ELSE UNCHANGED <<cur, step>>

Skipped == \/ E.mask = "none"
           \/ E.mask # "ignored" /\ Dt = Disabled

\* Mask 0, or the directory's dircache entry is disabled.
HandleSkipped ==
    /\ Skipped
    /\ NextEvent
    /\ UNCHANGED <<user, kernel, queue, dircache, db, alive>>

HandleIgnored ==
    /\ E.mask = "ignored"
    /\ NextEvent
    /\ dircache' = [dircache EXCEPT ![E.wd] = None]
    /\ UNCHANGED <<user, kernel, queue, db, alive>>

\* "dircache entry not found"
HandleUnknown ==
    /\ ~Skipped /\ E.mask # "ignored" /\ Dt = None
    /\ alive' = FALSE
    /\ UNCHANGED <<user, kernel, queue, cur, step, dircache, db>>

HandleMovedFile ==
    /\ ~Skipped /\ Dt \notin {None, Disabled}
    /\ HasFrom /\ ~E.dir
    /\ Done(IF FromDt \in {None, Disabled} THEN Fail(State)
            ELSE LET s == FileMod(State, Dt, E.name)
                 IN  IF s.ok THEN FileDel(s, FromDt, FromE.name) ELSE s)
    /\ UNCHANGED <<user, queue, nwd>>

HandleCreate ==
    /\ ~Skipped /\ Dt \notin {None, Disabled}
    /\ IsNew(E.mask) /\ (HasFrom => E.dir)
    /\ LET r == IF ~HasFrom THEN State
                ELSE IF db.dir[FromE.name] = 0 /\ db.file[FromE.name] = 0 THEN Fail(State)
                ELSE ChangeNode(State, FromE.name, E.name)
           s == IF r.ok THEN WatchPath(r, Dt, E.name) ELSE r
       IN  IF GoesOn(s, E.name)
           THEN Save(s) /\ step' = "watch" /\ UNCHANGED cur
           ELSE Done(AfterCreate(s, Dt, E.name))
    /\ UNCHANGED <<user, queue, nwd>>

\* wp_callback(): the name may be something else by now.
WatchDir ==
    /\ step = "watch"
    /\ LET n == E.name
           is == InodeAt(n)
           i == CHOOSE x \in is : TRUE
           w == IF watch[i] = 0 THEN nwd + 1 ELSE watch[i]
       IN  IF is # {}
           THEN /\ nwd' = IF watch[i] = 0 THEN nwd + 1 ELSE nwd
                /\ Save([State EXCEPT !.watch[i] = w, !.cache[w] = db.dir[n]])
                /\ step' = "scan" /\ UNCHANGED cur
           ELSE /\ Done(IF file[n] # 0 THEN Fail(State) ELSE FileDel(State, Top, n))
                /\ UNCHANGED nwd
    /\ UNCHANGED <<user, queue>>

\* Mutant: the directory is watched and not looked into.
ScanDirNot ==
    /\ step = "scan"
    /\ NextEvent
    /\ UNCHANGED <<user, kernel, queue, dircache, db, alive>>

\* The rest of watch_path(): what is in the directory, and what is not any more.
ScanDir ==
    /\ step = "scan"
    /\ LET n == E.name
           t == db.dir[n]
           is == InodeAt(n)
           i == CHOOSE x \in is : TRUE
           s == IF is = {}
                THEN IF file[n] # 0 THEN Fail(State) ELSE FileDel(State, Top, n)
                ELSE IF file[i] # 0 THEN FileModMtime(State, t, Kid, file[i], FALSE)
                ELSE FileDel(State, t, Kid)
           r == IF is = {} THEN s ELSE AfterCreate(s, Top, n)
       IN  Done(r)
    /\ asfile' = (asfile \/ (E.mask = "to" /\ ~HasFrom /\ InodeAt(E.name) # {}))
    /\ UNCHANGED <<file, where, ops, behind, lost, queue, nwd>>

HandleModify ==
    /\ ~Skipped /\ Dt \notin {None, Disabled}
    /\ E.mask = "modify"
    /\ Done(FileMod(State, Dt, E.name))
    /\ UNCHANGED <<user, queue, nwd>>

\* Mutant: an IN_MOVED_FROM that nobody claimed is passed over.
HandleDeleteOnly ==
    /\ ~Skipped /\ Dt \notin {None, Disabled}
    /\ IsDel(E.mask)
    /\ Done(IF E.mask = "from" THEN State ELSE FileDel(State, Dt, E.name))
    /\ moved_from' = moved_from \ {cur}
    /\ UNCHANGED <<user, event_list, dangling, nwd>>

\* IN_DELETE, or an IN_MOVED_FROM that nobody claimed.
HandleDelete ==
    /\ ~Skipped /\ Dt \notin {None, Disabled}
    /\ IsDel(E.mask)
    /\ Done(FileDel(State, Dt, E.name))
    /\ moved_from' = moved_from \ {cur}
    /\ UNCHANGED <<user, event_list, dangling, nwd>>

Handle ==
    /\ alive /\ cur \in DOMAIN event_list
    /\ \/ /\ step = "handle"
          /\ \/ HandleSkipped \/ HandleIgnored \/ HandleUnknown \/ HandleMovedFile
             \/ HandleCreate \/ HandleModify \/ HandleDelete
       \/ WatchDir
       \/ ScanDir

Next == User \/ QueueEvent \/ Flush \/ FlushDone \/ Handle

Spec == Init /\ [][Next]_vars

-----------------------------------------------------------------------------
(* Properties.                                                             *)

\* Nothing is left in the kernel's queue or in event_list.
Quiet == alive /\ inot = <<>> /\ event_list = <<>>

\* What is on disk is in the database: when the monitor has handled all events,
\* every file and directory of the project has its node with the mtime it has now,
\* and every directory is watched and mapped to that node.  (But for a directory
\* with an unmatched IN_MOVED_TO, as when it was moved in from outside: handle_event()
\* makes a file of it.)
DiskIsKnown ==
    Quiet /\ ~asfile =>
      /\ \A n \in Names : file[n] # 0 => db.file[n] = file[n]
      /\ \A i \in Dirs : where[i] \in Names =>
           LET t == db.dir[where[i]]
           IN  /\ t # 0 /\ watch[i] # 0 /\ dircache[watch[i]] = t
               /\ file[i] # 0 => db.file[t] = file[i]

\* What the database has is on disk, when the monitor has handled all events; a
\* generated file that is missing has its command flagged.  (But for a file that
\* was moved or written over by a move, when what was moved there went away as well:
\* the events of that name cancel each other, and nothing else tells of the loss.  The
\* same goes for a file that watch_path() has seen before its events are read.)
GoneIsNoticed ==
    Quiet /\ ~asfile =>
      /\ \A n \in Names :
           /\ db.file[n] # 0 /\ file[n] = 0 => n \in lost \cup db.rerun
           /\ db.dir[n] # 0 => InodeAt(n) # {}
      /\ \A i \in Dirs : where[i] \in Names /\ file[i] = 0 =>
           db.file[db.dir[where[i]]] = 0 \/ i \in lost

\* The same without the exception: a move is a delete of the old name and a create
\* of the new one, whatever happens to the new one afterwards.
MovedIsNoticed ==
    Quiet => \A n \in Names : db.file[n] # 0 /\ file[n] = 0 => n \in db.rerun

\* An edit is flagged for the next update, whichever events were cancelled: a file
\* whose mtime is new is in the modify list or its directory in the create list,
\* and the command of a changed generated file is in the modify list.
EditsAreFlagged ==
    Quiet /\ ~asfile =>
      /\ \A n \in Names : file[n] > 1 =>
           IF n \in Generated THEN n \in db.rerun
           ELSE n \in db.modify \/ Top \in db.create
      /\ \A i \in Dirs : where[i] \in Names /\ file[i] # 0 =>
           db.dir[where[i]] \in db.modify \cup db.create

\* The monitor goes on, whatever happens to the files that its events are about: it
\* gives up only on an event of a directory, which may not be where the database has
\* it, or when moved_from_list refers to an event that was freed.
MonitorSurvives ==
    \/ alive \/ dangling
    \/ E.dir \/ E.wd # Top \/ step # "handle"
    \/ HasFrom /\ FromE.wd # Top

\* The monitor goes on even when directories come and go.
MonitorFunctions == alive
=============================================================================
