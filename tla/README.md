# Verification of MetaTup's core

MetaTup is a build system (a fork of tup): it keeps a graph of files and
commands in an sqlite database, finds out which files changed, and runs the
commands that depend on them, in order and in parallel. This directory holds
TLA+ models of the parts of it that are hard to test, the TLC configurations
that check them on small instances, and proofs, checked by TLAPS, for every
value of the constants.

`lock.c` explains its three locks in a long comment and ends: "I suppose a
formal proof would be nice, but I say meh! to you" (src/src/tup/lock.c:70).
Module `TriLockProofs` is that proof.

## 1. The system

All own code is under `src/src/tup`; sqlite3, pcre, lua, inih and bsd are
vendored, dllinject, ldpreload and compat are platform shims.

| Part | State | Operations | Interacts with | What makes it correct |
|---|---|---|---|---|
| Tri-lock (lock.c, flock/) | three lock files | tup_lock_init, tup_lock_exit | every command, the monitor through inotify on the object lock | one user of the database; nobody works on a stale one; nobody waits for ever |
| File monitor (monitor/inotify.c) | pid in the database, inotify queue, event_list, dircache, `locked` | start, fork, scan, hand-over, flush, overflow and retry, quit, restart | commands (locks, events), database | no edit and no IN_OPEN is lost |
| Autoupdate (inotify.c, tup/main.c) | AUTOUPDATE_PID, autoupdate_pid | fork an update, wait_thread | monitor, database | an edit is updated; `tup flush` waits for it; no update starts another for ever; the monitor can stop |
| Job scheduler (updater.c, execute_graph) | node_list, plist, edges, worker lists, condition variables | hand out, reap, pop_node, quit | update_work, create_work on worker threads; signals | dependencies respected, nothing twice, success means all done, always returns |
| Graph (graph.c) | nodes, edges, skip, transient | build_graph, attach_transient_nodes, prune_graph | modify, create, transient lists; scheduler | contains all that must run; nothing is forgotten when it is pruned |
| Updater (updater.c) | files, backups, modify and transient lists | update_work, update, process_output | scheduler, server, file.c, database transaction | a successful update means up to date, whatever happened before |
| Scan (path.c, create_name_file.c) | mtimes | changed, missing, new files | modify and create lists | every change outside tup is flagged |
| Checks of a command (file.c, db.c) | file_info: reads, writes, unlinks | write_files, tup_db_check_actual_inputs, ..._outputs | server, updater | the links are what the command really did |
| Database (db.c, entry.c) | nodes, links, flags, ghosts | flags, ghosts, links, transactions | everything | ghosts are reclaimed, flags survive |
| Parser (parser.c, luaparser.c) | rules, variables, bins, groups | parse, delete stale commands | create list, graph | a changed rule is run again, a dropped one cleaned up |
| MetaTup layer (metatup.c, tupbuild.c, metatup_repo.c) | components, profiles, repositories | tup gen, resolution, materialisation | parser, file system | dependencies resolved once, cycles refused |
| Fork server (server/master_fork.c) | socket pair, status_root, child_waiter_root | master_fork_exec, child_waiter, child_wait_notifier, server_post_exit | worker threads, commands | every job gets the status of its own child; nobody sleeps for ever; a clean shutdown |
| File servers (server/) | finfo per command | server_exec, server_postexec, fuse operations | updater, commands | every access is recorded for the right command |
| Variants, variables, options | variant list, vardb | load, compare, copy | parser, updater | changed variables flag their readers |

The behaviours that are hard: the interleaving of commands and monitor through
locks and kernel events; an event queue that is handled long after the events
happened; updates that the monitor starts while it has the lock they need;
worker threads and signals in the scheduler; two processes and four threads that
pass messages to start a command; failing, interrupted and killed updates, after
which files and database disagree; rules that change while the links of their
last run are still there; and the shortcuts (partial updates, `^o`, `^t`) that
skip work on the strength of flags that were left by an earlier update.
`PROJECT.json` lists the parts with what is modelled of each, and every hazard
at its line.

## 2. The modules

    FreshDatabase       what the lock protocol promises
      ^ implemented by
    TriLock             commands, monitor, inotify queue, three locks
      TriLockInv        inductive invariant, refinement mapping
        MCTriLock       symmetry
        TriLockProofs   the theorems
      TriLockCrash      ... with processes killed at any step
        MonitorRestart  ... and with a second monitor that replaces the first
          MonitorRestartInv, MonitorRestartProofs
      Autoupdate        ... with the updates the monitor forks, and tup flush
        AutoupdateInv, AutoupdateProofs
    MonitorQueue        from inotify events to the database
      MonitorQueueInv, MonitorQueueProofs
    MasterFork          the process that starts the commands
      MasterForkInv, MasterForkProofs
    ExecuteGraph        execute_graph() and its worker threads
      ExecuteGraphInv, ExecuteGraphProofs
        MCExecuteGraph  all small graphs
    BuildGraph          build_graph(), prune_graph() as operators
      UpdateNodes       scan and update, again and again, with faults
        UpdateNodesInv, UpdateNodesProofs
        MCUpdateNodes   a small project
    InputLinks          declared and actual inputs and outputs of commands
      InputLinksInv, InputLinksProofs
        MCInputLinks    three commands with several rules each

A module that ends in `Inv` states the inductive invariant of the module in front
of it, one that ends in `Proofs` has its theorems.

**TriLock.** `sh`, `obj`, `tri` are the owners of the locks; `pc[p]` and `mpc`
are the next system call of a command and of the monitor, so an action is one
call of `lock.c` or one step of `monitor_loop()`. `inot` is the kernel's queue:
it merges equal neighbours and, when full, drops an event and puts one overflow
event at the end. `event_list` and `overflow` are what the monitor has read but
not written, `pid` the pid in the database, `watching` and `dirwatch` the
watches. Edits are numbered and a command remembers in `seen` how many there
were when it opened the object lock. Whoever calls tup_init() is a command.
An edit is one event here; `MonitorQueue` has what events really are.

**TriLockCrash, MonitorRestart.** The kernel drops the locks and closes the files
of a process that is killed. 'tup monitor' takes over from a monitor that is
called `Old` from then on and leaves step by step (`opc`). `MonPassOver` is an
event on the object lock that monitor_loop() has no use for: an IN_CLOSE while it
has the lock (of the old monitor, or of a killed command), an IN_OPEN while it
does not.

**Autoupdate.** Composes TriLock with `autoupdate()`, `wait_thread()`, 'tup
autoupdate' and 'tup flush'. A kid is one of TriLock's commands that exists only
while the monitor has forked it. `dbpid` is AUTOUPDATE_PID, `waiter` the child
that wait_thread() is in waitpid() for, `tried` (history) the edits an update has
found. The steps that fork are those of TriLock with the end of flush_queue()
added to them.

**MonitorQueue.** `file` and `where` are the disk: files with their mtimes in the
top directory and one in each subdirectory, directories as inodes with the name
they have at the moment. Creating, editing, moving and removing them, also out
of the project and back, sends events to `inot`. `QueueEvent` is queue_event()
with the duplicate check, ephemeral_event() (`Ephemeral`: from the first event of
event_list that the new one undoes, every event of that name is blanked) and
moved_from_list. `Flush` starts flush_queue(), and then there is one action
per way through handle_event(); the directory case of watch_path() is three
steps (node, watch, scan), because the directory may be gone in between. The
user goes on in all of them. `db` is the database: file and directory nodes, the
create and modify lists, and `rerun`, the commands of generated files that are
flagged. `behind`, `lost` and `asfile` are history variables that say when one of
the known limits below has happened.

**MasterFork.** An action is what a thread does under one lock or in one system
call: master_fork_exec() in the worker threads (`job`), child_wait_notifier
(`notifier`) and server_post_exit() (`tup`) in tup; master_fork_loop() (`master`)
and child_waiter (`waiter`) in the master. `toMaster` and `toTup` are the two
directions of the socket, which can be full; `proc` is the kernel's process
table. A status is the number of the execution it comes from.

**ExecuteGraph.** One action per stretch of the main thread or of a worker
between two points where another thread can see or change something: handing a
node out, sleeping on `list_cond`, reaping, telling the threads to quit;
`worker_wait()` up to the unlock and the read of `quit` and `n` after it;
`worker_ret()` before and after it takes the list lock. `dead` may become true
at any moment. The graph is any graph of the set `Graphs`. The way out of the loop
for a node that is not expanded (updater.c:1955) is left out: build_graph() expands
every node of the graphs that are executed.

**BuildGraph and UpdateNodes.** `Graph(modify, tlist)` is the graph that
`process_update_nodes()` makes of the two lists, `Pruned` what targets leave of
it. `fs`, `touched` and `backup` are the files, those whose mtime is not the one
in the database, and `.metatup/tmp`; `modify` and `tlist` the lists, `saved` the
lists at the last commit (what a killed update falls back to). A visit of a
file, the start and the end of a command are actions; the scheduler is
abstracted to "any ready node, in parallel", which is what ExecuteGraph checks
of it. A command that fails (`FailCmd`), or is killed with the update (`Kill`), has
written any of its outputs, or none. `Bad` is the content of a file that no
successful command wrote, `mixed`
(history) says that transient files were partly updated or meddled with.

Abstractions: the Tupfiles do not change; commands read and write exactly what
they declare (so each input has a sticky and a normal link); a `^t` command has
one output; sources are not deleted; generated files are meddled with only
between updates; commands die with a killed update.

**InputLinks.** The other half of the updater: what commands really do. `rule[c]`
is what c declares (`sticky`), reads and writes; the user changes it between
updates, which is tup_db_write_inputs(). A command that ends is checked by
write_files(): `MissingInputs` and `Connected` are tup_db_check_actual_inputs() and
nodes_are_connected(), `ActualLinks` the normal links it leaves,
`ImportantLinkRemoved` what makes a `^o` command unskip its outputs. When tup is
killed, or server_exec() fails (`ExecError`), what move_outputs() moved away is lost.
`seen[c]`
(history) is what c read when it last succeeded, `lost` and `masked` (history) say
that one of the limits 19 and 12 below was met. `Reached` is the least set of nodes
that no link leaves, which is what nodes_are_connected() walks through. Writing is nondeterministic: an
output may get any content. Targets, `^t`, groups and ghosts are left out.

## 3. The runs

| Run | Instance | Distinct states | Shows |
|---|---|---|---|
| TriLockSafety | 2 commands, monitor, 2 edits, queue of 2 | 7,972 | exclusion, freshness, no lost IN_OPEN or edit, IndInv, refinement of FreshDatabase |
| MonitorRestart | 2 commands, old and new monitor, 2 edits, 2 kills, queue of 10, fairness | 352,860 | exclusion; freshness unless somebody is killed; every command gets through while there is one monitor |
| Autoupdate | 1 user, 2 forked updates at a time, 2 edits, 1 kill, fairness | 205,334 | edits are updated, `tup flush` returns and only then, updates end, wait_thread() does not hold the monitor up |
| AutoupdateStop | the same, 1 edit, no kill | violation | the monitor waits for an update that waits for it |
| MonitorQueue | 2 names (one generated), 2 directories, 4 operations of 7 kinds | 585,868 | disk and database agree when all events are handled; edits are flagged; the monitor survives |
| MasterFork | 2 threads, 2 pids, 3 executions, sockets of 1 message, fairness | 26,601 | own status, no lost wake-up, clean shutdown |
| ExecuteGraph | all 3-node graphs (and the root), up to 2 transient files, 2 workers, any failures, a signal | 2,339,368 | order, no double work, complete success, contained errors, consistent lists |
| ExecuteGraphLive | all 2-node DAGs, 2 workers, failures, a signal, fairness | 50,360 | execute_graph() returns |
| UpdateNodes | 3 commands, 6 files (c1 writes two of them), full updates and two partial ones, -k, all faults, 3 events, fairness | 549,056 | success means up to date; inputs exist; later updates succeed |
| UpdateCompare | the same with one partial update, `^o` on c1; failures, signals, modified outputs | 554,454 | `^o` skips only what is up to date |
| UpdateTransient | 3 commands, 5 files, any target, chain of two `^t`; kills, partial updates, meddling | 612,929 | transient files are there when read, readers are up to date, none survives a full successful update |
| InputLinks | 3 commands with 1, 6 and 3 rules, `^o` on c2, 2 events | 405,032 | every command ran on current inputs, in a declared order, and would be accepted again |

Why the bounds are enough. TriLock: the shared lock lets one command at a time
past it, so two commands give every pair of neighbours; two edits give one before
and one after an IN_OPEN; a queue of two overflows in every phase, one of ten
never does. (The safety theorems hold for all values anyway.) Autoupdate: two
updates are enough to overwrite autoupdate_pid, the third party is a user.
MonitorQueue: the cancellation rules look at pairs of events on one name and at
pairs of a move; four operations make two such pairs, or a directory that is made,
filled, moved and removed. With one name that is not generated the directories of
the run are moved out of the project and back in, and not within it, which may end
the monitor (limit 7); the four properties have been checked with two such names
and one directory as well (4,467,829 states). MasterFork: with two pids and three
executions a pid and a sid are used again; a socket of one message is full at
once. ExecuteGraph: every shape of three nodes has a chain, a fork, a join and a
cycle; two workers give an active one and one that is idle, sleeping or finished
at each step. UpdateNodes: the project has a source that is read two commands
away, a command whose two outputs have different readers and may be there in part,
and commands with two inputs; an update up to a prunes everything after it, one up
to b the last command, and one up to d nothing. UpdateCompare has the one up to b,
which leaves out one of the readers of c1's outputs; with both it has 902,661
states, and the property holds as well. InputLinks: a reader, a command in the
middle that may or may not connect it to the file, and every kind of wrong access
of the latter; an edit or a changed rule with a fault or a second change; the
proof of `SeenIsCurrent` has no bound on any of it. The counterexamples below need
at most three events, which are counted by `MaxEvents`.

Fairness. TriLock and MonitorRestart: weak fairness of each running command, of
the monitors and of the forking parent: the kernel schedules every process, and
grants a free lock to the one that waits. Nobody has to edit, start or stop
anything. Autoupdate: strong fairness of the commands and of the monitor, because
a user in the loop of 'tup flush' takes and drops the lock again and again; the
kernel queues waiters for an fcntl lock, and flush() sleeps between two tries.
MasterFork: weak fairness of each thread, a command ends, tup ends after its last
job; strong fairness of a write to a socket, which blocks while it is full and
which the kernel wakes; fork() never has to fail. ExecuteGraph: weak fairness of
each thread; a job ends. UpdateNodes: the user goes on calling tup (`Scan`, and
`[]<>(phase # "scanned")`, that is, a scan is followed by an update), and a step of
an update that can be taken is taken; no fault has to happen, except that a command
whose input is missing does fail.

Deadlock is checked where the system may not stop. It may in ExecuteGraph's live
run and MasterFork, which end; in MonitorQueue and Autoupdate, where the bounds
on what happens run out; and in MonitorRestart and AutoupdateStop, which show a
wait for ever (below). ExecuteGraph's final state has a stutter of its own.

Each property has a mutant: a definition changed the way a bug would change the
code (an operator next to it, marked "Mutant" or "Bug"), under which TLC finds the
property violated. The type invariants and inductive invariants that no run lists
have been checked with TLC as well, on the instance of the run (Autoupdate: two
monitors one after the other, a queue of two, one kill, 2,224,969 states).

## 4. What is proved

Every theorem holds for all values of the constants under the assumptions that the
modules name: the special values (Mon, None, ...) are not members of the sets they
are compared with, counters' bounds are natural numbers, and what is said below.

| Module | Theorem | Statement |
|---|---|---|
| TriLockProofs | TypeCorrect, Invariance | `Spec => []TypeOK`, `[]IndInv` |
| | Exclusion | `Spec => []DatabaseExclusive` |
| | OpenIsNoticed | `Spec => []NoMissedOpen` |
| | EditsAreKept | `Spec => []NoLostEdit` |
| | NeverStale | `Spec => []Fresh` |
| | Refinement | `Spec => FreshDatabaseSpec` |
| MonitorRestartProofs | RestartInvariance | `RSpec => []RInv` |
| | CrashSafeExclusion | `RSpec => []DatabaseExclusive` |
| | FreshAcrossRestart | `RSpec => []FreshUnlessKilled` |
| AutoupdateProofs | AutoupdateInvariance | `ASpec => []AInv` |
| | FlushIsHonest | `ASpec => []FlushedMeansUpdated` |
| ExecuteGraphProofs | TypeCorrect, Invariance | `Spec => []TypeOK`, `[]IndInv` |
| | Order | `Spec => []DependencyOrder` |
| | WorkedOnOnce | `Spec => []NoDoubleWork` |
| | Success | `Spec => []SuccessIsComplete` |
| | Containment | `Spec => []ErrorsAreContained` |
| | Lists | `Spec => []ListsConsistent` |
| MasterForkProofs | TypeCorrect, Invariance | `Spec => []TypeOK`, `[]IndInv` |
| | OwnStatus | `Spec => []StatusIsOwn` |
| | ThreadsGoOn | `Spec => []NobodyGivesUp` |
| | CleanShutdown | `Spec => []ShutdownIsClean` |
| InputLinksProofs | Invariance | `Spec => []IndInv`, if no command has allow_read |
| | UpToDate | `Spec => []SeenIsCurrent`, if no command has allow_read |
| | AcceptInvariance | `Spec => []AcceptInv`, the same, with `DeclaredIsRead` and `CompareFirst` |
| | InputsStayAccepted | `Spec => []StillAccepted`, the same |
| | OrderIsDeclared | `Spec => []DeclaredOrder`, the same |
| UpdateNodesProofs | ShapeInvariance | `Spec => []ShapeInv`, if there is no `^t` |
| | InputsThere | `Spec => []InputsExist`, if there is no `^t` |
| | FlagInvariance | `Spec => [](ShapeInv /\ FlagInv)`, if there is no `^t`, and outputs are kept |
| | UpToDate | `Spec => []UpdatedMeansUpToDate`, the same, if there is no cycle |
| | TransientInvariance | `Spec /\ []FailedLeaveNothing => []TransientInv`, if there is no `^o` and transient files are read |
| | NoTransientStays | `Spec /\ []FailedLeaveNothing => []TransientFilesGone`, the same |
| MonitorQueueProofs | SurviveInvariance | `Spec => []SurviveInv` |
| | MonitorGoesOn | `Spec => []MonitorSurvives` |
| | FlatInvariance | `Spec => []FlatInv`, if directories are left alone |
| | DiskBecomesKnown | `Spec => []DiskIsKnown`, the same |
| | EditsBecomeFlagged | `Spec => []EditsAreFlagged`, the same |
| | GoneBecomesNoticed | `Spec => []GoneIsNoticed`, the same |

In each module an inductive invariant carries the argument, a lemma per conjunct
(or per action) shows that a step keeps it, and the theorems follow from it.

**The lock protocol** (any set of commands, number of edits, length of the queue).
None of the properties is inductive: `Fresh` depends on what the monitor wrote
before it let go of the object lock, which depends on what was in front of the
IN_OPEN in the queue, which depends on who may have put an event there. `IndInv`
says all of it:
- `ClientLocks`, `MonitorLocks`: each lock is owned by exactly the process whose
  program counter says so;
- `MonitorState`: the pid and the watches follow the monitor's phase;
- `OpenInv`: in each phase, whether an IN_OPEN can be in the queue, at most once,
  and which command it belongs to (while the monitor is home an IN_OPEN means
  somebody waits);
- `OneMonitor`: the same for IN_CLOSE, and for the pid file: while the monitor is
  out, an IN_CLOSE means somebody is past the close, and the tri lock keeps the
  next command away;
- `EditBounds`, `NoLostEdit`, `EditOrder`: where each edit is; the ones a waiting
  command must see are written, queued, or before its IN_OPEN.

The lemmas on `Enqueue` and `Tail` say what a step does to the queue. `Refinement`
maps the owner of the object lock to the owner of the database and uses `IndInv` on
both sides of the step.

**Kills and restarts** (any number of them). `CoreInv`, which is `IndInv` without
`OneMonitor`, is inductive by itself, and it survives the replacement of a monitor:
so freshness does not need the pid file or the IN_CLOSE events to be right, only
liveness does (limits 2 and 4). After a kill only the ownership of the locks is
left, which is enough for exclusion. The proof reuses the lemmas of TriLockProofs
for the steps both modules have.

**Autoupdate** (any number of users, updates, edits and monitors one after the
other). `UpdatePending`: edits that the monitor wrote and no update has found imply
an AUTOUPDATE_PID. Whoever clears it has found everything that is in the database,
because it has the lock; a killed update does not clear it. So a flush that returns
leaves no edit of the database behind, whoever was killed. As long as nobody was,
`CoreInv` holds without `Fresh` (an update that the monitor forks and 'tup flush' do
not scan), by which the edits made before the flush are in the database.

**The scheduler** (any graph in which only the root has no incoming edge, any
finite, nonempty set of workers; cycles are allowed). `IndInv` says what a node's
list, its state, its edges and the worker that has it imply of each other. The core
is `EdgeInv` (an edge that is left comes from a node that is not through, to one
that waits) with `GraphInv` (an edge of the graph is left, or its source is
through; one that was turned round for a transient file likewise), from which
`Order` follows; `HeldInv` and `DoneInv` for `WorkedOnOnce`; `NoneLost`, `WaitInv`
and `MainInv` (active is the number of workers that are not free) for `Success` and
`Containment`. That only the root has no incoming edge is an assumption on the
graph, since build_graph_cb() makes a node together with an edge to it and
prune_graph() keeps what leads to the nodes it keeps; without it a node that is
never reached would be left on node_list.

**The fork server** (any finite set of threads, any set of pids, any number of
executions, sockets of any size). An execution is a token: in a request, with the
master, in child_waiter_root, with child_waiter, or in a status; in one place
only, and only while its job waits (`TokenInv`). It carries the job's execution
(`ExecInv`), the entry in status_root lives exactly as long (`JobInv`), every
process is in the tree or about to be inserted (`ProcInv`), and the shutdown passes
from tup to the master and to both threads (`ShutdownInv`). The race of limit 9
shows up in `ProcInv`: a child may be reaped before it is inserted, but then
child_waiter does not survive its search.

**Checking what commands did** (any commands, files, rules, `^o` flags, any number
of edits, changes of rules, failures, signals and kills; no allow_read). What makes
a command out of date is flagged, or will be noticed by the scan (`Noticed`); in an
update it is ahead of the command in the graph and will unskip it (`Ahead`). This
needs that the links of a command that is not flagged are its reads
(`LinksAreReads`), that what a `^o` command moved away is what its readers read
(`Kept`), and that nothing that a running command read and write_files() will
accept changes meanwhile: `Barred` is a set that is closed under the links, holds
everything still to be made, and has nothing the command declares. `Noticed`,
`Kept` and `LinksAreReads` are kept for the database at the last commit as well,
for that is what a kill leaves behind; the files it does not roll back are in
`placed`. The hypothesis on allow_read cannot be dropped: a file that is read under
it need not be built before its reader (test/t2306).

The proof is how `masked` came in: TLC had not found the case with two events. With
three it does (`SeenIsCurrent` without `masked`): limit 12, by a failing `^o`
command alone.

A command that is not run is not checked either, so that its inputs stay accepted
is up to the commands in front of it: whoever loses a link unskips what follows
(`ImportantLinkRemoved`, del_normal_link()). `Checked` says that each command's
undeclared inputs would be accepted today, but for the commands that are flagged
and those in `Due`: what the links reach from a flagged command that may lose a
link and is not `^o`, or from an output of one (`Relay`). During an update these
are in the graph; a flag moves along the links before it is taken off, and
whatever is not in `Due` has no flagged command of that kind on the way that
connects it to its input, so that way does not change. Like IndInv it is kept for
the database at the last commit, too (`AcceptInv`). At the end of a successful
update nothing is flagged, so `Due` is empty and `StillAccepted` follows.
`DeclaredOrder` follows from it because the links have no loop (`NoLoop`: a command
that write_files() accepts reads nothing that is in its `Barred` set): of the
commands whose reads the declarations do not order, one comes first along the
links, and the way that accepts its read uses only links of commands before it.

The hypotheses are the limits 17 to 19. `DeclaredIsRead`: a rule under which a
command reads a generated file that it does not declare reads all generated files
it declares (else the way may end in a sticky edge that no normal link doubles).
`CompareFirst`: what a `^o` command reads is made by commands that read no generated
file (so no `^o` command follows one that can lose a link). What a failing `^o`
command does is in `lost`. With CompareFirst false TLC finds `StillAccepted` violated
without `lost`: c1 makes g, c2 reads g and makes h, c4 with `^o` makes m from h, c3
declares m and reads m and g. When c2 stops reading g, c4 runs, but writes the same
m, and c3 is skipped. The run's instance satisfies both hypotheses (an ASSUME of
MCInputLinks); IndInv and AcceptInv were checked on it with TLC (405,032 states) before.

**Updates** (any finite project without `^t`: commands, files, what the commands
compute, any targets, edits, files that are changed or deleted by hand, failures,
signals and kills). `ShapeInv` is about the graph: it has all its edges; a set P that
is closed under the links stands for what prune_graph() has taken out, and every
flag is in the graph or in P; a command in it is skipped if and only if it is not
flagged; a file that is missing has its command flagged; so a command that runs
waits for nothing, and has its inputs (`InputsThere`). `FlagInv` is about the modify
list, and is where the rules come together that updater.c has for moving a flag on:
a command that is not flagged is `Good` (its outputs are what it would write now),
or reads something that is flagged or whose command will unskip it (`Ahead`);
between updates, or something about its files will be noticed by the scan
(`Noticed`), at the last commit too, for that is what a killed update falls back to.
For `^o`, `Known` is what the readers of a command know of its outputs while they
are in `.metatup/tmp`, and who reads what was never made is flagged (`GoneFlagged`).
At a successful end the graph is empty, so every command outside P is `Good`, and
`UpToDate` follows: if each command is up to date with the files that are there,
then the files are those of a build from nothing, since after i rounds of it at
least i commands have made their outputs as they are.

The hypotheses. No `^t`: with it both properties need `mixed`, and more (limits 11
and 13 to 16); they stay with TLC. `OutputsKept`: a project with `^o` has only
failures, signals and changed outputs, as in the run UpdateCompare, because of
limit 12; without `^o` there is no restriction. `Acyclic`: no set of commands in
which each one reads what another one writes; graph.c:295 and updater.c:2021 make
a cycle an error. Closure and marks of the graph, and `Right`, are recursive
functions; that they reach a fixpoint, or the files, in the number of rounds they
are given is proved with a lemma for induction over 0..N (`Induction`), which
follows from what the library says of injections of finite sets. ShapeInv and
FlagInv were checked with TLC on the instances of UpdateNodes (549,056 states) and
UpdateCompare (902,661) before.

**Transient files** (the same, with `^t` and without `^o`). `TransientInv` follows a
transient file from the moment it is written to the `unlink()` of
delete_transient_file(). While it exists, it is in transient_list, or it is flagged
and so is its command (`Listed`), or it has a new mtime by which the scan will flag
it (`Found`); the lists of the last commit have the same property. In an update of
everything it is then in the graph, visited but once, or due to be deleted. That
nothing else happens to it is a matter of what is skipped: `LiveGraph` has a node in
front of whatever is in `skip`, so without `^o`, where only a command that ran takes
nodes out of it, no command is ever skipped, and each `^t` command in the graph ends
by putting its outputs into the list. A file that is flagged together with its
command, but is not in the list, was changed by hand; it ends in the error of limit
14, or its command writes it again. When an update of everything succeeds the graph
is empty, hence what was to be deleted is deleted (`NoTransientStays`).

The hypotheses, each of which TLC shows to be needed: no `^o` (limit 16);
`TransientsAreRead` (limit 14), which an ASSUME of MCUpdateNodes checks for the
instances; `FailedLeaveNothing`, the hypothesis on behaviours that no `^t` command
fails and leaves an output (limit 11). It is about `^t` commands only, so they may
fail, but have to remove what they wrote; others may fail as they like. TransientInv
was checked with TLC on the run's instance (593,264 states with FailedLeaveNothing),
and with failures, signals, failing exec() and kills on two others (282,761 states
when c3 reads b only, 369,046 when c1 and c2 both read sources).

**The event queue** (any number of names, directories, operations and pending
events). `SurviveInv` holds for all operations: every handler is followed through
with any database (`StateOK`), and none fails on an event of the top directory,
whose dircache entry nothing takes away; so an error is about a directory, or comes
from a freed entry of moved_from_list.

The other three theorems are about projects whose directories are left alone
(`Flat`: no mkdir, rmdir or movedir among `Kinds`; files are made, edited, removed
and moved, also out of the project and back). With directories they stay with TLC:
names, nodes and watches of a directory then change apart from each other (limit 7).
The properties speak of a moment at which nothing is pending; the invariant, of what
each pending event is good for. Three pairs have to be followed through the kernel's
queue and event_list: removal and look, look and removal, removal and creation.
- `BackInKernel`, `BackInList`: a file that is there and whose removal is pending has
  an event after it at which the monitor will look at the file. `DirtyIsLookedAt`: so
  has a file that is not what the database has. That gives `DiskIsKnown`; with
  `NewIsFlagged`, `EditsAreFlagged`.
- `SeenAndGone`: a file that is gone and is going to be looked at has a removal after
  that. `SeenAndNew`, `KnownAndNew`: what is made again, and was seen or is in the
  database, was removed in between. ephemeral_event() throws away a creation together
  with its removal, so what it undoes must be told by an earlier one: these two say
  there is one. That gives `GoneIsTold`, and `GoneIsNoticed`.
- `NoneBeforeNew`: event_list has no creation after a removal of the same name, for
  ephemeral_event() has made one modification of the two.
- `Cookies`: the two events of a move are neighbours, in the kernel's queue or across
  the two queues, so that check_from_events() claims the last entry or none.
- `MovesAreBehind`: an IN_MOVED_TO that stands for the removal of its source has the
  source in `behind` of its target until the target goes; it is then in `lost`. This
  is the exception in `GoneIsNoticed` (limit 6), and the proof shows that there is no
  other.

SurviveInv was checked with TLC on the run's instance (585,868 states), FlatInv with
three names and four operations (3,123,902 states) and with two names and five
(3,210,098) before.

Only model-checked:
- liveness and fairness (out of the prover's reach): CommandsFinishWithOne, the
  temporal properties of Autoupdate, JobsEnd, Terminates, the ones of UpdateNodes;
- UpdateNodes with `^t` (run UpdateTransient): UpdatedMeansUpToDate and InputsExist;
  projects with `^t` and `^o` are in no run and no theorem, because of limit 16;
- MonitorQueue where directories are made, moved or removed: all but MonitorSurvives;
- nothing of InputLinks, but only for projects without allow_read, and StillAccepted
  and DeclaredOrder only under the two hypotheses above: they do not hold for every
  project (limits 17 to 19).

## 5. Known limits of the code

Where the code does not do what a comment, a test or the manual says. The first
one is a run (AutoupdateStop) and is listed as a finding. The others show up when
a configuration or a property is changed as said; the properties of the passing
runs say what holds in spite of them.

Locks and life cycle:
1. *Stop while an update is on its way* (`StopEnds`). monitor() joins wait_thread()
   before it gives its locks back; wait_thread() waits for the update, and the
   update for the lock. "Kills the monitor if it is running."
2. *Overflow.* When the queue overflows while a command has the database, the
   IN_CLOSE of the command may be lost; the monitor looks at an overflow only while
   it is locked (inotify.c:548). Command and monitor wait for each other, which
   lock.c:73 rules out (`CommandsFinish` under `FairSpec` of TriLock, QueueMax = 2).
3. *Killed command.* It does not wait for the tri lock: the next command can
   get the database before the monitor has written the edits in between
   (`Fresh` in MonitorRestart).
4. *Restarted monitor.* The old monitor's close of the object lock can be taken
   for that of the command the new one handed over to: the new monitor then takes
   the object lock back too early and nobody sees another IN_OPEN
   (`CommandsFinish` in MonitorRestart).
5. *Killed autoupdate.* AUTOUPDATE_PID is not cleared: 'tup flush' goes on for
   ever, and an IN_OPEN starts no update any more (`FlushReturns` and
   `EditsAreUpdated` without `kills`). A pid that is overwritten before
   wait_thread() takes it is a zombie until the monitor ends.

The event queue:
6. *Moved and removed.* `mv a b; rm b` before the events are read cancels the only
   event on `b`, and the move from `a` with it: `a` stays in the database
   (`MovedIsNoticed`; docs/journal.html:333). The same for a file that watch_path()
   has found and whose create and delete events then cancel each other.
7. *Directories.* One that is moved in from outside becomes a file node
   (tup_file_mod() on an unmatched IN_MOVED_TO). `mkdir d; mv d e`, or a change in d
   followed by `mv d e`, ends the monitor, for the node is looked for under a name
   the directory does not have any more (`MonitorFunctions`; test/t7037 wants the
   monitor to go on).
8. *moved_from_list.* An IN_MOVED_FROM that is cancelled as ephemeral keeps its entry,
   and the entry refers to an event that is freed by the flush (`dangling`).

Starting commands:
9. *A child that is too quick.* The pid is inserted after fork(). When child_waiter
   is in wait() for another child already, it may get the new one first, not find
   it, and end: no status is sent any more and tup hangs (`AllStatusesSent`; the
   comment at master_fork.c:877 says the master stays to send them all).
10. *fork() fails.* The master exits; child_wait_notifier reads the end of file and
    ends, and the threads that wait for a status are not woken. A send that fails
    leaves an entry on the stack of a finished call in status_root.

Updates (11 to 15 were reproduced with the program itself):
11. *Failed transient command.* It is in the modify list only, so it is held back
    until a reader is in the graph (graph.c:363); nothing brings one in. "No commands
    to execute", and a stale output, though test/t6006 says an update after a failed
    command should not "assume everything is up-to-date" (UpdateTransient with
    `Failing`).
12. *`^o` and a missing output.* A failing run leaves its output when there was none
    before (restore_outputs(), updater.c:2363); the next run compares with it, and
    skips readers that never saw it (UpdateCompare with "delete" in `Faults`;
    metatup.1:632). The same when the output is missing because tup was killed while
    the command ran (InputLinks without `masked`, MaxEvents = 3).
13. *Partial update with transient files.* The file that is left over is added
    without its links; when its source is edited, a full update leaves the readers
    stale (`UpdatedMeansUpToDate` without `mixed`).
14. *Changed transient file.* Its command takes a node off `plist` that is on
    `node_list`: an internal error in every later update (`BeginError`;
    UpdateTransient reaches it). If nothing reads the file, it is no error: the file
    stays after an update that succeeds (`TransientFilesGone` with c3 made `^t`).
15. *Deleted left-over transient file.* It is still in transient_list, so its
    command is not run and its readers fail (`InputsExist` without `mixed`). The same
    without anybody deleting it: an update is interrupted and leaves the file, and the
    next one is interrupted when its command has removed it to make it again; the
    command is flagged, but for its output counts as left over it is not brought in,
    and updates keep failing (UpdateTransient with "signal" in `Faults` and without
    "delete"; 3 events). Nor when the reader fails, so that the file is left, and the
    next update is killed after it has removed the file: the rollback puts it back
    into transient_list (found by TLC alone: UpdateTransient with c3 in `Failing`,
    only "kill" in `Faults`; 2 events).
16. *`^o` and `^t` together.* Interrupted, and killed after a transient file was
    deleted, the next update starts a reader without its input. And a flagged `^t`
    command that comes after a `^o` command which writes the same again is skipped,
    and loses its flag (updater.c:2200): a transient file that was changed by hand
    stays after an update that succeeds (s1, c1 with `^o`, a, c2 with `^t`, b, c3:
    change b and s1, update up to b, update everything).

Checking inputs (`DependentsAreChecked`, against the comment of del_normal_link() at
db.c:6380). A command may be skipped although what it read would not be accepted now:
17. when the edge it relied on was a sticky one only, and is removed;
18. when the declaration is removed from a `^o` command: rm_sticky() takes the normal
    link, so that del_normal_link() does not see it go;
19. when the `^o` command loses the link in a run that fails, and writes the same
    output in the next one; or when a `^o` command further down the way, after one
    that loses a link, writes the same output and so keeps what follows skipped.

    And a file that is read under allow_read need not be built before its reader the
    first time (test/t2306), which is why `Allowed` is empty in the run.

## 6. Not modelled, and the plan

Not modelled and not planned: vendored code (sqlite, pcre, lua, inih, which is most
of the lines of the repository), platform shims, output and colours, containers,
YAML and Lua glue, the text processing of the parser. Of MasterFork: the namespace
handshake of server_pre_init() and its retry; a pid that the kernel hands out again
before the entry of its last use is out of the tree.

Left of the modelling plan:
1. `NodeFlags`: node types, ghosts and their reclamation, the config and variant
   lists, deletion of commands and outputs.
2. `CreateNodes`: the create phase: parsing order of directories, circular
   parsing, what a changed, new or dropped rule does to the lists; variants and
   variables; several outputs of a `^t` command.
3. `Components`: resolution in metatup.c and metatup_repo.c against a reference
   definition.
4. The accesses of the FUSE server: mappings, renames, open_count and its timeout.

Proofs to come:
1. UpdateNodes with `^t`: UpdatedMeansUpToDate for full updates that nobody kills or
   interrupts, which needs a reader's view of a file that was deleted.
2. MonitorQueue: what of FlatInv is left when directories are made, and not moved or
   removed.

A run is one question, and there are few of them: a new module replaces or joins a
run that is there rather than adding one of its kind.
