----------------------------- MODULE MasterFork -----------------------------
(***************************************************************************)
(* How tup starts the sub-processes of its jobs (server/master_fork.c).    *)
(* server_pre_init() forks the master, a process with a single purpose:    *)
(* it reads requests from a socket pair, forks one child per request, and  *)
(* sends the children's wait() statuses back.  Four kinds of threads take  *)
(* part:                                                                   *)
(*   - in tup, a worker (or the parser) in master_fork_exec(), the thread  *)
(*     child_wait_notifier, and the main thread in server_post_exit();     *)
(*   - in the master, master_fork_loop() and the thread child_waiter.      *)
(* The pid of a child is looked up in child_waiter_root to find the sid of *)
(* the request, and the sid in status_root to find who waits for it.       *)
(*                                                                         *)
(* A request carries the number of the execution in place of its command,  *)
(* and a child's status is that number: what comes back tells which child  *)
(* it came from.  A message is one step: the writer holds a lock for all   *)
(* its parts and the reader blocks until it has them.                      *)
(***************************************************************************)
EXTENDS Naturals, Sequences, FiniteSets

CONSTANTS Sids,       \* ids of the jobs, one thread each: a command's or a directory's tupid
          Pids,       \* process ids the kernel hands out
          MaxExecs,   \* bound on the executions
          SocketMax,  \* messages one direction of the socket pair holds
          None        \* no sid, no pid

ASSUME SidsAssumption == IsFiniteSet(Sids) /\ None \notin Sids /\ None \notin Pids
ASSUME BoundsAssumption == MaxExecs \in Nat /\ SocketMax \in Nat \ {0}

VARIABLES
    execs,    \* executions begun so far
    job,      \* per sid: the thread's place in master_fork_exec() and its status_tree entry
    statusRoot,   \* status_root: the sids with an entry
    toMaster, \* msd[1] to msd[0]: requests
    toTup,    \* msd[0] to msd[1]: statuses
    master,   \* master_fork_loop(): its place, the request it handles, the pid it forked
    proc,     \* per pid: "free", "running" or "zombie", and the execution it runs
    tree,     \* child_waiter_root: the sid of every pid in it
    waiter,   \* child_waiter: its place and what it sends next
    exiting,  \* child_waiter_exiting
    notifier, \* child_wait_notifier: "read" or "end"
    tup,      \* the main thread: "run", then its place in server_post_exit()
    results   \* what master_fork_exec() returned so far, with the execution it was for

vars == <<execs, job, statusRoot, toMaster, toTup, master, proc, tree, waiter, exiting,
          notifier, tup, results>>

tupVars == <<execs, job, statusRoot, notifier, tup, results>>
masterVars == <<master, proc, tree, waiter, exiting>>

Executions == 0..MaxExecs

(* A request: the sid and the execution.  The shutdown message has no sid. *)
Requests == [sid : Sids \cup {None}, exec : Executions]

Shutdown == [sid |-> None, exec |-> 0]

TypeOK ==
    /\ execs \in Executions
    /\ job \in [Sids -> [pc : {"idle", "send", "wait", "asleep", "failed"},
                         exec : Executions, set : BOOLEAN, status : Executions]]
    /\ statusRoot \subseteq Sids
    /\ toMaster \in Seq(Requests) /\ Len(toMaster) <= SocketMax
    /\ toTup \in Seq(Requests) /\ Len(toTup) <= SocketMax
    /\ master \in [pc : {"read", "fork", "insert", "bye", "signal", "join", "end", "dead"},
                   msg : Requests, pid : Pids \cup {None}]
    /\ proc \in [Pids -> [state : {"free", "running", "zombie"}, exec : Executions]]
    /\ tree \in [Pids -> Sids \cup {None}]
    /\ waiter \in [pc : {"check", "asleep", "test", "wait", "search", "send", "end", "dead"},
                   pid : Pids \cup {None}, rcm : Requests]
    /\ exiting \in BOOLEAN
    /\ notifier \in {"read", "end"}
    /\ tup \in {"run", "waitpid", "join", "end", "failed"}
    /\ results \subseteq [exec : Executions, status : Executions]

(* server_pre_init() has returned: the master is ready to read. *)
Init ==
    /\ execs = 0
    /\ job = [s \in Sids |-> [pc |-> "idle", exec |-> 0, set |-> FALSE, status |-> 0]]
    /\ statusRoot = {}
    /\ toMaster = <<>> /\ toTup = <<>>
    /\ master = [pc |-> "read", msg |-> Shutdown, pid |-> None]
    /\ proc = [p \in Pids |-> [state |-> "free", exec |-> 0]]
    /\ tree = [p \in Pids |-> None]
    /\ waiter = [pc |-> "check", pid |-> None, rcm |-> Shutdown]
    /\ exiting = FALSE
    /\ notifier = "read"
    /\ tup = "run"
    /\ results = {}

(***************************************************************************)
(* master_fork_exec(), in tup                                              *)
(***************************************************************************)
(* The new entry goes into status_root before anything is sent. *)
Register(s) ==
    /\ tup = "run" /\ job[s].pc = "idle" /\ execs < MaxExecs
    /\ s \notin statusRoot
    /\ execs' = execs + 1
    /\ job' = [job EXCEPT ![s] = [pc |-> "send", exec |-> execs + 1,
                                  set |-> FALSE, status |-> 0]]
    /\ statusRoot' = statusRoot \cup {s}
    /\ UNCHANGED <<toMaster, toTup, masterVars, notifier, tup, results>>

(* The message is written under a lock of its own; a full socket blocks.   *)
(* When the master is gone write() fails (libfuse ignores SIGPIPE) and     *)
(* master_fork_exec() returns -1; its entry stays in status_root.          *)
Send(s) ==
    /\ job[s].pc = "send"
    /\ IF master.pc = "dead"
       THEN job' = [job EXCEPT ![s].pc = "failed"] /\ UNCHANGED toMaster
       ELSE /\ Len(toMaster) < SocketMax
            /\ toMaster' = Append(toMaster, [sid |-> s, exec |-> job[s].exec])
            /\ job' = [job EXCEPT ![s].pc = "wait"]
    /\ UNCHANGED <<execs, statusRoot, toTup, masterVars, notifier, tup, results>>

(* wait_for_my_sid(): the test and the sleep are one step under statuslock. *)
WaitForMySid(s) ==
    /\ job[s].pc = "wait"
    /\ IF job[s].set
       THEN /\ job' = [job EXCEPT ![s].pc = "idle"]
            /\ results' = results \cup {[exec |-> job[s].exec, status |-> job[s].status]}
       ELSE job' = [job EXCEPT ![s].pc = "asleep"] /\ UNCHANGED results
    /\ UNCHANGED <<execs, statusRoot, toMaster, toTup, masterVars, notifier, tup>>

(***************************************************************************)
(* child_wait_notifier, in tup                                             *)
(***************************************************************************)
(* The thread a status is for wakes up when it sleeps. *)
Signal(pc) == IF pc = "asleep" THEN "wait" ELSE pc

(* One message: the shutdown message or a sid without an entry ends the    *)
(* thread; otherwise the entry is taken out and filled in.                 *)
Notify ==
    /\ notifier = "read" /\ toTup # <<>>
    /\ toTup' = Tail(toTup)
    /\ LET rcm == Head(toTup) IN
       IF rcm.sid \notin statusRoot
       THEN notifier' = "end" /\ UNCHANGED <<job, statusRoot>>
       ELSE /\ statusRoot' = statusRoot \ {rcm.sid}
            /\ job' = [job EXCEPT ![rcm.sid] = [pc |-> Signal(@.pc), exec |-> @.exec,
                                                set |-> TRUE, status |-> rcm.exec]]
            /\ UNCHANGED notifier
    /\ UNCHANGED <<execs, toMaster, masterVars, tup, results>>

(* The master is gone and all it wrote was read: read() returns 0. *)
NotifyEof ==
    /\ notifier = "read" /\ toTup = <<>> /\ master.pc = "dead"
    /\ notifier' = "end"
    /\ UNCHANGED <<execs, job, statusRoot, toMaster, toTup, masterVars, tup, results>>

(***************************************************************************)
(* server_post_exit(), in tup's main thread, when no thread runs a job     *)
(***************************************************************************)
(* Bug: tup leaves without waiting for the jobs it still runs. *)
PostExitEarly ==
    /\ tup = "run" /\ Len(toMaster) < SocketMax
    /\ toMaster' = Append(toMaster, Shutdown)
    /\ tup' = "waitpid"
    /\ UNCHANGED <<execs, job, statusRoot, toTup, masterVars, notifier, results>>

PostExit ==
    /\ tup = "run" /\ \A s \in Sids : job[s].pc \in {"idle", "failed"}
    /\ IF master.pc = "dead"
       THEN tup' = "failed" /\ UNCHANGED toMaster
       ELSE /\ Len(toMaster) < SocketMax
            /\ toMaster' = Append(toMaster, Shutdown)
            /\ tup' = "waitpid"
    /\ UNCHANGED <<execs, job, statusRoot, toTup, masterVars, notifier, results>>

(* waitpid(master_fork_pid): only a master that ended well is followed by  *)
(* the join of child_wait_notifier.                                        *)
WaitMaster ==
    /\ tup = "waitpid" /\ master.pc \in {"end", "dead"}
    /\ tup' = IF master.pc = "end" THEN "join" ELSE "failed"
    /\ UNCHANGED <<execs, job, statusRoot, toMaster, toTup, masterVars, notifier, results>>

JoinNotifier ==
    /\ tup = "join" /\ notifier = "end"
    /\ tup' = "end"
    /\ UNCHANGED <<execs, job, statusRoot, toMaster, toTup, masterVars, notifier, results>>

(***************************************************************************)
(* master_fork_loop()                                                      *)
(***************************************************************************)
(* child_waiter sleeps on child_waiter_root.cond. *)
WakeWaiter == waiter' = [waiter EXCEPT !.pc = IF @ = "asleep" THEN "check" ELSE @]

MasterRead ==
    /\ master.pc = "read" /\ toMaster # <<>>
    /\ toMaster' = Tail(toMaster)
    /\ master' = [master EXCEPT !.msg = Head(toMaster),
                                !.pc = IF Head(toMaster).sid = None THEN "bye" ELSE "fork"]
    /\ UNCHANGED <<tupVars, toTup, proc, tree, waiter, exiting>>

(* fork(): the child runs from here on.  The kernel hands out pids in      *)
(* turn, so one that was just reaped does not come back before its entry   *)
(* is out of the tree.                                                     *)
MasterFork(p) ==
    /\ master.pc = "fork"
    /\ proc[p].state = "free" /\ tree[p] = None /\ waiter.pid # p
    /\ proc' = [proc EXCEPT ![p] = [state |-> "running", exec |-> master.msg.exec]]
    /\ master' = [master EXCEPT !.pc = "insert", !.pid = p]
    /\ UNCHANGED <<tupVars, toMaster, toTup, tree, waiter, exiting>>

(* fork() fails: the master calls exit(), and its threads end with it. *)
MasterForkFails ==
    /\ master.pc = "fork"
    /\ master' = [master EXCEPT !.pc = "dead"]
    /\ UNCHANGED <<tupVars, toMaster, toTup, proc, tree, waiter, exiting>>

(* Bug: the insertion does not signal the condition. *)
MasterInsertSilent ==
    /\ master.pc = "insert"
    /\ tree' = [tree EXCEPT ![master.pid] = master.msg.sid]
    /\ master' = [master EXCEPT !.pc = "read", !.pid = None]
    /\ UNCHANGED <<tupVars, toMaster, toTup, proc, waiter, exiting>>

(* The child's pid gets its sid, after the fork. *)
MasterInsert ==
    /\ master.pc = "insert"
    /\ tree' = [tree EXCEPT ![master.pid] = master.msg.sid]
    /\ WakeWaiter
    /\ master' = [master EXCEPT !.pc = "read", !.pid = None]
    /\ UNCHANGED <<tupVars, toMaster, toTup, proc, exiting>>

(* Bug: child_waiter is not woken to see the flag. *)
MasterSignalSilent ==
    /\ master.pc = "signal"
    /\ exiting' = TRUE
    /\ master' = [master EXCEPT !.pc = "join"]
    /\ UNCHANGED <<tupVars, toMaster, toTup, proc, tree, waiter>>

(* The shutdown message for child_wait_notifier. *)
MasterBye ==
    /\ master.pc = "bye" /\ Len(toTup) < SocketMax
    /\ toTup' = Append(toTup, Shutdown)
    /\ master' = [master EXCEPT !.pc = "signal"]
    /\ UNCHANGED <<tupVars, toMaster, proc, tree, waiter, exiting>>

MasterSignal ==
    /\ master.pc = "signal"
    /\ exiting' = TRUE
    /\ WakeWaiter
    /\ master' = [master EXCEPT !.pc = "join"]
    /\ UNCHANGED <<tupVars, toMaster, toTup, proc, tree>>

MasterJoin ==
    /\ master.pc = "join" /\ waiter.pc \in {"end", "dead"}
    /\ master' = [master EXCEPT !.pc = "end"]
    /\ UNCHANGED <<tupVars, toMaster, toTup, proc, tree, waiter, exiting>>

(* A child ends: its command is done, or a step of setup_subprocess()      *)
(* failed.                                                                 *)
ChildExit(p) ==
    /\ proc[p].state = "running"
    /\ proc' = [proc EXCEPT ![p].state = "zombie"]
    /\ UNCHANGED <<tupVars, toMaster, toTup, master, tree, waiter, exiting>>

(***************************************************************************)
(* child_waiter, in the master                                             *)
(***************************************************************************)
WaiterRuns(pc) == waiter.pc = pc /\ master.pc # "dead"

(* The loop on the condition, under the lock of the tree. *)
WaiterCheck ==
    /\ WaiterRuns("check")
    /\ waiter' = [waiter EXCEPT !.pc =
                     IF (\A p \in Pids : tree[p] = None) /\ ~exiting THEN "asleep" ELSE "test"]
    /\ UNCHANGED <<tupVars, toMaster, toTup, master, proc, tree, exiting>>

(* child_waiter_exiting is read again after the unlock. *)
WaiterTest ==
    /\ WaiterRuns("test")
    /\ waiter' = [waiter EXCEPT !.pc = IF exiting THEN "end" ELSE "wait"]
    /\ UNCHANGED <<tupVars, toMaster, toTup, master, proc, tree, exiting>>

(* wait() takes any zombie, blocks while there is only running children,   *)
(* and fails without a child.                                              *)
WaiterWait ==
    /\ WaiterRuns("wait")
    /\ IF \A p \in Pids : proc[p].state = "free"
       THEN waiter' = [waiter EXCEPT !.pc = "dead"] /\ UNCHANGED proc
       ELSE \E p \in Pids :
              /\ proc[p].state = "zombie"
              /\ proc' = [proc EXCEPT ![p].state = "free"]
              /\ waiter' = [waiter EXCEPT !.pc = "search", !.pid = p,
                                          !.rcm = [sid |-> None, exec |-> proc[p].exec]]
    /\ UNCHANGED <<tupVars, toMaster, toTup, master, tree, exiting>>

(* Bug: the entry stays in the tree. *)
WaiterSearchKeep ==
    /\ WaiterRuns("search")
    /\ waiter' = IF tree[waiter.pid] = None THEN [waiter EXCEPT !.pc = "dead"]
                 ELSE [waiter EXCEPT !.pc = "send", !.rcm.sid = tree[waiter.pid]]
    /\ UNCHANGED <<tupVars, toMaster, toTup, master, proc, tree, exiting>>

(* Bug: the waiter takes any entry of the tree for the pid's. *)
WaiterSearchAny ==
    /\ WaiterRuns("search")
    /\ \E p \in Pids :
         /\ tree[p] # None
         /\ waiter' = [waiter EXCEPT !.pc = "send", !.rcm.sid = tree[p]]
         /\ tree' = [tree EXCEPT ![p] = None]
    /\ UNCHANGED <<tupVars, toMaster, toTup, master, proc, exiting>>

(* The sid of the pid.  A pid without an entry ends the thread. *)
WaiterSearch ==
    /\ WaiterRuns("search")
    /\ IF tree[waiter.pid] = None
       THEN waiter' = [waiter EXCEPT !.pc = "dead"] /\ UNCHANGED tree
       ELSE /\ waiter' = [waiter EXCEPT !.pc = "send", !.rcm.sid = tree[waiter.pid]]
            /\ tree' = [tree EXCEPT ![waiter.pid] = None]
    /\ UNCHANGED <<tupVars, toMaster, toTup, master, proc, exiting>>

WaiterSend ==
    /\ WaiterRuns("send") /\ Len(toTup) < SocketMax
    /\ toTup' = Append(toTup, waiter.rcm)
    /\ waiter' = [pc |-> "check", pid |-> None, rcm |-> Shutdown]
    /\ UNCHANGED <<tupVars, toMaster, master, proc, tree, exiting>>

Next ==
    \/ \E s \in Sids : Register(s) \/ Send(s) \/ WaitForMySid(s)
    \/ Notify \/ NotifyEof
    \/ PostExit \/ WaitMaster \/ JoinNotifier
    \/ MasterRead \/ MasterForkFails \/ MasterInsert \/ MasterBye \/ MasterSignal \/ MasterJoin
    \/ \E p \in Pids : MasterFork(p) \/ ChildExit(p)
    \/ WaiterCheck \/ WaiterTest \/ WaiterWait \/ WaiterSearch \/ WaiterSend

Spec == Init /\ [][Next]_vars

(***************************************************************************)
(* Fairness: threads are scheduled, commands end, and tup ends after its   *)
(* last job.  fork() never has to fail.  A write() that keeps finding the  *)
(* socket full only now and then gets through: strong fairness.            *)
(***************************************************************************)
FairSpec ==
    /\ Spec
    /\ \A s \in Sids : SF_vars(Send(s)) /\ WF_vars(WaitForMySid(s))
    /\ WF_vars(Notify) /\ WF_vars(NotifyEof)
    /\ WF_vars(PostExit) /\ WF_vars(WaitMaster) /\ WF_vars(JoinNotifier)
    /\ WF_vars(MasterRead) /\ WF_vars(\E p \in Pids : MasterFork(p)) /\ WF_vars(MasterInsert)
    /\ SF_vars(MasterBye) /\ WF_vars(MasterSignal) /\ WF_vars(MasterJoin)
    /\ \A p \in Pids : WF_vars(ChildExit(p))
    /\ WF_vars(WaiterCheck) /\ WF_vars(WaiterTest) /\ WF_vars(WaiterWait)
    /\ WF_vars(WaiterSearch) /\ SF_vars(WaiterSend)

(***************************************************************************)
(* Properties                                                              *)
(***************************************************************************)
(* The master's two ways to break down: fork() failed, or wait() returned  *)
(* a child whose pid was not inserted yet.                                 *)
Broken == master.pc = "dead" \/ waiter.pc = "dead"

(* A job is told the status of its own sub-process: pids are given out     *)
(* again, sids are used again by the next run-script of a directory, and   *)
(* statuses come back in any order.                                        *)
StatusIsOwn == \A r \in results : r.status = r.exec

(* child_waiter dies in no other way than by the race of a child's end     *)
(* with the insertion of its pid: it never calls wait() without a child    *)
(* ("wait" fails with ECHILD), and every status reaches an entry of        *)
(* status_root, so that child_wait_notifier only ends at the shutdown or   *)
(* with the master.                                                        *)
NobodyGivesUp ==
    /\ waiter.pc = "wait" => \E p \in Pids : proc[p].state # "free"
    /\ notifier = "end" => exiting \/ master.pc \in {"signal", "dead"}

(* When tup has shut the master down no sub-process is left behind,        *)
(* unreaped or unreported, and child_waiter ended by itself.               *)
ShutdownIsClean ==
    tup = "end" /\ waiter.pc # "dead" =>
        /\ waiter.pc = "end" /\ statusRoot = {}
        /\ \A p \in Pids : proc[p].state = "free" /\ tree[p] = None

(* Every execution returns unless the master broke down: no wake-up is     *)
(* lost, and the two directions of the socket never block each other.      *)
JobsEnd ==
    \A s \in Sids : job[s].pc \in {"send", "wait", "asleep"} ~>
                        (job[s].pc \in {"idle", "failed"} \/ Broken)

(* server_post_exit() returns, whatever happened to the master, once no    *)
(* job is under way.                                                       *)
ShutdownEnds == tup = "waitpid" ~> tup \in {"end", "failed"}

(* The comment of sighandler(): the master stays "so we can send all the   *)
(* waitpid return values back to the main tup process".  It does not when  *)
(* child_waiter, already in wait() for another child, reaps a child before *)
(* its pid is inserted: the thread ends and every later status is lost.    *)
AllStatusesSent ==
    \A s \in Sids : job[s].pc \in {"send", "wait", "asleep"} ~>
                        (job[s].pc \in {"idle", "failed"} \/ master.pc = "dead")
=============================================================================
