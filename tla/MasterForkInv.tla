---------------------------- MODULE MasterForkInv ----------------------------
(***************************************************************************)
(* The inductive invariant of MasterFork.  An execution is a token that    *)
(* moves on from a request through the master, child_waiter_root and       *)
(* child_waiter to a status; there is at most one per sid, it carries the  *)
(* execution of the job, and its entry is in status_root meanwhile.        *)
(***************************************************************************)
EXTENDS MasterFork

(* The places of the token of s. *)
Has(q, s)   == \E i \in 1..Len(q) : q[i].sid = s
AtMaster(s) == master.pc \in {"fork", "insert"} /\ master.msg.sid = s
InTree(s)   == \E p \in Pids : tree[p] = s
AtWaiter(s) == waiter.pc = "send" /\ waiter.rcm.sid = s

Once(q, s)       == \A i, j \in 1..Len(q) : q[i].sid = s /\ q[j].sid = s => i = j
Carries(q, s, e) == \A i \in 1..Len(q) : q[i].sid = s => q[i].exec = e

(* It is in one place, and only between the send and the notification. *)
Token(s) ==
    /\ Has(toMaster, s) =>
          Once(toMaster, s) /\ ~AtMaster(s) /\ ~InTree(s) /\ ~AtWaiter(s) /\ ~Has(toTup, s)
    /\ AtMaster(s) => ~InTree(s) /\ ~AtWaiter(s) /\ ~Has(toTup, s)
    /\ InTree(s) => ~AtWaiter(s) /\ ~Has(toTup, s)
    /\ \A p, q \in Pids : tree[p] = s /\ tree[q] = s => p = q
    /\ AtWaiter(s) => ~Has(toTup, s)
    /\ Has(toTup, s) => Once(toTup, s)
    /\ Has(toMaster, s) \/ AtMaster(s) \/ InTree(s) \/ AtWaiter(s) \/ Has(toTup, s) =>
          s \in statusRoot /\ job[s].pc \in {"wait", "asleep"}

(* It carries the execution that the job waits for. *)
Carried(s) ==
    /\ Carries(toMaster, s, job[s].exec)
    /\ AtMaster(s) => master.msg.exec = job[s].exec
    /\ \A p \in Pids : tree[p] = s => proc[p].exec = job[s].exec
    /\ AtWaiter(s) => waiter.rcm.exec = job[s].exec
    /\ Carries(toTup, s, job[s].exec)
    /\ job[s].set => job[s].status = job[s].exec

(* A job has an entry in status_root until it is told its status. *)
Entry(s) ==
    /\ s \in statusRoot <=> job[s].pc # "idle" /\ ~job[s].set
    /\ job[s].pc \in {"send", "asleep", "failed"} => ~job[s].set
    /\ job[s].pc = "failed" => master.pc = "dead"

TokenInv == \A s \in Sids : Token(s)
ExecInv  == \A s \in Sids : Carried(s)
JobInv   == \A s \in Sids : Entry(s)

(***************************************************************************)
(* A child is in the tree, or the master is about to insert it; it may be  *)
(* reaped before that, but then child_waiter does not survive its search.  *)
(***************************************************************************)
ProcInv ==
    /\ \A p \in Pids :
          /\ proc[p].state # "free" =>
                tree[p] # None \/ (master.pc = "insert" /\ master.pid = p)
          /\ tree[p] # None \/ (master.pc = "insert" /\ master.pid = p) =>
                \/ proc[p].state # "free"
                \/ waiter.pid = p /\ waiter.pc \in {"search", "dead"}
          /\ waiter.pid = p => proc[p].state = "free"
    /\ master.pc = "insert" =>
          /\ master.pid \in Pids /\ tree[master.pid] = None
          /\ proc[master.pid].exec = master.msg.exec
    /\ master.pc \in {"fork", "insert"} => master.msg.sid # None

WaiterInv ==
    /\ waiter.pc \in {"check", "asleep", "test", "wait", "end"} => waiter.pid = None
    /\ waiter.pc \in {"search", "send"} => waiter.pid \in Pids
    /\ waiter.pc = "search" => waiter.rcm.exec = proc[waiter.pid].exec
    /\ waiter.pc = "send" => waiter.rcm.sid # None
    /\ waiter.pc = "test" => exiting \/ \E p \in Pids : tree[p] # None
    /\ waiter.pc = "wait" => \E p \in Pids : tree[p] # None

(* The shutdown goes from tup to the master, and from there to both        *)
(* threads that have to end.                                               *)
ShutdownInv ==
    /\ exiting <=> master.pc \in {"join", "end"}
    /\ Has(toTup, None) => master.pc \in {"signal", "join", "end"}
    /\ notifier = "end" => master.pc \in {"signal", "join", "end", "dead"}
    /\ master.pc = "end" => waiter.pc \in {"end", "dead"}
    /\ tup \in {"join", "end"} => master.pc = "end"
    /\ tup \notin {"run", "failed"} => \A s \in Sids : job[s].pc \in {"idle", "failed"}

IndInv ==
    /\ TypeOK
    /\ TokenInv
    /\ ExecInv
    /\ JobInv
    /\ ProcInv
    /\ WaiterInv
    /\ ShutdownInv
    /\ StatusIsOwn
=============================================================================
