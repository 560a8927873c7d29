---------------------------- MODULE ExecuteGraph ----------------------------
(***************************************************************************)
(* execute_graph(): the main thread walks the graph of nodes (files and    *)
(* commands) that need work, and hands each node whose incoming edges are  *)
(* gone to one of the worker threads.  A node that was worked on without   *)
(* error gives its outgoing edges away (pop_node()).                       *)
(*                                                                         *)
(* A transient file is visited twice: after its first visit its edges are  *)
(* turned round, so that it comes back, to be deleted, once every command  *)
(* that reads it is through.                                               *)
(***************************************************************************)
EXTENDS Naturals, FiniteSets

CONSTANTS Nodes,    \* the nodes of the graph, the root included
          Root,     \* g->root
          NoNode,   \* a NULL node pointer
          Workers,  \* the worker threads (jobs of them)
          Graphs,   \* the graphs to execute: records [edges, transient]
          Signals   \* the signals that may arrive: 0 or 1

(***************************************************************************)
(* Files point to commands and groups, never to files.  A node is created  *)
(* with an edge to it, and prune_graph() keeps what leads to the nodes it  *)
(* keeps: only the root has no incoming edge.                              *)
(***************************************************************************)
WellFormed(G) ==
    /\ G.edges \subseteq Nodes \X (Nodes \ {Root})
    /\ G.transient \subseteq Nodes \ {Root}
    /\ \A e \in G.edges : e[1] \in G.transient => e[2] \notin G.transient
    /\ \A n \in Nodes \ {Root} : \E m \in Nodes : <<m, n>> \in G.edges

ASSUME ExecuteGraphAssumption ==
    /\ Root \in Nodes
    /\ NoNode \notin Nodes
    /\ Workers # {} /\ IsFiniteSet(Workers)
    /\ Signals \in {0, 1}
    /\ \A G \in Graphs : WellFormed(G)

VARIABLES
    graph,       \* the graph that execute_graph() was called with
    keep_going,  \* its argument
    \* the graph
    edges,       \* the edges that are left
    list,        \* list[n]: the list node n is on
    state,       \* state[n]: STATE_FINISHED or STATE_PROCESSING
    transient,   \* transient[n]: the phase of a transient file
    \* the main thread
    mpc, failed, active, rc,
    dead,        \* server_is_dead(): a signal was caught
    \* the worker threads
    wpc,         \* wpc[w]: the next step of worker w
    wlist,       \* wlist[w]: free_list, active_list or fin_list
    wn, retn,    \* wt->n and wt->retn
    wrc,         \* wt->rc
    quit,        \* wt->quit
    \* what was done, for the properties
    okd, deleted, bad

nodevars == <<edges, list, state, transient>>
mainvars == <<mpc, failed, active, rc>>
workvars == <<wpc, wlist, wn, retn, wrc, quit>>
history  == <<okd, deleted, bad>>
const    == <<graph, keep_going>>
vars     == <<graph, keep_going, edges, list, state, transient, mpc, failed,
              active, rc, dead, wpc, wlist, wn, retn, wrc, quit, okd, deleted,
              bad>>

On(l) == {n \in Nodes : list[n] = l}
WorkersOn(l) == {w \in Workers : wlist[w] = l}

-----------------------------------------------------------------------------
Init ==
    /\ graph \in Graphs
    /\ keep_going \in BOOLEAN
    /\ edges = graph.edges
    /\ list = [n \in Nodes |-> "node_list"]
    /\ state = [n \in Nodes |-> "finished"]
    /\ transient = [n \in Nodes |-> IF n \in graph.transient THEN "processing" ELSE "none"]
    /\ mpc = "start"
    /\ failed = 0 /\ active = 0 /\ rc = 1
    /\ dead = FALSE
    /\ wpc = [w \in Workers |-> "wait"]
    /\ wlist = [w \in Workers |-> "free"]
    /\ wn = [w \in Workers |-> NoNode]
    /\ retn = [w \in Workers |-> NoNode]
    /\ wrc = [w \in Workers |-> 1]
    /\ quit = [w \in Workers |-> FALSE]
    /\ okd = {} /\ deleted = {} /\ bad = {}

-----------------------------------------------------------------------------
(***************************************************************************)
(* pop_node().  node_remove_list() and node_insert_head() fail when a node *)
(* is not on the list it should be on; execute_graph() then returns -2.    *)
(***************************************************************************)
Dests(n)  == {d \in Nodes : <<n, d>> \in edges}
(* Mutant: a node that is on plist already is moved again. *)
MovedAll(n) == Dests(n)

Moved(n)  == {d \in Dests(n) : state[d] # "processing"}
Turned(n) == IF transient[n] = "processing" THEN {<<d, n>> : d \in Dests(n)} ELSE {}

PopNode(n) ==
    /\ edges' = (edges \ {<<n, d>> : d \in Dests(n)}) \cup Turned(n)
    /\ list' = [m \in Nodes |->
          IF m \in Moved(n) THEN "plist"
          ELSE IF m # n THEN list[m]
          ELSE IF transient[n] # "processing" THEN "removed"
          ELSE IF Dests(n) # {} THEN "node_list" ELSE "plist"]
    /\ state' = [m \in Nodes |->
          IF m \in Moved(n) THEN "processing"
          ELSE IF m = n /\ transient[n] = "processing" THEN "finished" ELSE state[m]]
    /\ transient' = [transient EXCEPT ![n] = IF @ = "processing" THEN "delete" ELSE @]

PopNodeOK(n) == Moved(n) \subseteq On("node_list")

(* ... and goes on at label next. *)
Pop(n, next) ==
    IF PopNodeOK(n) THEN PopNode(n) /\ mpc' = next
                    ELSE UNCHANGED nodevars /\ mpc' = "error"

-----------------------------------------------------------------------------
(***************************************************************************)
(* The main thread.                                                        *)
(***************************************************************************)
PopRoot ==
    /\ mpc = "start"
    /\ Pop(Root, "loop")
    /\ UNCHANGED <<const, failed, active, rc, dead, workvars, history>>

(* Mutant: keep_going is ignored. *)
StoppingAlways == dead \/ failed > 0

Stopping == dead \/ (failed > 0 /\ ~keep_going)

(* A node with incoming edges goes back to node_list. *)
Postpone(n) ==
    /\ mpc = "loop" /\ mpc' = "check"
    /\ ~Stopping
    /\ n \in On("plist")
    /\ \E m \in Nodes : <<m, n>> \in edges
    /\ list' = [list EXCEPT ![n] = "node_list"]
    /\ state' = [state EXCEPT ![n] = "finished"]
    /\ UNCHANGED <<const, edges, transient, failed, active, rc, dead, workvars, history>>

(* pthread_cond_signal(&wt->cond) *)
Wake(w) == IF wpc[w] = "asleep" THEN "wait" ELSE wpc[w]

(* Mutant: a node is taken although it has incoming edges. *)
AssignEager(n, w) ==
    /\ mpc = "loop" /\ mpc' = "check"
    /\ ~Stopping
    /\ n \in On("plist")
    /\ wlist[w] = "free"
    /\ list' = [list EXCEPT ![n] = "none"]
    /\ active' = active + 1
    /\ wlist' = [wlist EXCEPT ![w] = "active"]
    /\ wn' = [wn EXCEPT ![w] = n]
    /\ wrc' = [wrc EXCEPT ![w] = 1]
    /\ wpc' = [wpc EXCEPT ![w] = Wake(w)]
    /\ UNCHANGED <<const, edges, state, transient, failed, rc, dead, retn, quit, history>>

(***************************************************************************)
(* A node without incoming edges goes to a worker that is free.  (One that *)
(* is not expanded would be popped at once; process_update_nodes() and the *)
(* other callers run graphs that build_graph() has expanded.)              *)
(***************************************************************************)
Assign(n, w) ==
    /\ mpc = "loop" /\ mpc' = "check"
    /\ ~Stopping
    /\ n \in On("plist")
    /\ \A m \in Nodes : <<m, n>> \notin edges
    /\ wlist[w] = "free"
    /\ list' = [list EXCEPT ![n] = "none"]
    /\ active' = active + 1
    /\ wlist' = [wlist EXCEPT ![w] = "active"]
    /\ wn' = [wn EXCEPT ![w] = n]
    /\ wrc' = [wrc EXCEPT ![w] = 1]
    /\ wpc' = [wpc EXCEPT ![w] = Wake(w)]
    /\ UNCHANGED <<const, edges, state, transient, failed, rc, dead, retn, quit, history>>

(* The condition of the loop at check_empties. *)
MustReap == WorkersOn("free") = {} \/ ((On("plist") = {} \/ Stopping) /\ active > 0)

CheckEmpties ==
    /\ mpc = "check"
    /\ mpc' = IF MustReap THEN "reap" ELSE "loop"
    /\ UNCHANGED <<const, nodevars, failed, active, rc, dead, workvars, history>>

(* pthread_cond_wait(&list_cond) *)
Sleep ==
    /\ mpc = "reap" /\ mpc' = "asleep"
    /\ WorkersOn("fin") = {}
    /\ UNCHANGED <<const, nodevars, failed, active, rc, dead, workvars, history>>

Reap(w) ==
    /\ mpc = "reap"
    /\ wlist[w] = "fin"
    /\ retn' = [retn EXCEPT ![w] = NoNode]
    /\ wlist' = [wlist EXCEPT ![w] = "free"]
    /\ active' = active - 1
    /\ IF wrc[w] = 0
         THEN /\ Pop(retn[w], "check")
              /\ UNCHANGED failed
         ELSE /\ list' = [list EXCEPT ![retn[w]] = "node_list"]
              /\ failed' = failed + 1
              /\ mpc' = "check"
              /\ UNCHANGED <<edges, state, transient>>
    /\ UNCHANGED <<const, rc, dead, wpc, wn, wrc, quit, history>>

(* Mutant: only failed jobs count, not what is left of the graph. *)
FinishOnFailed ==
    /\ mpc = "loop" /\ mpc' = "quit"
    /\ On("plist") = {} \/ Stopping
    /\ rc' = IF failed > 0 THEN 1 ELSE 0
    /\ UNCHANGED <<const, nodevars, failed, active, dead, workvars, history>>

(* The main loop ends, and the result is known. *)
Finish ==
    /\ mpc = "loop" /\ mpc' = "quit"
    /\ On("plist") = {} \/ Stopping
    /\ rc' = IF dead \/ failed > 0 \/ On("node_list") # {} \/ On("plist") # {} THEN 1 ELSE 0
    /\ UNCHANGED <<const, nodevars, failed, active, dead, workvars, history>>

TellQuit(w) ==
    /\ mpc = "quit"
    /\ ~quit[w]
    /\ quit' = [quit EXCEPT ![w] = TRUE]
    /\ wpc' = [wpc EXCEPT ![w] = Wake(w)]
    /\ UNCHANGED <<const, nodevars, mainvars, dead, wlist, wn, retn, wrc, history>>

Join ==
    /\ mpc = "quit" /\ mpc' = "done"
    /\ \A w \in Workers : quit[w] /\ wpc[w] = "exit"
    /\ UNCHANGED <<const, nodevars, failed, active, rc, dead, workvars, history>>

-----------------------------------------------------------------------------
(***************************************************************************)
(* A worker thread: run_thread().                                          *)
(***************************************************************************)
WorkerWait(w) ==
    /\ wpc[w] = "wait"
    /\ wpc' = [wpc EXCEPT ![w] = IF wn[w] = NoNode /\ ~quit[w] THEN "asleep" ELSE "test"]
    /\ UNCHANGED <<const, nodevars, mainvars, dead, wlist, wn, retn, wrc, quit, history>>

(* wt->quit is read again, after the unlock. *)
WorkerTest(w) ==
    /\ wpc[w] = "test"
    /\ wpc' = [wpc EXCEPT ![w] = IF quit[w] THEN "exit" ELSE "run"]
    /\ UNCHANGED <<const, nodevars, mainvars, dead, wlist, wn, retn, wrc, quit, history>>

(* Mutant: wt->n is not cleared. *)
WorkerRunAgain(w, r) ==
    /\ wpc[w] = "run"
    /\ wpc' = [wpc EXCEPT ![w] = "ret"]
    /\ wrc' = [wrc EXCEPT ![w] = r]
    /\ retn' = [retn EXCEPT ![w] = wn[w]]
    /\ okd' = IF r = 0 /\ transient[wn[w]] # "delete" THEN okd \cup {wn[w]} ELSE okd
    /\ deleted' = IF r = 0 /\ transient[wn[w]] = "delete" THEN deleted \cup {wn[w]} ELSE deleted
    /\ bad' = IF r # 0 THEN bad \cup {wn[w]} ELSE bad
    /\ UNCHANGED <<const, nodevars, mainvars, dead, wlist, wn, quit>>

(* wt->fn() is over, well or badly, and worker_ret() starts. *)
WorkerRun(w, r) ==
    /\ wpc[w] = "run"
    /\ wpc' = [wpc EXCEPT ![w] = "ret"]
    /\ wrc' = [wrc EXCEPT ![w] = r]
    /\ retn' = [retn EXCEPT ![w] = wn[w]]
    /\ wn' = [wn EXCEPT ![w] = NoNode]
    /\ okd' = IF r = 0 /\ transient[wn[w]] # "delete" THEN okd \cup {wn[w]} ELSE okd
    /\ deleted' = IF r = 0 /\ transient[wn[w]] = "delete" THEN deleted \cup {wn[w]} ELSE deleted
    /\ bad' = IF r # 0 THEN bad \cup {wn[w]} ELSE bad
    /\ UNCHANGED <<const, nodevars, mainvars, dead, wlist, quit>>

(* Mutant: list_cond is not signalled. *)
WorkerRetSilent(w) ==
    /\ wpc[w] = "ret"
    /\ wpc' = [wpc EXCEPT ![w] = "wait"]
    /\ wlist' = [wlist EXCEPT ![w] = "fin"]
    /\ UNCHANGED <<const, nodevars, mainvars, dead, wn, retn, wrc, quit, history>>

(* The rest of worker_ret(), under list_mutex. *)
WorkerRet(w) ==
    /\ wpc[w] = "ret"
    /\ wpc' = [wpc EXCEPT ![w] = "wait"]
    /\ wlist' = [wlist EXCEPT ![w] = "fin"]
    /\ mpc' = IF mpc = "asleep" THEN "reap" ELSE mpc
    /\ UNCHANGED <<const, nodevars, failed, active, rc, dead, wn, retn, wrc, quit, history>>

(* SIGINT or SIGTERM. *)
Signal ==
    /\ ~dead /\ Signals = 1
    /\ dead' = TRUE
    /\ UNCHANGED <<const, nodevars, mainvars, workvars, history>>

-----------------------------------------------------------------------------
Main ==
    \/ PopRoot
    \/ \E n \in Nodes : Postpone(n)
    \/ \E n \in Nodes, w \in Workers : Assign(n, w)
    \/ CheckEmpties
    \/ Sleep
    \/ \E w \in Workers : Reap(w)
    \/ Finish
    \/ \E w \in Workers : TellQuit(w)
    \/ Join

Worker(w) ==
    WorkerWait(w) \/ WorkerTest(w) \/ (\E r \in {0, 1} : WorkerRun(w, r)) \/ WorkerRet(w)

(* execute_graph() has returned. *)
Terminating == mpc \in {"done", "error"} /\ UNCHANGED vars

Next == Main \/ (\E w \in Workers : Worker(w)) \/ Signal \/ Terminating

Spec == Init /\ [][Next]_vars

(* Threads are scheduled, and every command comes to an end. *)
FairSpec == Spec /\ WF_vars(Main) /\ \A w \in Workers : WF_vars(Worker(w))

-----------------------------------------------------------------------------
TypeOK ==
    /\ WellFormed(graph)
    /\ keep_going \in BOOLEAN /\ dead \in BOOLEAN
    /\ edges \subseteq Nodes \X Nodes
    /\ list \in [Nodes -> {"node_list", "plist", "none", "removed"}]
    /\ state \in [Nodes -> {"finished", "processing"}]
    /\ transient \in [Nodes -> {"none", "processing", "delete"}]
    /\ mpc \in {"start", "loop", "check", "reap", "asleep", "quit", "done", "error"}
    /\ failed \in Nat /\ active \in Nat /\ rc \in {0, 1}
    /\ wpc \in [Workers -> {"wait", "asleep", "test", "run", "ret", "exit"}]
    /\ wlist \in [Workers -> {"free", "active", "fin"}]
    /\ wn \in [Workers -> Nodes \cup {NoNode}]
    /\ retn \in [Workers -> Nodes \cup {NoNode}]
    /\ wrc \in [Workers -> {0, 1}]
    /\ quit \in [Workers -> BOOLEAN]
    /\ okd \subseteq Nodes /\ deleted \subseteq Nodes /\ bad \subseteq Nodes

Preds(n) == {m \in Nodes \ {Root} : <<m, n>> \in graph.edges}
Succs(n) == {m \in Nodes : <<n, m>> \in graph.edges}

Running(w, n) == wpc[w] = "run" /\ wn[w] = n

(***************************************************************************)
(* A worker never starts on a node before everything it depends on was     *)
(* worked on without error; and a transient file is never deleted before   *)
(* every command of the graph that reads it is through.                    *)
(***************************************************************************)
DependencyOrder ==
    \A w \in Workers, n \in Nodes : Running(w, n) =>
        IF transient[n] = "delete" THEN n \in okd /\ Succs(n) \subseteq okd
                                   ELSE Preds(n) \subseteq okd

(***************************************************************************)
(* No node is worked on twice, be it by two workers at once or one after   *)
(* the other; a transient file is visited once and deleted once.           *)
(***************************************************************************)
NoDoubleWork ==
    \A w \in Workers, n \in Nodes : Running(w, n) =>
        /\ n \notin bad
        /\ IF transient[n] = "delete" THEN n \notin deleted ELSE n \notin okd
        /\ \A v \in Workers \ {w} : ~Running(v, n)

(***************************************************************************)
(* execute_graph() reports success only if every node was worked on        *)
(* without error and every transient file was deleted.                     *)
(***************************************************************************)
SuccessIsComplete ==
    mpc = "done" /\ rc = 0 =>
        okd = Nodes \ {Root} /\ deleted = graph.transient /\ bad = {}

(***************************************************************************)
(* With keep_going an error only costs what depends on it: when nobody     *)
(* interrupts it, every node is worked on, or failed, or waits for a node  *)
(* that was not; and a transient file is kept only for such a reader.      *)
(***************************************************************************)
ErrorsAreContained ==
    mpc = "done" /\ keep_going /\ ~dead =>
        \A n \in Nodes \ {Root} :
            /\ n \in okd \/ n \in bad \/ ~(Preds(n) \subseteq okd)
            /\ n \in graph.transient /\ n \in okd =>
                  n \in deleted \/ n \in bad \/ ~(Succs(n) \subseteq okd)

(***************************************************************************)
(* The list checks of node_remove_list() and node_insert_head() never      *)
(* fail ("tup internal error"), and the main thread always finds a free    *)
(* worker when it takes the head of free_list.                             *)
(***************************************************************************)
ListsConsistent ==
    /\ mpc # "error"
    /\ mpc = "loop" => WorkersOn("free") # {}
    /\ mpc = "reap" => \A w \in WorkersOn("fin") :
                          retn[w] # NoNode /\ list[retn[w]] = "none"

(***************************************************************************)
(* execute_graph() returns, whatever jobs fail and whenever a signal       *)
(* arrives: no wake-up between worker_wait(), worker_ret() and the main    *)
(* thread's pthread_cond_wait() is lost, and every worker is joined.       *)
(***************************************************************************)
Terminates == <>(mpc = "done")
=============================================================================
