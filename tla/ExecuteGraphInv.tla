--------------------------- MODULE ExecuteGraphInv ---------------------------
(***************************************************************************)
(* The inductive invariant of ExecuteGraph: what the list, the edges and   *)
(* the state of a node say about each other, who holds a node that is on   *)
(* no list, and what was done with it so far.                              *)
(***************************************************************************)
EXTENDS ExecuteGraph

(* Worker w holds node n: to work on it, or to give it back. *)
Holds(w, n) == wn[w] = n \/ retn[w] = n

(* pop_node() was called for n. *)
Popped(n) == list[n] = "removed" \/ transient[n] = "delete"

Idle(w) == wlist[w] = "free"

(***************************************************************************)
(* A worker thread: what it holds follows from its list and its place, and *)
(* nobody is told to quit before the main loop is over.                    *)
(***************************************************************************)
WorkerInv ==
    \A w \in Workers :
        /\ wlist[w] = "free" =>
              /\ wn[w] = NoNode /\ retn[w] = NoNode
              /\ wpc[w] \in {"wait", "asleep", "test", "exit"}
        /\ wlist[w] = "active" =>
              \/ wn[w] # NoNode /\ retn[w] = NoNode /\ wpc[w] \in {"wait", "test", "run", "exit"}
              \/ wn[w] = NoNode /\ retn[w] # NoNode /\ wpc[w] = "ret"
        /\ wlist[w] = "fin" =>
              /\ wn[w] = NoNode /\ retn[w] # NoNode
              /\ wpc[w] \in {"wait", "asleep", "test", "exit"}
        /\ wpc[w] = "test" /\ wn[w] = NoNode => quit[w]
        /\ wpc[w] = "exit" => quit[w]
        /\ quit[w] => mpc \in {"quit", "done"}

(* A node that is held is on no list, and only one worker holds it. *)
HeldInv ==
    \A w \in Workers, n \in Nodes : Holds(w, n) =>
        /\ list[n] = "none"
        /\ \A v \in Workers : Holds(v, n) => v = w

(* No node is lost. *)
NoneLost == \A n \in Nodes : list[n] = "none" => \E w \in Workers : Holds(w, n)

(***************************************************************************)
(* The edges that are left point to nodes that wait for them, and come     *)
(* from nodes that are not through.  Those to a transient file that waits  *)
(* to be deleted are turned round.                                         *)
(***************************************************************************)
EdgeInv ==
    \A m, n \in Nodes : <<m, n>> \in edges =>
        /\ \/ list[n] = "node_list" /\ state[n] = "finished"
           \/ list[n] = "plist" /\ state[n] = "processing"
        /\ ~Popped(m)
        /\ IF transient[n] = "delete" THEN <<n, m>> \in graph.edges
                                      ELSE <<m, n>> \in graph.edges

(* An edge leaves the graph only when its source is through, and so does   *)
(* one that was turned round.                                              *)
GraphInv ==
    \A m, n \in Nodes : <<m, n>> \in graph.edges =>
        /\ <<m, n>> \in edges \/ Popped(m)
        /\ transient[m] = "delete" => <<n, m>> \in edges \/ list[n] = "removed"

(* The root is popped first, and never again; nobody works on it. *)
RootInv ==
    /\ Root \notin okd \cup deleted \cup bad
    /\ list[Root] = IF mpc = "start" THEN "node_list" ELSE "removed"
    /\ \A n \in Nodes : transient[n] # "none" <=> n \in graph.transient
    /\ mpc # "error"

(***************************************************************************)
(* What was done with a node, and where it is since.                       *)
(***************************************************************************)
DoneInv ==
    \A n \in Nodes :
        /\ Popped(n) => n = Root \/ n \in okd
        /\ list[n] = "removed" => /\ transient[n] # "processing"
                                  /\ transient[n] = "delete" => n \in deleted
        /\ n \in okd /\ transient[n] # "delete" =>
              /\ list[n] \in {"none", "removed"}
              /\ \A w \in Workers : wn[w] # n /\ (retn[w] = n => wrc[w] = 0)
        /\ n \in deleted =>
              /\ transient[n] = "delete" /\ list[n] \in {"none", "removed"}
              /\ \A w \in Workers : wn[w] # n /\ (retn[w] = n => wrc[w] = 0)
        /\ n \in bad =>
              /\ list[n] \in {"none", "node_list"}
              /\ \A m \in Nodes : <<m, n>> \notin edges
              /\ \A w \in Workers : wn[w] # n /\ (retn[w] = n => wrc[w] = 1)
        /\ \A w \in Workers : retn[w] = n =>
              IF wrc[w] = 0 THEN n \in okd /\ (transient[n] = "delete" => n \in deleted)
                            ELSE n \in bad

(* A node waits on node_list for another one, or because it failed. *)
WaitInv ==
    \A n \in Nodes \ {Root} : list[n] = "node_list" =>
        n \in bad \/ \E m \in Nodes : <<m, n>> \in edges

(***************************************************************************)
(* The main thread counts the workers that are not free, does not leave    *)
(* check_empties without one that is, nor with an empty plist while jobs   *)
(* are under way.  What Finish saw stays so.                               *)
(***************************************************************************)
MainInv ==
    /\ active = Cardinality({w \in Workers : ~Idle(w)})
    /\ mpc = "start" => active = 0
    /\ mpc = "loop" => /\ WorkersOn("free") # {}
                       /\ On("plist") = {} => active = 0
    /\ mpc \in {"quit", "done"} /\ rc = 0 => \A n \in Nodes : list[n] = "removed"
    /\ mpc \in {"quit", "done"} /\ keep_going /\ ~dead =>
          \A n \in Nodes : list[n] \in {"node_list", "removed"}

IndInv ==
    /\ TypeOK
    /\ WorkerInv
    /\ HeldInv
    /\ NoneLost
    /\ EdgeInv
    /\ GraphInv
    /\ RootInv
    /\ DoneInv
    /\ WaitInv
    /\ MainInv
=============================================================================
