------------------------- MODULE ExecuteGraphProofs -------------------------
(***************************************************************************)
(* Machine-checked proofs about execute_graph(), for every graph, any      *)
(* number of worker threads, and with or without a signal.                 *)
(***************************************************************************)
EXTENDS ExecuteGraphInv, FiniteSetTheorems, TLAPS

-----------------------------------------------------------------------------
(***************************************************************************)
(* What kinds of steps there are.  A quiet step touches neither a node nor *)
(* what the workers hold, only where the threads are.                      *)
(***************************************************************************)
Quiet ==
    UNCHANGED <<const, nodevars, failed, active, wn, retn, wrc, history>>

LEMMA StepKinds ==
    ASSUME [Next]_vars
    PROVE  \/ PopRoot
           \/ \E n \in Nodes : Postpone(n)
           \/ \E n \in Nodes, w \in Workers : Assign(n, w)
           \/ \E w \in Workers : Reap(w)
           \/ \E w \in Workers, r \in {0, 1} : WorkerRun(w, r)
           \/ Quiet
<1>1. CASE CheckEmpties
  BY <1>1 DEF CheckEmpties, Quiet, workvars
<1>2. CASE Sleep
  BY <1>2 DEF Sleep, Quiet, workvars
<1>3. CASE Finish
  BY <1>3 DEF Finish, Quiet, workvars
<1>4. ASSUME NEW w \in Workers, TellQuit(w) PROVE Quiet
  BY <1>4 DEF TellQuit, Quiet, mainvars
<1>5. CASE Join
  BY <1>5 DEF Join, Quiet, workvars
<1>6. ASSUME NEW w \in Workers, WorkerWait(w) \/ WorkerTest(w) \/ WorkerRet(w) PROVE Quiet
  BY <1>6 DEF WorkerWait, WorkerTest, WorkerRet, Quiet, mainvars
<1>7. CASE Signal
  BY <1>7 DEF Signal, Quiet, mainvars, workvars
<1>8. CASE UNCHANGED vars
  BY <1>8 DEF vars, Quiet, const, nodevars, history
<1> QED
  BY <1>1, <1>2, <1>3, <1>4, <1>5, <1>6, <1>7, <1>8
     DEF Next, Main, Worker, Terminating

(* A node that is popped has no incoming edges: it is the root, or a       *)
(* worker gives it back.                                                   *)
LEMMA NoIncoming ==
    ASSUME IndInv, NEW n \in Nodes, list[n] = "none" \/ n = Root
    PROVE  \A m \in Nodes : <<m, n>> \notin edges
<1>1. CASE list[n] = "none"
  BY <1>1 DEF IndInv, EdgeInv
<1>2. CASE n = Root
  <2>1. Root \in Nodes /\ Root \notin graph.transient /\ \A m \in Nodes : <<m, Root>> \notin graph.edges
    BY ExecuteGraphAssumption DEF IndInv, TypeOK, WellFormed
  <2>2. transient[Root] = "none"
    BY <2>1 DEF IndInv, RootInv, TypeOK
  <2> QED
    BY <1>2, <2>1, <2>2 DEF IndInv, EdgeInv
<1> QED
  BY <1>1, <1>2

(* So the list checks of pop_node() pass. *)
LEMMA PopIsOK ==
    ASSUME IndInv, NEW n \in Nodes
    PROVE  PopNodeOK(n)
BY DEF IndInv, EdgeInv, PopNodeOK, Moved, Dests, On

(* What a worker gives back. *)
LEMMA ReapFacts ==
    ASSUME IndInv, NEW w \in Workers, Reap(w)
    PROVE  /\ retn[w] \in Nodes /\ list[retn[w]] = "none"
           /\ wn[w] = NoNode
           /\ \A v \in Workers : Holds(v, retn[w]) => v = w
           /\ wrc[w] = 0 => PopNode(retn[w]) /\ failed' = failed
           /\ wrc[w] # 0 => /\ list' = [list EXCEPT ![retn[w]] = "node_list"]
                            /\ UNCHANGED <<edges, state, transient>>
                            /\ failed' = failed + 1
           /\ mpc' = "check" /\ UNCHANGED const /\ UNCHANGED history
<1>1. retn[w] \in Nodes /\ wn[w] = NoNode
  BY DEF Reap, IndInv, WorkerInv, TypeOK
<1>2. list[retn[w]] = "none" /\ \A v \in Workers : Holds(v, retn[w]) => v = w
  BY <1>1 DEF IndInv, HeldInv, Holds
<1>3. PopNodeOK(retn[w])
  BY <1>1, PopIsOK
<1> QED
  BY <1>1, <1>2, <1>3 DEF Reap, Pop

LEMMA PopRootFacts ==
    ASSUME IndInv, PopRoot
    PROVE  /\ Root \in Nodes /\ list[Root] = "node_list" /\ transient[Root] = "none"
           /\ PopNode(Root) /\ mpc' = "loop"
<1>1. Root \in Nodes /\ Root \notin graph.transient
  BY ExecuteGraphAssumption DEF IndInv, TypeOK, WellFormed
<1>2. list[Root] = "node_list" /\ transient[Root] = "none"
  BY <1>1 DEF IndInv, RootInv, PopRoot, TypeOK
<1>3. PopNodeOK(Root)
  BY <1>1, PopIsOK
<1> QED
  BY <1>1, <1>2, <1>3 DEF PopRoot, Pop

-----------------------------------------------------------------------------
(***************************************************************************)
(* pop_node(), node by node and edge by edge.                              *)
(***************************************************************************)
LEMMA PopEdges ==
    ASSUME IndInv, NEW n \in Nodes, PopNode(n), list[n] = "none" \/ n = Root
    PROVE  \A a, b \in Nodes :
              <<a, b>> \in edges' <=>
                  \/ <<a, b>> \in edges /\ a # n
                  \/ transient[n] = "processing" /\ b = n /\ <<n, a>> \in edges
<1> SUFFICES ASSUME NEW a \in Nodes, NEW b \in Nodes
             PROVE  <<a, b>> \in edges' <=>
                        \/ <<a, b>> \in edges /\ a # n
                        \/ transient[n] = "processing" /\ b = n /\ <<n, a>> \in edges
  OBVIOUS
<1>1. <<a, b>> \in {<<n, d>> : d \in Dests(n)} <=> a = n /\ <<a, b>> \in edges
  BY DEF Dests
<1>2. <<a, b>> \in Turned(n) <=> transient[n] = "processing" /\ b = n /\ <<n, a>> \in edges
  BY DEF Turned, Dests
<1> QED
  BY <1>1, <1>2 DEF PopNode

LEMMA PopOthers ==
    ASSUME IndInv, NEW n \in Nodes, PopNode(n), NEW m \in Nodes, m # n
    PROVE  /\ transient'[m] = transient[m]
           /\ <<n, m>> \in edges => list'[m] = "plist" /\ state'[m] = "processing"
           /\ <<n, m>> \notin edges => list'[m] = list[m] /\ state'[m] = state[m]
BY DEF IndInv, TypeOK, EdgeInv, PopNode, Moved, Dests

LEMMA PopSelf ==
    ASSUME IndInv, NEW n \in Nodes, PopNode(n), list[n] = "none" \/ n = Root
    PROVE  /\ transient[n] = "processing" =>
                 /\ transient'[n] = "delete" /\ state'[n] = "finished"
                 /\ list'[n] = IF \E d \in Nodes : <<n, d>> \in edges
                               THEN "node_list" ELSE "plist"
           /\ transient[n] # "processing" =>
                 transient'[n] = transient[n] /\ list'[n] = "removed"
<1>1. n \notin Moved(n)
  BY NoIncoming DEF Moved, Dests
<1>2. Dests(n) # {} <=> \E d \in Nodes : <<n, d>> \in edges
  BY DEF Dests
<1> QED
  BY <1>1, <1>2 DEF IndInv, TypeOK, PopNode

(* A transient file's edges are turned round: no transient file reads it. *)
LEMMA PopEdgeInv ==
    ASSUME IndInv, NEW n \in Nodes, PopNode(n), list[n] = "none" \/ n = Root,
           UNCHANGED const
    PROVE  EdgeInv'
<1> SUFFICES ASSUME NEW a \in Nodes, NEW b \in Nodes, <<a, b>> \in edges'
             PROVE  /\ \/ list'[b] = "node_list" /\ state'[b] = "finished"
                       \/ list'[b] = "plist" /\ state'[b] = "processing"
                    /\ ~Popped(a)'
                    /\ IF transient'[b] = "delete" THEN <<b, a>> \in graph.edges
                                                  ELSE <<a, b>> \in graph.edges
  BY DEF EdgeInv, const
<1>1. CASE <<a, b>> \in edges /\ a # n
  <2>1. b # n
    BY <1>1, NoIncoming
  <2>2. ~Popped(a)'
    BY <1>1, PopOthers DEF IndInv, EdgeInv, Popped
  <2> QED
    BY <1>1, <2>1, <2>2, PopOthers DEF IndInv, EdgeInv
<1>2. CASE transient[n] = "processing" /\ b = n /\ <<n, a>> \in edges
  <2>1. a # n
    BY <1>2, NoIncoming
  <2>2. list'[b] = "node_list" /\ state'[b] = "finished" /\ transient'[b] = "delete"
    BY <1>2, PopSelf
  <2>3. transient[a] # "delete" /\ <<n, a>> \in graph.edges
    BY <1>2 DEF IndInv, EdgeInv, RootInv, TypeOK, WellFormed
  <2>4. ~Popped(a)'
    BY <1>2, <2>1, <2>3, PopOthers DEF Popped
  <2> QED
    BY <1>2, <2>2, <2>3, <2>4
<1> QED
  BY <1>1, <1>2, PopEdges

LEMMA PopGraphInv ==
    ASSUME IndInv, NEW n \in Nodes, PopNode(n), list[n] = "none" \/ n = Root,
           UNCHANGED const
    PROVE  GraphInv'
<1> SUFFICES ASSUME NEW a \in Nodes, NEW b \in Nodes, <<a, b>> \in graph.edges
             PROVE  /\ <<a, b>> \in edges' \/ Popped(a)'
                    /\ transient'[a] = "delete" => <<b, a>> \in edges' \/ list'[b] = "removed"
  BY DEF GraphInv, const
<1>1. ASSUME NEW m \in Nodes, m # n, Popped(m) PROVE Popped(m)'
  <2>1. list[m] = "removed" => <<n, m>> \notin edges
    BY DEF IndInv, EdgeInv
  <2> QED
    BY <1>1, <2>1, PopOthers DEF Popped
<1>2. Popped(n)'
  BY PopSelf DEF Popped
<1>3. <<a, b>> \in edges' \/ Popped(a)'
  BY <1>1, <1>2, PopEdges DEF IndInv, GraphInv
<1>4. ASSUME transient'[a] = "delete" PROVE <<b, a>> \in edges' \/ list'[b] = "removed"
  <2>0. transient[a] = "delete" \/ (a = n /\ transient[n] = "processing")
    BY <1>4, PopSelf, PopOthers
  <2>1. a \in graph.transient
    BY <2>0 DEF IndInv, RootInv
  <2>2. b \notin graph.transient /\ b # Root
    BY <2>1 DEF IndInv, TypeOK, WellFormed
  <2>3. transient[b] = "none" /\ a # b
    BY <2>1, <2>2 DEF IndInv, RootInv, TypeOK
  <2>4. CASE a = n /\ transient[n] = "processing"
    <3>1. list[n] = "none"
      BY <2>1, <2>4 DEF IndInv, TypeOK, WellFormed
    <3>2. ~Popped(n)
      BY <2>4, <3>1 DEF Popped
    <3>3. <<a, b>> \in edges
      BY <2>4, <3>2 DEF IndInv, GraphInv
    <3> QED
      BY <2>4, <3>3, PopEdges
  <2>5. CASE transient[a] = "delete"
    <3>1. <<b, a>> \in edges \/ list[b] = "removed"
      BY <2>5 DEF IndInv, GraphInv
    <3>2. CASE list[b] = "removed"
      BY <3>2, <2>3, PopSelf, PopOthers DEF IndInv, EdgeInv
    <3>3. CASE <<b, a>> \in edges /\ b # n
      BY <3>3, PopEdges
    <3>4. CASE b = n
      BY <3>4, <2>3, PopSelf
    <3> QED
      BY <3>1, <3>2, <3>3, <3>4
  <2> QED
    BY <2>0, <2>4, <2>5
<1> QED
  BY <1>3, <1>4

LEMMA PopWaitInv ==
    ASSUME IndInv, NEW n \in Nodes, PopNode(n), list[n] = "none" \/ n = Root,
           UNCHANGED history
    PROVE  WaitInv'
<1> SUFFICES ASSUME NEW m \in Nodes \ {Root}, list'[m] = "node_list", m \notin bad
             PROVE  \E a \in Nodes : <<a, m>> \in edges'
  BY DEF WaitInv, history
<1>1. CASE m = n
  BY <1>1, PopSelf, PopEdges
<1>2. CASE m # n
  <2>1. <<n, m>> \notin edges /\ list[m] = "node_list"
    BY <1>2, PopOthers
  <2>2. PICK a \in Nodes : <<a, m>> \in edges
    BY <2>1 DEF IndInv, WaitInv
  <2> QED
    BY <2>1, <2>2, PopEdges
<1> QED
  BY <1>1, <1>2

-----------------------------------------------------------------------------
(***************************************************************************)
(* The nodes and the edges: one step per action that touches them.         *)
(***************************************************************************)
LEMMA EdgeStep ==
    ASSUME IndInv, [Next]_vars
    PROVE  EdgeInv'
<1>1. CASE PopRoot
  BY <1>1, PopRootFacts, PopEdgeInv DEF PopRoot
<1>2. ASSUME NEW n \in Nodes, Postpone(n) PROVE EdgeInv'
  BY <1>2 DEF IndInv, TypeOK, EdgeInv, Popped, Postpone, On, const
<1>3. ASSUME NEW n \in Nodes, NEW w \in Workers, Assign(n, w) PROVE EdgeInv'
  BY <1>3 DEF IndInv, TypeOK, EdgeInv, Popped, Assign, On, const
<1>4. ASSUME NEW w \in Workers, Reap(w) PROVE EdgeInv'
  <2>1. CASE wrc[w] = 0
    BY <1>4, <2>1, ReapFacts, PopEdgeInv
  <2>2. CASE wrc[w] # 0
    BY <1>4, <2>2, ReapFacts, NoIncoming DEF IndInv, TypeOK, EdgeInv, Popped, const
  <2> QED
    BY <2>1, <2>2
<1>5. ASSUME NEW w \in Workers, NEW r \in {0, 1}, WorkerRun(w, r) PROVE EdgeInv'
  BY <1>5 DEF IndInv, EdgeInv, Popped, WorkerRun, const, nodevars
<1>6. CASE Quiet
  BY <1>6 DEF IndInv, EdgeInv, Popped, Quiet, const, nodevars
<1> QED
  BY <1>1, <1>2, <1>3, <1>4, <1>5, <1>6, StepKinds

LEMMA GraphStep ==
    ASSUME IndInv, [Next]_vars
    PROVE  GraphInv'
<1>1. CASE PopRoot
  BY <1>1, PopRootFacts, PopGraphInv DEF PopRoot
<1>2. ASSUME NEW n \in Nodes, Postpone(n) PROVE GraphInv'
  BY <1>2 DEF IndInv, TypeOK, GraphInv, Popped, Postpone, On, const
<1>3. ASSUME NEW n \in Nodes, NEW w \in Workers, Assign(n, w) PROVE GraphInv'
  BY <1>3 DEF IndInv, TypeOK, GraphInv, Popped, Assign, On, const
<1>4. ASSUME NEW w \in Workers, Reap(w) PROVE GraphInv'
  <2>1. CASE wrc[w] = 0
    BY <1>4, <2>1, ReapFacts, PopGraphInv
  <2>2. CASE wrc[w] # 0
    BY <1>4, <2>2, ReapFacts DEF IndInv, TypeOK, GraphInv, Popped, const
  <2> QED
    BY <2>1, <2>2
<1>5. ASSUME NEW w \in Workers, NEW r \in {0, 1}, WorkerRun(w, r) PROVE GraphInv'
  BY <1>5 DEF IndInv, GraphInv, Popped, WorkerRun, const, nodevars
<1>6. CASE Quiet
  BY <1>6 DEF IndInv, GraphInv, Popped, Quiet, const, nodevars
<1> QED
  BY <1>1, <1>2, <1>3, <1>4, <1>5, <1>6, StepKinds

LEMMA WaitStep ==
    ASSUME IndInv, [Next]_vars
    PROVE  WaitInv'
<1>1. CASE PopRoot
  BY <1>1, PopRootFacts, PopWaitInv DEF PopRoot
<1>2. ASSUME NEW n \in Nodes, Postpone(n) PROVE WaitInv'
  BY <1>2 DEF IndInv, TypeOK, WaitInv, Postpone, history
<1>3. ASSUME NEW n \in Nodes, NEW w \in Workers, Assign(n, w) PROVE WaitInv'
  BY <1>3 DEF IndInv, TypeOK, WaitInv, Assign, history
<1>4. ASSUME NEW w \in Workers, Reap(w) PROVE WaitInv'
  <2>1. CASE wrc[w] = 0
    BY <1>4, <2>1, ReapFacts, PopWaitInv
  <2>2. CASE wrc[w] # 0
    <3>1. retn[w] \in bad
      BY <1>4, <2>2, ReapFacts DEF IndInv, DoneInv
    <3>2. \A m \in Nodes : list'[m] = "node_list" => m = retn[w] \/ list[m] = "node_list"
      BY <1>4, <2>2, ReapFacts DEF IndInv, TypeOK
    <3>3. edges' = edges /\ bad' = bad
      BY <1>4, <2>2, ReapFacts DEF history
    <3> QED
      BY <3>1, <3>2, <3>3 DEF IndInv, WaitInv
  <2> QED
    BY <2>1, <2>2
<1>5. ASSUME NEW w \in Workers, NEW r \in {0, 1}, WorkerRun(w, r) PROVE WaitInv'
  BY <1>5 DEF IndInv, WaitInv, WorkerRun, nodevars
<1>6. CASE Quiet
  BY <1>6 DEF IndInv, WaitInv, Quiet, nodevars, history
<1> QED
  BY <1>1, <1>2, <1>3, <1>4, <1>5, <1>6, StepKinds

(***************************************************************************)
(* Who holds a node.                                                       *)
(***************************************************************************)
LEMMA HeldStep ==
    ASSUME IndInv, [Next]_vars
    PROVE  HeldInv' /\ NoneLost'
<1>0. NoNode \notin Nodes
  BY ExecuteGraphAssumption
<1>1. CASE PopRoot
  <2>1. \A n \in Nodes : list'[n] = "none" <=> list[n] = "none"
    BY <1>1, PopRootFacts, PopOthers, PopSelf DEF IndInv, EdgeInv
  <2> QED
    BY <1>1, <2>1 DEF IndInv, HeldInv, NoneLost, Holds, PopRoot, workvars
<1>2. ASSUME NEW n \in Nodes, Postpone(n) PROVE HeldInv' /\ NoneLost'
  BY <1>2 DEF IndInv, TypeOK, HeldInv, NoneLost, Holds, Postpone, On, workvars
<1>3. ASSUME NEW n \in Nodes, NEW w \in Workers, Assign(n, w) PROVE HeldInv' /\ NoneLost'
  <2>1. wn[w] = NoNode /\ retn[w] = NoNode
    BY <1>3 DEF IndInv, WorkerInv, Assign
  <2>2. \A v \in Workers : ~Holds(v, n)
    BY <1>3 DEF IndInv, HeldInv, Assign, On
  <2>3. /\ wn' = [wn EXCEPT ![w] = n] /\ retn' = retn
        /\ list' = [list EXCEPT ![n] = "none"]
    BY <1>3 DEF Assign
  <2>4. \A v \in Workers, m \in Nodes : Holds(v, m)' <=> Holds(v, m) \/ (v = w /\ m = n)
    BY <1>0, <2>1, <2>3 DEF IndInv, TypeOK, Holds
  <2>5. HeldInv'
    BY <2>2, <2>3, <2>4 DEF IndInv, TypeOK, HeldInv
  <2>6. NoneLost'
    BY <2>3, <2>4 DEF IndInv, TypeOK, NoneLost
  <2> QED
    BY <2>5, <2>6
<1>4. ASSUME NEW w \in Workers, Reap(w) PROVE HeldInv' /\ NoneLost'
  <2> DEFINE n == retn[w]
  <2>1. \A m \in Nodes : list'[m] = "none" <=> list[m] = "none" /\ m # n
    <3>1. CASE wrc[w] = 0
      <4>1. PopNode(n) /\ n \in Nodes /\ list[n] = "none"
        BY <1>4, <3>1, ReapFacts
      <4> HIDE DEF n
      <4>2. list'[n] # "none"
        BY <4>1, PopSelf
      <4> QED
        BY <4>1, <4>2, PopOthers DEF IndInv, EdgeInv
    <3>2. CASE wrc[w] # 0
      BY <1>4, <3>2, ReapFacts DEF IndInv, TypeOK
    <3> QED
      BY <3>1, <3>2
  <2>2. wn' = wn /\ retn' = [retn EXCEPT ![w] = NoNode]
    BY <1>4 DEF Reap
  <2>3. \A v \in Workers, m \in Nodes : Holds(v, m)' <=> Holds(v, m) /\ v # w
    BY <1>0, <1>4, <2>2, ReapFacts DEF IndInv, TypeOK, Holds
  <2>4. \A v \in Workers, m \in Nodes : Holds(v, m) => (v = w <=> m = n)
    BY <1>4, <1>0, ReapFacts DEF Holds
  <2> HIDE DEF n
  <2> QED
    BY <2>1, <2>3, <2>4 DEF IndInv, HeldInv, NoneLost
<1>5. ASSUME NEW w \in Workers, NEW r \in {0, 1}, WorkerRun(w, r)
      PROVE  HeldInv' /\ NoneLost'
  <2>1. wn[w] \in Nodes /\ retn[w] = NoNode
    BY <1>5 DEF IndInv, TypeOK, WorkerInv, WorkerRun
  <2>2. \A v \in Workers, m \in Nodes : Holds(v, m)' <=> Holds(v, m)
    BY <1>0, <1>5, <2>1 DEF IndInv, TypeOK, Holds, WorkerRun
  <2> QED
    BY <1>5, <2>2 DEF IndInv, HeldInv, NoneLost, WorkerRun, nodevars
<1>6. CASE Quiet
  BY <1>6 DEF IndInv, HeldInv, NoneLost, Holds, Quiet, nodevars
<1> QED
  BY <1>1, <1>2, <1>3, <1>4, <1>5, <1>6, StepKinds

(***************************************************************************)
(* What was done with a node.                                              *)
(***************************************************************************)
LEMMA PopDoneInv ==
    ASSUME IndInv, NEW n \in Nodes, PopNode(n), UNCHANGED history,
           wn' = wn, wrc' = wrc, NEW w,
           \/ n = Root /\ list[n] = "node_list" /\ transient[n] = "none" /\ retn' = retn
           \/ /\ w \in Workers /\ retn[w] = n /\ list[n] = "none" /\ wrc[w] = 0
              /\ retn' = [retn EXCEPT ![w] = NoNode]
    PROVE  DoneInv'
<1>0. NoNode \notin Nodes
  BY ExecuteGraphAssumption
<1>1. /\ \A v \in Workers : retn'[v] = retn[v] \/ retn'[v] = NoNode
      /\ \A v \in Workers, m \in Nodes : retn'[v] = m => retn[v] = m
      /\ \A v \in Workers : retn'[v] # n \/ n = Root
  <2>1. \A v \in Workers : retn[v] = n => n = Root \/ v = w
    BY DEF IndInv, HeldInv, Holds
  <2> QED
    BY <1>0, <2>1 DEF IndInv, TypeOK
<1>2. n = Root \/ (n \in okd /\ (transient[n] = "delete" => n \in deleted))
  BY DEF IndInv, DoneInv
<1>3. n \notin bad
  BY DEF IndInv, DoneInv, RootInv
<1>4. list[n] = "none" \/ n = Root
  OBVIOUS
<1> SUFFICES ASSUME NEW m \in Nodes
             PROVE  /\ Popped(m)' => m = Root \/ m \in okd
                    /\ list'[m] = "removed" =>
                          /\ transient'[m] # "processing"
                          /\ transient'[m] = "delete" => m \in deleted
                    /\ m \in okd /\ transient'[m] # "delete" =>
                          /\ list'[m] \in {"none", "removed"}
                          /\ \A v \in Workers : wn[v] # m /\ (retn'[v] = m => wrc[v] = 0)
                    /\ m \in deleted =>
                          /\ transient'[m] = "delete" /\ list'[m] \in {"none", "removed"}
                          /\ \A v \in Workers : wn[v] # m /\ (retn'[v] = m => wrc[v] = 0)
                    /\ m \in bad =>
                          /\ list'[m] \in {"none", "node_list"}
                          /\ \A a \in Nodes : <<a, m>> \notin edges'
                          /\ \A v \in Workers : wn[v] # m /\ (retn'[v] = m => wrc[v] = 1)
                    /\ \A v \in Workers : retn'[v] = m =>
                          IF wrc[v] = 0
                          THEN m \in okd /\ (transient'[m] = "delete" => m \in deleted)
                          ELSE m \in bad
  BY DEF DoneInv, history
<1>5. CASE m # n
  <2>1. /\ transient'[m] = transient[m]
        /\ <<n, m>> \in edges => list'[m] = "plist" /\ list[m] \in {"node_list", "plist"}
        /\ <<n, m>> \notin edges => list'[m] = list[m]
    BY <1>5, PopOthers DEF IndInv, EdgeInv
  <2>2. \A a \in Nodes : <<a, m>> \in edges' => <<a, m>> \in edges
    BY <1>4, <1>5, PopEdges
  <2> QED
    BY <1>1, <2>1, <2>2 DEF IndInv, DoneInv, Popped
<1>6. CASE m = n
  <2>1. CASE transient[n] = "processing"
    <3>1. n # Root
      BY <2>1 DEF IndInv, RootInv, TypeOK, WellFormed
    <3>2. n \in okd /\ n \notin bad /\ n \notin deleted
      BY <1>2, <1>3, <2>1, <3>1 DEF IndInv, DoneInv
    <3> QED
      BY <1>1, <1>4, <1>6, <2>1, <3>1, <3>2, PopSelf DEF Popped
  <2>2. CASE transient[n] # "processing"
    <3>1. transient'[n] = transient[n] /\ list'[n] = "removed"
      BY <1>4, <2>2, PopSelf
    <3>2. \A v \in Workers : wn[v] # n
      BY <1>0 DEF IndInv, HeldInv, Holds, TypeOK, WorkerInv
    <3>3. n = Root => n \notin okd /\ n \notin deleted
      BY DEF IndInv, RootInv
    <3> QED
      BY <1>1, <1>2, <1>3, <1>6, <2>2, <3>1, <3>2, <3>3 DEF IndInv, DoneInv, Popped
  <2> QED
    BY <2>1, <2>2
<1> QED
  BY <1>5, <1>6

(* wt->fn() ends: the node is done, well or badly. *)
LEMMA RunDoneInv ==
    ASSUME IndInv, NEW w \in Workers, NEW r \in {0, 1}, WorkerRun(w, r)
    PROVE  DoneInv'
<1> DEFINE n == wn[w]
<1>1. n \in Nodes /\ retn[w] = NoNode /\ NoNode \notin Nodes
  BY ExecuteGraphAssumption DEF IndInv, TypeOK, WorkerInv, WorkerRun
<1>2. list[n] = "none" /\ \A v \in Workers : Holds(v, n) => v = w
  BY <1>1 DEF IndInv, HeldInv, Holds
<1>3. \A m \in Nodes : <<m, n>> \notin edges
  BY <1>1, <1>2, NoIncoming
<1>4. /\ wn' = [wn EXCEPT ![w] = NoNode]
      /\ retn' = [retn EXCEPT ![w] = n]
      /\ wrc' = [wrc EXCEPT ![w] = r]
      /\ UNCHANGED <<edges, list, transient>>
      /\ okd' = IF r = 0 /\ transient[n] # "delete" THEN okd \cup {n} ELSE okd
      /\ deleted' = IF r = 0 /\ transient[n] = "delete" THEN deleted \cup {n} ELSE deleted
      /\ bad' = IF r # 0 THEN bad \cup {n} ELSE bad
  BY DEF WorkerRun, nodevars
<1>5. n \notin bad /\ n \notin deleted /\ (n \in okd => transient[n] = "delete")
  BY <1>1 DEF IndInv, DoneInv
<1>6. transient[n] = "delete" => n \in okd
  <2>1. list[n] # "none" \/ n # Root
    BY DEF IndInv, RootInv
  <2> QED
    BY <1>1, <1>2, <2>1 DEF IndInv, DoneInv, Popped
<1>7. /\ wn'[w] = NoNode /\ retn'[w] = n /\ wrc'[w] = r
      /\ \A v \in Workers \ {w} : wn'[v] = wn[v] /\ retn'[v] = retn[v] /\ wrc'[v] = wrc[v]
                                  /\ wn[v] # n /\ retn[v] # n
  BY <1>1, <1>2, <1>4 DEF IndInv, TypeOK, Holds
<1> HIDE DEF n
<1>8. ASSUME NEW m \in Nodes, m # n
      PROVE  /\ m \in okd' <=> m \in okd
             /\ m \in deleted' <=> m \in deleted
             /\ m \in bad' <=> m \in bad
             /\ \A v \in Workers : /\ wn'[v] = m => wn[v] = m
                                   /\ retn'[v] = m => retn[v] = m /\ wrc'[v] = wrc[v]
  BY <1>1, <1>4, <1>7, <1>8
<1>9. ASSUME NEW m \in Nodes, m = n
      PROVE  /\ m \in okd' /\ transient[m] # "delete" => r = 0
             /\ m \in deleted' => r = 0 /\ transient[m] = "delete"
             /\ m \in bad' => r = 1
             /\ r = 0 => m \in okd' /\ (transient[m] = "delete" => m \in deleted')
             /\ r # 0 => m \in bad'
             /\ transient[m] = "delete" => m \in okd'
             /\ \A v \in Workers : wn'[v] # m /\ (retn'[v] = m => wrc'[v] = r)
  BY <1>1, <1>4, <1>5, <1>6, <1>7, <1>9
<1> SUFFICES ASSUME NEW m \in Nodes
             PROVE  /\ Popped(m) => m = Root \/ m \in okd'
                    /\ list[m] = "removed" => /\ transient[m] # "processing"
                                              /\ transient[m] = "delete" => m \in deleted'
                    /\ m \in okd' /\ transient[m] # "delete" =>
                          /\ list[m] \in {"none", "removed"}
                          /\ \A v \in Workers : wn'[v] # m /\ (retn'[v] = m => wrc'[v] = 0)
                    /\ m \in deleted' =>
                          /\ transient[m] = "delete" /\ list[m] \in {"none", "removed"}
                          /\ \A v \in Workers : wn'[v] # m /\ (retn'[v] = m => wrc'[v] = 0)
                    /\ m \in bad' =>
                          /\ list[m] \in {"none", "node_list"}
                          /\ \A a \in Nodes : <<a, m>> \notin edges
                          /\ \A v \in Workers : wn'[v] # m /\ (retn'[v] = m => wrc'[v] = 1)
                    /\ \A v \in Workers : retn'[v] = m =>
                          IF wrc'[v] = 0
                          THEN m \in okd' /\ (transient[m] = "delete" => m \in deleted')
                          ELSE m \in bad'
  BY <1>4 DEF DoneInv, Popped
<1>10. CASE m = n
  BY <1>2, <1>3, <1>9, <1>10 DEF Popped
<1>11. CASE m # n
  BY <1>8, <1>11 DEF IndInv, DoneInv
<1> QED
  BY <1>10, <1>11

LEMMA DoneStep ==
    ASSUME IndInv, [Next]_vars
    PROVE  DoneInv'
<1>1. CASE PopRoot
  BY <1>1, PopRootFacts, PopDoneInv DEF PopRoot, workvars
<1>2. ASSUME NEW n \in Nodes, Postpone(n) PROVE DoneInv'
  <2>1. n \notin okd \/ transient[n] = "delete"
    BY <1>2 DEF IndInv, DoneInv, Postpone, On
  <2>2. n \notin deleted
    BY <1>2 DEF IndInv, DoneInv, Postpone, On
  <2> QED
    BY <1>2, <2>1, <2>2
       DEF IndInv, TypeOK, DoneInv, Popped, Postpone, On, workvars, history
<1>3. ASSUME NEW n \in Nodes, NEW w \in Workers, Assign(n, w) PROVE DoneInv'
  <2>1. n \notin bad /\ n \notin deleted /\ (n \in okd => transient[n] = "delete")
    BY <1>3 DEF IndInv, DoneInv, Assign, On
  <2>2. wn' = [wn EXCEPT ![w] = n] /\ wrc' = [wrc EXCEPT ![w] = 1] /\ retn' = retn
    BY <1>3 DEF Assign
  <2>3. retn[w] = NoNode /\ NoNode \notin Nodes
    BY <1>3, ExecuteGraphAssumption DEF Assign, IndInv, WorkerInv
  <2>4. /\ list' = [list EXCEPT ![n] = "none"] /\ list[n] = "plist"
        /\ UNCHANGED <<edges, transient, okd, deleted, bad>>
    BY <1>3 DEF Assign, history, On
  <2>5. \A v \in Workers, m \in Nodes :
            /\ wn'[v] = m => wn[v] = m \/ m = n
            /\ retn'[v] = m => retn[v] = m /\ wrc'[v] = wrc[v]
    BY <2>2, <2>3 DEF IndInv, TypeOK
  <2>6. list'[n] = "none" /\ \A m \in Nodes \ {n} : list'[m] = list[m]
    BY <2>4 DEF IndInv, TypeOK
  <2> QED
    BY <2>1, <2>4, <2>5, <2>6 DEF IndInv, DoneInv, Popped
<1>4. ASSUME NEW w \in Workers, Reap(w) PROVE DoneInv'
  <2>1. CASE wrc[w] = 0
    <3>1. wn' = wn /\ wrc' = wrc /\ retn' = [retn EXCEPT ![w] = NoNode]
      BY <1>4 DEF Reap
    <3> QED
      BY <1>4, <2>1, <3>1, ReapFacts, PopDoneInv
  <2>2. CASE wrc[w] # 0
    <3>1. wn' = wn /\ wrc' = wrc /\ retn' = [retn EXCEPT ![w] = NoNode]
      BY <1>4 DEF Reap
    <3>2. /\ list' = [list EXCEPT ![retn[w]] = "node_list"]
          /\ UNCHANGED <<edges, transient, okd, deleted, bad>>
      BY <1>4, <2>2, ReapFacts DEF history
    <3>3. /\ retn[w] \in Nodes /\ retn[w] \in bad /\ retn[w] \notin deleted
          /\ retn[w] \in okd => transient[retn[w]] = "delete"
      BY <1>4, <2>2, ReapFacts DEF IndInv, DoneInv
    <3>4. \A v \in Workers, m \in Nodes : retn'[v] = m => retn[v] = m
      BY <3>1, ExecuteGraphAssumption DEF IndInv, TypeOK
    <3>5. list'[retn[w]] = "node_list" /\ \A m \in Nodes \ {retn[w]} : list'[m] = list[m]
      BY <3>2, <3>3 DEF IndInv, TypeOK
    <3>6. list[retn[w]] = "none"
      BY <1>4, ReapFacts
    <3> QED
      BY <3>1, <3>2, <3>3, <3>4, <3>5, <3>6 DEF IndInv, DoneInv, Popped
  <2> QED
    BY <2>1, <2>2
<1>5. ASSUME NEW w \in Workers, NEW r \in {0, 1}, WorkerRun(w, r) PROVE DoneInv'
  BY <1>5, RunDoneInv
<1>6. CASE Quiet
  BY <1>6 DEF IndInv, DoneInv, Popped, Quiet, nodevars, history
<1> QED
  BY <1>1, <1>2, <1>3, <1>4, <1>5, <1>6, StepKinds

-----------------------------------------------------------------------------
(***************************************************************************)
(* The threads.                                                            *)
(***************************************************************************)
(* The main thread's count of the workers that are not free. *)
Busy == {w \in Workers : ~Idle(w)}

LEMMA BusyFacts ==
    /\ IsFiniteSet(Busy) /\ Cardinality(Busy) \in Nat
    /\ Cardinality(Busy) = 0 <=> \A w \in Workers : Idle(w)
<1>1. IsFiniteSet(Workers) /\ Busy \subseteq Workers
  BY ExecuteGraphAssumption DEF Busy
<1>2. IsFiniteSet(Busy)
  BY <1>1, FS_Subset
<1>3. Cardinality(Busy) \in Nat /\ (Cardinality(Busy) = 0 <=> Busy = {})
  BY <1>2, FS_CardinalityType, FS_EmptySet
<1> QED
  BY <1>2, <1>3 DEF Busy

LEMMA BusySame ==
    ASSUME \A w \in Workers : Idle(w)' <=> Idle(w)
    PROVE  Cardinality(Busy)' = Cardinality(Busy)
<1>1. Busy' = Busy
  BY DEF Busy
<1> QED
  BY <1>1

LEMMA BusyMore ==
    ASSUME IndInv, NEW w \in Workers, Idle(w), ~Idle(w)',
           \A v \in Workers \ {w} : Idle(v)' <=> Idle(v)
    PROVE  Cardinality(Busy)' = Cardinality(Busy) + 1
<1>1. Busy' = Busy \cup {w} /\ w \notin Busy
  BY DEF Busy
<1> QED
  BY <1>1, BusyFacts, FS_AddElement

LEMMA BusyFewer ==
    ASSUME IndInv, NEW w \in Workers, ~Idle(w), Idle(w)',
           \A v \in Workers \ {w} : Idle(v)' <=> Idle(v)
    PROVE  Cardinality(Busy)' = Cardinality(Busy) - 1
<1>1. Busy' = Busy \ {w} /\ w \in Busy
  BY DEF Busy
<1> QED
  BY <1>1, BusyFacts, FS_RemoveElement

LEMMA ActiveStep ==
    ASSUME IndInv, [Next]_vars
    PROVE  active' = Cardinality(Busy)' /\ active' \in Nat
<1>0. active = Cardinality(Busy)
  BY DEF IndInv, MainInv, Busy
<1> SUFFICES active' = Cardinality(Busy)'
  <2>1. (IsFiniteSet(Busy) /\ Cardinality(Busy) \in Nat)'
    <3>1. IsFiniteSet(Workers) /\ Busy' \subseteq Workers
      BY ExecuteGraphAssumption DEF Busy
    <3> QED
      BY <3>1, FS_Subset, FS_CardinalityType
  <2> QED
    BY <2>1
<1>1. ASSUME NEW n \in Nodes, NEW w \in Workers, Assign(n, w) PROVE active' = Cardinality(Busy)'
  <2>1. Idle(w) /\ ~Idle(w)' /\ \A v \in Workers \ {w} : Idle(v)' <=> Idle(v)
    BY <1>1 DEF Assign, Idle, IndInv, TypeOK
  <2> QED
    BY <1>0, <1>1, <2>1, BusyMore DEF Assign
<1>2. ASSUME NEW w \in Workers, Reap(w) PROVE active' = Cardinality(Busy)'
  <2>1. ~Idle(w) /\ Idle(w)' /\ \A v \in Workers \ {w} : Idle(v)' <=> Idle(v)
    BY <1>2 DEF Reap, Idle, IndInv, TypeOK
  <2> QED
    BY <1>0, <1>2, <2>1, BusyFewer DEF Reap
<1>3. ASSUME NEW w \in Workers, WorkerRet(w) PROVE active' = Cardinality(Busy)'
  <2>1. \A v \in Workers : Idle(v)' <=> Idle(v)
    BY <1>3 DEF WorkerRet, Idle, IndInv, TypeOK, WorkerInv
  <2> QED
    BY <1>0, <1>3, <2>1, BusySame DEF WorkerRet
<1>4. CASE UNCHANGED <<active, wlist>>
  BY <1>0, <1>4, BusySame DEF Idle
<1>5. CASE PopRoot \/ CheckEmpties \/ Sleep \/ Finish \/ Join \/ Signal \/ UNCHANGED vars
  BY <1>4, <1>5 DEF PopRoot, CheckEmpties, Sleep, Finish, Join, Signal, vars, workvars, mainvars
<1>6. ASSUME NEW n \in Nodes, Postpone(n) PROVE active' = Cardinality(Busy)'
  BY <1>4, <1>6 DEF Postpone, workvars
<1>7. ASSUME NEW w \in Workers, TellQuit(w) \/ WorkerWait(w) \/ WorkerTest(w)
      PROVE  active' = Cardinality(Busy)'
  BY <1>4, <1>7 DEF TellQuit, WorkerWait, WorkerTest, mainvars
<1>8. ASSUME NEW w \in Workers, NEW r \in {0, 1}, WorkerRun(w, r)
      PROVE  active' = Cardinality(Busy)'
  BY <1>4, <1>8 DEF WorkerRun, mainvars
<1> QED
  BY <1>1, <1>2, <1>3, <1>5, <1>6, <1>7, <1>8 DEF Next, Main, Worker, Terminating

LEMMA PopType ==
    ASSUME TypeOK, NEW n \in Nodes, PopNode(n)
    PROVE  /\ edges' \subseteq Nodes \X Nodes
           /\ list' \in [Nodes -> {"node_list", "plist", "none", "removed"}]
           /\ state' \in [Nodes -> {"finished", "processing"}]
           /\ transient' \in [Nodes -> {"none", "processing", "delete"}]
<1>1. Turned(n) \subseteq Nodes \X Nodes
  <2>1. Dests(n) \subseteq Nodes
    BY DEF Dests
  <2>2. {<<d, n>> : d \in Dests(n)} \subseteq Nodes \X Nodes
    BY <2>1
  <2> QED
    BY <2>2 DEF Turned
<1>2. edges' \subseteq Nodes \X Nodes
  BY <1>1 DEF TypeOK, PopNode
<1>3. list' \in [Nodes -> {"node_list", "plist", "none", "removed"}]
  BY DEF TypeOK, PopNode
<1>4. state' \in [Nodes -> {"finished", "processing"}]
  BY DEF TypeOK, PopNode
<1>5. transient' \in [Nodes -> {"none", "processing", "delete"}]
  BY DEF TypeOK, PopNode
<1> QED
  BY <1>2, <1>3, <1>4, <1>5

LEMMA TypeStep ==
    ASSUME IndInv, [Next]_vars
    PROVE  TypeOK'
<1>0. TypeOK /\ active' \in Nat
  BY ActiveStep DEF IndInv
<1>1. CASE PopRoot
  BY <1>0, <1>1, PopRootFacts, PopType DEF TypeOK, PopRoot, const, workvars, history
<1>2. ASSUME NEW n \in Nodes, Postpone(n) PROVE TypeOK'
  BY <1>0, <1>2 DEF TypeOK, Postpone, const, workvars, history
<1>3. ASSUME NEW n \in Nodes, NEW w \in Workers, Assign(n, w) PROVE TypeOK'
  BY <1>0, <1>3 DEF TypeOK, Assign, Wake, const, history
<1>4. ASSUME NEW w \in Workers, Reap(w) PROVE TypeOK'
  <2>1. /\ edges' \subseteq Nodes \X Nodes
        /\ list' \in [Nodes -> {"node_list", "plist", "none", "removed"}]
        /\ state' \in [Nodes -> {"finished", "processing"}]
        /\ transient' \in [Nodes -> {"none", "processing", "delete"}]
        /\ failed' \in Nat /\ mpc' = "check"
    BY <1>0, <1>4, ReapFacts, PopType DEF TypeOK
  <2>2. /\ retn' = [retn EXCEPT ![w] = NoNode] /\ wlist' = [wlist EXCEPT ![w] = "free"]
        /\ UNCHANGED <<const, rc, dead, wpc, wn, wrc, quit, history>>
    BY <1>4 DEF Reap
  <2> QED
    BY <1>0, <2>1, <2>2 DEF TypeOK, const, history
<1>5. CASE CheckEmpties \/ Sleep \/ Finish \/ Join
  BY <1>0, <1>5
     DEF TypeOK, CheckEmpties, Sleep, Finish, Join, const, nodevars, workvars, history
<1>6. ASSUME NEW w \in Workers, TellQuit(w) \/ WorkerWait(w) \/ WorkerTest(w) \/ WorkerRet(w)
      PROVE  TypeOK'
  <2>1. CASE TellQuit(w)
    BY <1>0, <2>1 DEF TypeOK, TellQuit, Wake, const, nodevars, mainvars, history
  <2>2. CASE WorkerWait(w) \/ WorkerTest(w)
    BY <1>0, <2>2 DEF TypeOK, WorkerWait, WorkerTest, const, nodevars, mainvars, history
  <2>3. CASE WorkerRet(w)
    BY <1>0, <2>3 DEF TypeOK, WorkerRet, const, nodevars, history
  <2> QED
    BY <1>6, <2>1, <2>2, <2>3
<1>7. ASSUME NEW w \in Workers, NEW r \in {0, 1}, WorkerRun(w, r) PROVE TypeOK'
  <2>1. wn[w] \in Nodes
    BY <1>7 DEF IndInv, TypeOK, WorkerInv, WorkerRun
  <2> QED
    BY <1>0, <1>7, <2>1 DEF TypeOK, WorkerRun, const, nodevars, mainvars
<1>8. CASE Signal \/ UNCHANGED vars
  BY <1>0, <1>8 DEF TypeOK, Signal, vars, const, nodevars, mainvars, workvars, history
<1> QED
  BY <1>1, <1>2, <1>3, <1>4, <1>5, <1>6, <1>7, <1>8 DEF Next, Main, Worker, Terminating

LEMMA WorkerStep ==
    ASSUME IndInv, [Next]_vars
    PROVE  WorkerInv'
<1> USE DEF IndInv
<1>0. NoNode \notin Nodes
  BY ExecuteGraphAssumption
<1>1. CASE PopRoot
  BY <1>1, PopRootFacts DEF WorkerInv, PopRoot, workvars
<1>2. ASSUME NEW n \in Nodes, Postpone(n) PROVE WorkerInv'
  BY <1>2 DEF WorkerInv, Postpone, workvars
<1>3. ASSUME NEW n \in Nodes, NEW w \in Workers, Assign(n, w) PROVE WorkerInv'
  BY <1>0, <1>3 DEF TypeOK, WorkerInv, Assign, Wake
<1>4. ASSUME NEW w \in Workers, Reap(w) PROVE WorkerInv'
  <2>1. /\ retn' = [retn EXCEPT ![w] = NoNode] /\ wlist' = [wlist EXCEPT ![w] = "free"]
        /\ mpc = "reap" /\ wlist[w] = "fin" /\ UNCHANGED <<wpc, wn, quit>>
    BY <1>4 DEF Reap
  <2> QED
    BY <2>1 DEF TypeOK, WorkerInv
<1>5. CASE CheckEmpties \/ Sleep \/ Finish \/ Join
  BY <1>5 DEF WorkerInv, CheckEmpties, Sleep, Finish, Join, workvars
<1>6. ASSUME NEW w \in Workers, TellQuit(w) PROVE WorkerInv'
  BY <1>6 DEF TypeOK, WorkerInv, TellQuit, Wake, mainvars
<1>7. ASSUME NEW w \in Workers, WorkerWait(w) PROVE WorkerInv'
  BY <1>7 DEF TypeOK, WorkerInv, WorkerWait, mainvars
<1>8. ASSUME NEW w \in Workers, WorkerTest(w) PROVE WorkerInv'
  BY <1>8 DEF TypeOK, WorkerInv, WorkerTest, mainvars
<1>9. ASSUME NEW w \in Workers, WorkerRet(w) PROVE WorkerInv'
  BY <1>9 DEF TypeOK, WorkerInv, WorkerRet
<1>10. ASSUME NEW w \in Workers, NEW r \in {0, 1}, WorkerRun(w, r) PROVE WorkerInv'
  BY <1>10 DEF TypeOK, WorkerInv, WorkerRun, mainvars
<1>11. CASE Signal \/ UNCHANGED vars
  BY <1>11 DEF WorkerInv, Signal, vars, mainvars, workvars
<1> QED
  BY <1>1, <1>2, <1>3, <1>4, <1>5, <1>6, <1>7, <1>8, <1>9, <1>10, <1>11
     DEF Next, Main, Worker, Terminating

LEMMA RootStep ==
    ASSUME IndInv, [Next]_vars
    PROVE  RootInv'
<1>0. Root \in Nodes
  BY ExecuteGraphAssumption
<1>1. CASE PopRoot
  <2>1. list'[Root] = "removed"
    BY <1>1, PopRootFacts, PopSelf
  <2>2. \A n \in Nodes : transient'[n] # "none" <=> transient[n] # "none"
    BY <1>1, PopRootFacts, PopSelf, PopOthers
  <2> QED
    BY <1>1, <2>1, <2>2, PopRootFacts DEF IndInv, RootInv, PopRoot, const, history
<1>2. ASSUME NEW n \in Nodes, Postpone(n) PROVE RootInv'
  BY <1>0, <1>2 DEF IndInv, TypeOK, RootInv, Postpone, On, const, history
<1>3. ASSUME NEW n \in Nodes, NEW w \in Workers, Assign(n, w) PROVE RootInv'
  BY <1>0, <1>3 DEF IndInv, TypeOK, RootInv, Assign, On, const, history
<1>4. ASSUME NEW w \in Workers, Reap(w) PROVE RootInv'
  <2>1. mpc # "start" /\ mpc' = "check" /\ list[Root] = "removed"
    BY <1>4, ReapFacts DEF Reap, IndInv, RootInv
  <2>2. retn[w] \in Nodes /\ retn[w] # Root /\ list[retn[w]] = "none"
    BY <1>4, <2>1, ReapFacts
  <2>3. list'[Root] = list[Root] /\ \A n \in Nodes : transient'[n] # "none" <=> transient[n] # "none"
    <3>1. CASE wrc[w] = 0
      <4>1. PopNode(retn[w])
        BY <1>4, <3>1, ReapFacts
      <4>2. <<retn[w], Root>> \notin edges
        BY <1>0, <2>2, NoIncoming
      <4> QED
        BY <1>0, <2>2, <4>1, <4>2, PopSelf, PopOthers
    <3>2. CASE wrc[w] # 0
      BY <1>0, <1>4, <2>2, <3>2, ReapFacts DEF IndInv, TypeOK
    <3> QED
      BY <3>1, <3>2
  <2> QED
    BY <1>4, <2>1, <2>3, ReapFacts DEF IndInv, RootInv, const, history
<1>5. CASE CheckEmpties \/ Sleep \/ Finish \/ Join
  BY <1>5 DEF IndInv, RootInv, CheckEmpties, Sleep, Finish, Join, const, nodevars, history
<1>6. ASSUME NEW w \in Workers, TellQuit(w) \/ WorkerWait(w) \/ WorkerTest(w) \/ WorkerRet(w)
      PROVE  RootInv'
  BY <1>6 DEF IndInv, RootInv, TellQuit, WorkerWait, WorkerTest, WorkerRet, const, nodevars,
              mainvars, history
<1>7. ASSUME NEW w \in Workers, NEW r \in {0, 1}, WorkerRun(w, r) PROVE RootInv'
  <2>1. wn[w] \in Nodes /\ list[wn[w]] = "none"
    BY <1>7 DEF IndInv, TypeOK, WorkerInv, HeldInv, Holds, WorkerRun
  <2>2. wn[w] # Root
    BY <2>1 DEF IndInv, RootInv
  <2> QED
    BY <1>7, <2>2 DEF IndInv, RootInv, WorkerRun, const, nodevars, mainvars
<1>8. CASE Signal \/ UNCHANGED vars
  BY <1>8 DEF IndInv, RootInv, Signal, vars, const, nodevars, mainvars, history
<1> QED
  BY <1>1, <1>2, <1>3, <1>4, <1>5, <1>6, <1>7, <1>8 DEF Next, Main, Worker, Terminating

(***************************************************************************)
(* The main thread.                                                        *)
(***************************************************************************)
(* Nothing is under way when no job is active. *)
LEMMA NoJobs ==
    ASSUME IndInv, active = 0
    PROVE  /\ \A w \in Workers : Idle(w)
           /\ \A n \in Nodes : list[n] # "none"
<1>1. \A w \in Workers : Idle(w)
  BY BusyFacts DEF IndInv, MainInv, Busy
<1>2. \A w \in Workers : wn[w] = NoNode /\ retn[w] = NoNode
  BY <1>1 DEF IndInv, WorkerInv, Idle
<1> QED
  BY <1>1, <1>2, ExecuteGraphAssumption DEF IndInv, NoneLost, Holds

LEMMA MainStep ==
    ASSUME IndInv, [Next]_vars
    PROVE  MainInv'
<1> DEFINE Rest ==
        /\ mpc = "start" => active = 0
        /\ mpc = "loop" => /\ WorkersOn("free") # {}
                           /\ On("plist") = {} => active = 0
        /\ mpc \in {"quit", "done"} /\ rc = 0 => \A n \in Nodes : list[n] = "removed"
        /\ mpc \in {"quit", "done"} /\ keep_going /\ ~dead =>
              \A n \in Nodes : list[n] \in {"node_list", "removed"}
<1>0. Rest
  BY DEF IndInv, MainInv
<1> SUFFICES Rest'
  BY ActiveStep DEF MainInv, Busy
<1>1. CASE PopRoot
  <2>1. active = 0 /\ active' = 0 /\ wlist' = wlist /\ mpc' = "loop"
    BY <1>0, <1>1, PopRootFacts DEF PopRoot, workvars
  <2>2. WorkersOn("free") # {}
    BY <2>1, NoJobs, ExecuteGraphAssumption DEF WorkersOn, Idle
  <2> QED
    BY <2>1, <2>2 DEF WorkersOn
<1>2. ASSUME NEW n \in Nodes, Postpone(n) PROVE Rest'
  BY <1>2 DEF Postpone
<1>3. ASSUME NEW n \in Nodes, NEW w \in Workers, Assign(n, w) PROVE Rest'
  BY <1>3 DEF Assign
<1>4. ASSUME NEW w \in Workers, Reap(w) PROVE Rest'
  BY <1>4, ReapFacts
<1>5. CASE CheckEmpties
  BY <1>0, <1>5 DEF CheckEmpties, MustReap, IndInv, TypeOK, WorkersOn, On, nodevars, workvars
<1>6. CASE Sleep
  BY <1>6 DEF Sleep
<1>7. CASE Finish
  <2>1. ASSUME rc' = 0 \/ (keep_going /\ ~dead) PROVE \A n \in Nodes : list[n] \in {"node_list", "removed"}
    <3>1. On("plist") = {} /\ active = 0
      BY <1>0, <1>7, <2>1 DEF Finish, Stopping, IndInv, TypeOK
    <3> QED
      BY <3>1, NoJobs DEF On, IndInv, TypeOK
  <2>2. rc' = 0 => On("node_list") = {}
    BY <1>7 DEF Finish
  <2> QED
    BY <1>7, <2>1, <2>2 DEF Finish, On, const, nodevars
<1>8. CASE Join
  BY <1>0, <1>8 DEF Join, const, nodevars
<1>9. ASSUME NEW w \in Workers, TellQuit(w) \/ WorkerWait(w) \/ WorkerTest(w) PROVE Rest'
  BY <1>0, <1>9 DEF TellQuit, WorkerWait, WorkerTest, const, nodevars, mainvars, On, WorkersOn
<1>10. ASSUME NEW w \in Workers, WorkerRet(w) PROVE Rest'
  <2>1. \A v \in Workers : wlist[v] = "free" => wlist'[v] = "free"
    BY <1>10 DEF WorkerRet, IndInv, TypeOK, WorkerInv
  <2>2. mpc' \in {"start", "loop", "quit", "done"} => mpc' = mpc
    BY <1>10 DEF WorkerRet
  <2>3. UNCHANGED <<active, rc, list, keep_going, dead>>
    BY <1>10 DEF WorkerRet, const, nodevars
  <2> QED
    BY <1>0, <2>1, <2>2, <2>3 DEF On, WorkersOn
<1>11. ASSUME NEW w \in Workers, NEW r \in {0, 1}, WorkerRun(w, r) PROVE Rest'
  BY <1>0, <1>11 DEF WorkerRun, const, nodevars, mainvars, On, WorkersOn
<1>12. CASE Signal \/ UNCHANGED vars
  BY <1>0, <1>12 DEF Signal, vars, const, nodevars, mainvars, workvars, On, WorkersOn
<1> HIDE DEF Rest
<1> QED
  BY <1>1, <1>2, <1>3, <1>4, <1>5, <1>6, <1>7, <1>8, <1>9, <1>10, <1>11, <1>12
     DEF Next, Main, Worker, Terminating

-----------------------------------------------------------------------------
LEMMA InitInv == Init => IndInv
<1> SUFFICES ASSUME Init PROVE IndInv
  OBVIOUS
<1>1. WellFormed(graph) /\ NoNode \notin Nodes /\ Root \in Nodes
  BY ExecuteGraphAssumption DEF Init
<1>2. TypeOK
  BY <1>1 DEF Init, TypeOK, WellFormed
<1>3. WorkerInv /\ HeldInv /\ NoneLost
  BY <1>1 DEF Init, WorkerInv, HeldInv, NoneLost, Holds
<1>4. EdgeInv /\ GraphInv
  BY <1>1 DEF Init, EdgeInv, GraphInv, Popped
<1>5. RootInv /\ DoneInv /\ WaitInv
  <2>1. RootInv
    BY <1>1 DEF Init, RootInv
  <2>2. DoneInv
    BY <1>1 DEF Init, DoneInv, Popped
  <2>3. WaitInv
    BY <1>1 DEF Init, WaitInv, WellFormed
  <2> QED
    BY <2>1, <2>2, <2>3
<1>6. MainInv
  <2>1. \A w \in Workers : Idle(w)
    BY DEF Init, Idle
  <2>2. active = Cardinality(Busy)
    BY <2>1, BusyFacts DEF Init
  <2> QED
    BY <2>2 DEF Init, MainInv, Busy
<1> QED
  BY <1>2, <1>3, <1>4, <1>5, <1>6 DEF IndInv

LEMMA NextInv == IndInv /\ [Next]_vars => IndInv'
BY TypeStep, WorkerStep, HeldStep, EdgeStep, GraphStep, RootStep, DoneStep, WaitStep, MainStep
   DEF IndInv

(***************************************************************************)
(* The lists, edges and states of the nodes, the places of the threads and *)
(* what was done keep together in every step of execute_graph().           *)
(***************************************************************************)
THEOREM Invariance == Spec => []IndInv
BY InitInv, NextInv, PTL DEF Spec

(* The variables of execute_graph() keep their types. *)
THEOREM TypeCorrect == Spec => []TypeOK
<1>1. IndInv => TypeOK
  BY DEF IndInv
<1> QED
  BY <1>1, Invariance, PTL

(***************************************************************************)
(* No job starts before what it depends on is done, and no transient file  *)
(* is deleted before its readers are.                                      *)
(***************************************************************************)
THEOREM Order == Spec => []DependencyOrder
<1>1. ASSUME IndInv, NEW w \in Workers, NEW n \in Nodes, Running(w, n)
      PROVE  IF transient[n] = "delete" THEN n \in okd /\ Succs(n) \subseteq okd
                                        ELSE Preds(n) \subseteq okd
  <2>1. list[n] = "none"
    BY <1>1 DEF IndInv, HeldInv, Holds, Running
  <2>2. \A m \in Nodes : <<m, n>> \notin edges
    BY <1>1, <2>1, NoIncoming
  <2>3. \A m \in Nodes : Popped(m) => m = Root \/ m \in okd
    BY <1>1 DEF IndInv, DoneInv
  <2>4. CASE transient[n] = "delete"
    <3>1. n # Root
      BY <1>1, <2>1 DEF IndInv, RootInv
    <3>2. \A m \in Succs(n) : list[m] = "removed" /\ m # Root
      BY <1>1, <2>2, <2>4 DEF IndInv, GraphInv, Succs, TypeOK, WellFormed
    <3> QED
      BY <2>3, <2>4, <3>1, <3>2 DEF Popped, Succs
  <2>5. CASE transient[n] # "delete"
    <3>1. \A m \in Preds(n) : Popped(m)
      BY <1>1, <2>2 DEF IndInv, GraphInv, Preds
    <3> QED
      BY <2>3, <2>5, <3>1 DEF Preds
  <2> QED
    BY <2>4, <2>5
<1>2. IndInv => DependencyOrder
  BY <1>1 DEF DependencyOrder
<1> QED
  BY <1>2, Invariance, PTL

(* No node is worked on twice, nor deleted twice, nor by two workers. *)
THEOREM WorkedOnOnce == Spec => []NoDoubleWork
<1>1. ASSUME IndInv, NEW w \in Workers, NEW n \in Nodes, Running(w, n)
      PROVE  /\ n \notin bad
             /\ IF transient[n] = "delete" THEN n \notin deleted ELSE n \notin okd
             /\ \A v \in Workers \ {w} : ~Running(v, n)
  BY <1>1 DEF IndInv, DoneInv, HeldInv, Holds, Running
<1>2. IndInv => NoDoubleWork
  BY <1>1 DEF NoDoubleWork
<1> QED
  BY <1>2, Invariance, PTL

(* execute_graph() reports success only when the whole graph is done. *)
THEOREM Success == Spec => []SuccessIsComplete
<1>1. ASSUME IndInv, mpc = "done", rc = 0
      PROVE  okd = Nodes \ {Root} /\ deleted = graph.transient /\ bad = {}
  <2>1. \A n \in Nodes : list[n] = "removed"
    BY <1>1 DEF IndInv, MainInv
  <2>2. okd \subseteq Nodes /\ deleted \subseteq Nodes /\ bad \subseteq Nodes
        /\ graph.transient \subseteq Nodes
    BY <1>1 DEF IndInv, TypeOK, WellFormed
  <2>3. \A n \in Nodes : n \notin bad
    BY <1>1, <2>1 DEF IndInv, DoneInv
  <2>4. \A n \in Nodes : n \in okd <=> n # Root
    BY <1>1, <2>1 DEF IndInv, DoneInv, RootInv, Popped
  <2>5. \A n \in Nodes : n \in deleted <=> n \in graph.transient
    BY <1>1, <2>1 DEF IndInv, TypeOK, DoneInv, RootInv
  <2> QED
    BY <2>2, <2>3, <2>4, <2>5
<1>2. IndInv => SuccessIsComplete
  BY <1>1 DEF SuccessIsComplete
<1> QED
  BY <1>2, Invariance, PTL

(* With keep_going an error costs only what depends on it. *)
THEOREM Containment == Spec => []ErrorsAreContained
<1>1. ASSUME IndInv, mpc = "done", keep_going, ~dead, NEW n \in Nodes \ {Root}
      PROVE  /\ n \in okd \/ n \in bad \/ ~(Preds(n) \subseteq okd)
             /\ n \in graph.transient /\ n \in okd =>
                   n \in deleted \/ n \in bad \/ ~(Succs(n) \subseteq okd)
  <2>1. \A m \in Nodes : list[m] \in {"node_list", "removed"}
    BY <1>1 DEF IndInv, MainInv
  <2>2. \A m \in Nodes : m \in okd /\ ~Popped(m) => FALSE
    BY <1>1, <2>1 DEF IndInv, DoneInv, Popped
  <2>3. \A m \in Nodes : <<m, n>> \in edges => m \notin okd /\ m # Root
    <3>1. Popped(Root)
      BY <1>1, ExecuteGraphAssumption DEF IndInv, RootInv, Popped
    <3> QED
      BY <1>1, <2>2, <3>1 DEF IndInv, EdgeInv
  <2>4. CASE list[n] = "removed"
    BY <1>1, <2>4 DEF IndInv, TypeOK, DoneInv, RootInv, Popped
  <2>5. CASE n \in bad
    BY <2>5
  <2>6. CASE list[n] = "node_list" /\ n \notin bad
    <3>1. PICK m \in Nodes : <<m, n>> \in edges
      BY <1>1, <2>6 DEF IndInv, WaitInv
    <3>2. m \notin okd /\ m # Root
      BY <2>3, <3>1
    <3>3. CASE transient[n] = "delete"
      <4>1. m \in Succs(n) /\ n \in okd
        BY <1>1, <3>1, <3>3 DEF IndInv, EdgeInv, DoneInv, Popped, Succs
      <4> QED
        BY <3>2, <4>1
    <3>4. CASE transient[n] # "delete"
      <4>1. m \in Preds(n) /\ n \notin okd
        BY <1>1, <2>2, <2>6, <3>1, <3>2, <3>4 DEF IndInv, EdgeInv, Popped, Preds
      <4> QED
        BY <3>2, <4>1
    <3> QED
      BY <3>3, <3>4
  <2> QED
    BY <1>1, <2>1, <2>4, <2>5, <2>6
<1>2. IndInv => ErrorsAreContained
  BY <1>1 DEF ErrorsAreContained
<1> QED
  BY <1>2, Invariance, PTL

(***************************************************************************)
(* The list checks of node_remove_list() and node_insert_head() never      *)
(* fail, and the main loop always finds a free worker.                     *)
(***************************************************************************)
THEOREM Lists == Spec => []ListsConsistent
<1>1. ASSUME IndInv, NEW w \in Workers, wlist[w] = "fin"
      PROVE  retn[w] # NoNode /\ list[retn[w]] = "none"
  BY <1>1 DEF IndInv, TypeOK, WorkerInv, HeldInv, Holds
<1>2. IndInv => ListsConsistent
  BY <1>1 DEF ListsConsistent, IndInv, RootInv, MainInv, WorkersOn
<1> QED
  BY <1>2, Invariance, PTL
=============================================================================
