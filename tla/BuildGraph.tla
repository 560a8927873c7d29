----------------------------- MODULE BuildGraph -----------------------------
(***************************************************************************)
(* The graph that process_update_nodes() executes: what build_graph() and  *)
(* attach_transient_nodes() make of the modify and the transient list, and *)
(* what prune_graph() leaves of it when targets are given.                 *)
(*                                                                         *)
(* Commands read exactly what they declare, so every input has a sticky    *)
(* and a normal link.  A transient command (^t) has one output.            *)
(***************************************************************************)
EXTENDS Naturals, FiniteSets

CONSTANTS Cmds,      \* TUP_NODE_CMD nodes
          Files,     \* TUP_NODE_FILE and TUP_NODE_GENERATED nodes
          Inputs,    \* Inputs[c]: the files that command c reads
          Outputs,   \* Outputs[c]: the files that command c writes
          Compare,   \* commands with the ^o flag
          Transient  \* commands with the ^t flag

ASSUME GraphAssumption ==
    /\ Cmds \cap Files = {}
    /\ IsFiniteSet(Cmds) /\ IsFiniteSet(Files)
    /\ Inputs \in [Cmds -> SUBSET Files]
    /\ Outputs \in [Cmds -> (SUBSET Files) \ {{}}]
    /\ \A c, d \in Cmds : c # d => Outputs[c] \cap Outputs[d] = {}
    /\ Compare \subseteq Cmds
    /\ Transient \subseteq Cmds \ Compare
    /\ \A c \in Transient : Cardinality(Outputs[c]) = 1

Nodes == Cmds \cup Files

(* The link table of the database. *)
Links == (UNION {Inputs[c] \X {c} : c \in Cmds}) \cup (UNION {{c} \X Outputs[c] : c \in Cmds})

Succ(n)     == {m \in Nodes : <<n, m>> \in Links}
Readers(f)  == {c \in Cmds : f \in Inputs[c]}
Generated   == UNION {Outputs[c] : c \in Cmds}
Sources     == Files \ Generated
Producer(f) == CHOOSE c \in Cmds : f \in Outputs[c]

(* is_transient_tent() for files *)
TransientFiles == UNION {Outputs[c] : c \in Transient}

(* The nodes reached from S along Links, without going on from those in   *)
(* Stop: the plist loop of build_graph().                                 *)
Closure(S, Stop) ==
    LET grow[i \in 0..Cardinality(Nodes)] ==
          IF i = 0 THEN S
          ELSE UNION {{n} \cup (IF n \in Stop THEN {} ELSE Succ(n)) : n \in grow[i-1]}
    IN  grow[Cardinality(Nodes)]

-----------------------------------------------------------------------------
(***************************************************************************)
(* The nodes below the root: everything in the modify list, but a          *)
(* transient command only when it is in the transient list.  A file that a *)
(* previous update left behind (it is in the transient list) is added, to  *)
(* be removed, but its links are not followed.                             *)
(***************************************************************************)
Roots(modify, tlist) == (modify \ Transient) \cup tlist
Unexpanded(modify, tlist) == (tlist \cap Files) \ modify
Built(modify, tlist) == Closure(Roots(modify, tlist), Unexpanded(modify, tlist))

(***************************************************************************)
(* attach_transient_nodes(), called until it adds nothing.  held are the   *)
(* commands of g->transient_root: one is kept when its output is not left  *)
(* over from a previous update and something in the graph reads it.        *)
(***************************************************************************)
Attached(built, held, tlist) ==
    LET Feeds(n) == {c \in held : Outputs[c] \cap tlist = {} /\ n \in Readers(CHOOSE f \in Outputs[c] : TRUE)}
        grow[i \in 0..Cardinality(Transient)] ==
          IF i = 0 THEN built
          ELSE UNION {{n} \cup Feeds(n) : n \in grow[i-1]}
    IN  grow[Cardinality(Transient)] \ built

OutputsOf(C) == UNION {Outputs[c] : c \in C}

(* The edges between nodes of N: those of the links, and the ones that    *)
(* add_graph_stickies() adds.                                             *)
Within(N) == {e \in Links : e[1] \in N /\ e[2] \in N}

(***************************************************************************)
(* The graph.                                                              *)
(*   normal      edges that are not only sticky: the readers of a file     *)
(*               that was not expanded get no other                        *)
(*   skip        a node is skipped until something unskips it, unless it   *)
(*               hangs from the root                                       *)
(*   processing  files that will be deleted: TRANSIENT_PROCESSING          *)
(*   error       the output of a kept command is taken off the plist; one  *)
(*               that was built before is on the node_list, and            *)
(*               node_remove_list() fails                                  *)
(* The output of a held command that is not kept is removed again.         *)
(***************************************************************************)
Graph(modify, tlist) ==
    LET built    == Built(modify, tlist)
        held     == (modify \cap Transient) \ built
        attached == Attached(built, held, tlist)
        expanded == (built \ Unexpanded(modify, tlist)) \cup OutputsOf(held)
        N        == (built \ (OutputsOf(held \ attached) \ tlist)) \cup attached \cup OutputsOf(attached)
    IN  [nodes      |-> N,
         edges      |-> Within(N),
         normal     |-> {e \in Within(N) : e[1] \in Cmds \cup expanded},
         skip       |-> N \ (Roots(modify, tlist) \cup attached),
         processing |-> N \cap TransientFiles,
         error      |-> OutputsOf(attached) \cap built # {}]

-----------------------------------------------------------------------------
(***************************************************************************)
(* prune_graph().  mark_nodes() marks the targets, what leads to them, and *)
(* the other outputs of a marked command.                                  *)
(***************************************************************************)
Marked(g, targets) ==
    LET Marks(n) == {m \in g.nodes : <<m, n>> \in g.edges \/ (n \in Cmds /\ <<n, m>> \in g.edges)}
        grow[i \in 0..Cardinality(Nodes)] ==
          IF i = 0 THEN targets \cap g.nodes
          ELSE UNION {{n} \cup Marks(n) : n \in grow[i-1]}
    IN  grow[Cardinality(Nodes)]

Unmarked(g, targets) == IF targets = {} THEN {} ELSE g.nodes \ Marked(g, targets)

(* Mutant: pruned commands do not go to the modify list. *)
PrunedForget(g, targets) ==
    LET U == Unmarked(g, targets)
        N == g.nodes \ (U \ Sources)
    IN  [nodes      |-> N,
         edges      |-> g.edges \cap Within(N),
         normal     |-> g.normal \cap Within(N),
         skip       |-> g.skip \cap N,
         processing |-> {f \in g.processing \cap N : Readers(f) \cap U = {}},
         pruned     |-> {}]

(* prune_node() keeps source files, and the transient inputs of what it   *)
(* removes are not deleted in this update.                                *)
Pruned(g, targets) ==
    LET U == Unmarked(g, targets)
        N == g.nodes \ (U \ Sources)
    IN  [nodes      |-> N,
         edges      |-> g.edges \cap Within(N),
         normal     |-> g.normal \cap Within(N),
         skip       |-> g.skip \cap N,
         processing |-> {f \in g.processing \cap N : Readers(f) \cap U = {}},
         pruned     |-> U \cap Cmds]

=============================================================================
