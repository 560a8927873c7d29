--------------------------- MODULE MCExecuteGraph ---------------------------
EXTENDS ExecuteGraphInv, TLC

CONSTANTS Size,         \* number of nodes besides the root
          MaxTransient  \* bound on the number of transient files

MCNodes == 0..Size

(* The root points to every node nothing else points to, or to all nodes. *)
RootEdges(E) ==
    {{0} \X {n \in 1..Size : \A m \in 1..Size : <<m, n>> \notin E}, {0} \X (1..Size)}

Forward == {e \in (1..Size) \X (1..Size) : e[1] < e[2]}

AnyPair == {e \in (1..Size) \X (1..Size) : e[1] # e[2]}

Transients(E) ==
    {T \in SUBSET (1..Size) :
        Cardinality(T) <= MaxTransient /\ \A e \in E : e[1] \in T => e[2] \notin T}

GraphsOver(All) ==
    UNION {{[edges |-> E \cup R, transient |-> T] :
               R \in RootEdges(E), T \in Transients(E)} : E \in SUBSET All}

(* All acyclic graphs. *)
Dags == GraphsOver(Forward)

(* All graphs, cycles included: build_graph() does not find every cycle. *)
Digraphs == GraphsOver(AnyPair)

Symmetry == Permutations(Workers)
=============================================================================
