--------------------------- MODULE UpdateNodesProofs --------------------------
(***************************************************************************)
(* Machine-checked proofs about scans and updates.  In projects without    *)
(* ^t no command is started without its inputs, and an update that         *)
(* succeeds leaves the files as a build from nothing would make them; in   *)
(* projects without ^o no transient file is forgotten.  For every project  *)
(* (commands, files, contents, and what the commands compute), any number  *)
(* of edits, failures, signals and kills, and any targets.                 *)
(***************************************************************************)
EXTENDS UpdateNodesInv, FiniteSetTheorems, TLAPS

-----------------------------------------------------------------------------
(***************************************************************************)
(* Iterations.  The closure of a set of nodes and the marks of             *)
(* prune_graph() are iterations, defined as functions on 0..N.  That they  *)
(* stop, for a set only grows as often as it has elements, needs an        *)
(* induction over numbers; it is had from the fact that an injection of a  *)
(* finite set into itself is a surjection.                                 *)
(***************************************************************************)

(* Induction, for a set of numbers. *)
LEMMA Induction ==
    ASSUME NEW N \in Nat, NEW S \in SUBSET Nat, 0 \in S, \A i \in 0 .. N : i \in S /\ i < N => i + 1 \in S
    PROVE  0 .. N \subseteq S
<1>1. SUFFICES ASSUME NEW x \in 0 .. N, x \notin S PROVE FALSE
  OBVIOUS
<1> DEFINE A == S \cap (0 .. x)
           f == [i \in A |-> i + 1]
<1>2. IsFiniteSet(A)
  <2>1. 0 \in Int /\ x \in Int
    OBVIOUS
  <2>2. IsFiniteSet(0 .. x)
    BY <2>1, FS_Interval
  <2> QED
    BY <2>2, FS_Subset
<1>3. \A i \in A : i \in Nat /\ i + 1 \in A
  <2> SUFFICES ASSUME NEW i \in A PROVE i + 1 \in A
    OBVIOUS
  <2>1. i \in 0 .. x /\ i # x /\ i \in S
    BY <1>1
  <2>2. i \in 0 .. N /\ i < N /\ i + 1 \in 0 .. x
    BY <2>1
  <2> QED
    BY <2>1, <2>2
<1>4. f \in Injection(A, A)
  <2>1. f \in [A -> A]
    BY <1>3
  <2>2. \A i, j \in A : f[i] = f[j] => i = j
    BY <1>3
  <2> HIDE DEF A, f
  <2> QED
    BY <2>1, <2>2 DEF Injection, IsInjective
<1>5. f \in Surjection(A, A)
  <2> HIDE DEF A, f
  <2> QED
    BY <1>2, <1>4, FS_Injection
<1>6. 0 \in A
  OBVIOUS
<1>7. PICK i \in A : f[i] = 0
  <2> HIDE DEF A, f
  <2> QED
    BY <1>5, <1>6 DEF Surjection
<1> QED
  BY <1>3, <1>7

(* h is the iteration of G from s, and G adds to sets of elements of X. *)
Iterates(h, N, T, s, G) ==
    h \in [0 .. N -> T] /\ h[0] = s /\ \A i \in 1 .. N : h[i] = G[h[i - 1]]

(* G maps sets of elements of X to sets that are not smaller. *)
Adds(G, T, X) == G \in [T -> T] /\ \A C \in T : C \subseteq X /\ C \subseteq G[C]

(* A function can be iterated N times: the functions of BuildGraph that    *)
(* are defined by recursion over a number of rounds have a value.          *)
LEMMA Iterate ==
    ASSUME NEW N \in Nat, NEW T, NEW s \in T, NEW G \in [T -> T]
    PROVE  \E h : Iterates(h, N, T, s, G)
<1> DEFINE S == {n \in Nat : \E h \in [0 .. n -> T] : h[0] = s /\ \A i \in 1 .. n : h[i] = G[h[i - 1]]}
<1>1. 0 \in S
  <2> DEFINE h == [i \in 0 .. 0 |-> s]
  <2>1. h \in [0 .. 0 -> T] /\ h[0] = s /\ 1 .. 0 = {}
    OBVIOUS
  <2> HIDE DEF h
  <2> QED
    BY <2>1
<1>2. ASSUME NEW n \in 0 .. N, n \in S PROVE n + 1 \in S
  <2>1. PICK h \in [0 .. n -> T] : h[0] = s /\ \A i \in 1 .. n : h[i] = G[h[i - 1]]
    BY <1>2
  <2> DEFINE k == [i \in 0 .. n + 1 |-> IF i \in 0 .. n THEN h[i] ELSE G[h[n]]]
  <2>2. n \in Nat /\ n \in 0 .. n /\ n + 1 \notin 0 .. n /\ 0 \in 0 .. n
        /\ \A i \in 1 .. n + 1 : i \in 1 .. n \/ i = n + 1
    BY <1>2
  <2>3. k \in [0 .. n + 1 -> T]
    BY <2>2
  <2>4. ASSUME NEW i \in 1 .. n + 1 PROVE k[i] = G[k[i - 1]]
    <3>1. CASE i \in 1 .. n
      <4>1. i \in 0 .. n /\ i - 1 \in 0 .. n /\ i \in 0 .. n + 1 /\ i - 1 \in 0 .. n + 1
        BY <3>1, <2>2
      <4> QED
        BY <2>1, <3>1, <4>1
    <3>2. CASE i = n + 1
      <4>1. i - 1 = n /\ i \notin 0 .. n /\ n \in 0 .. n + 1 /\ i \in 0 .. n + 1
        BY <3>2, <2>2
      <4>2. k[i] = G[h[n]] /\ k[i - 1] = h[n]
        BY <4>1, <2>2
      <4> QED
        BY <4>2
    <3> QED
      BY <2>2, <3>1, <3>2
  <2>5. k[0] = s
    BY <2>1, <2>2
  <2>6. n + 1 \in Nat
    BY <2>2
  <2> HIDE DEF k
  <2> QED
    BY <2>3, <2>4, <2>5, <2>6
<1>3. 0 .. N \subseteq S
  <2> HIDE DEF S
  <2>1. S \in SUBSET Nat
    BY DEF S
  <2> QED
    BY <1>1, <1>2, <2>1, Induction
<1>4. \E h \in [0 .. N -> T] : h[0] = s /\ \A i \in 1 .. N : h[i] = G[h[i - 1]]
  BY <1>3
<1> QED
  BY <1>4 DEF Iterates

(* There is only one iteration, given its start and its step. *)
LEMMA SameIteration ==
    ASSUME NEW N \in Nat, NEW g, NEW h, DOMAIN g = 0 .. N, DOMAIN h = 0 .. N,
           g = [i \in DOMAIN g |-> g[i]], h = [i \in DOMAIN h |-> h[i]], g[0] = h[0],
           \A i \in 0 .. N : i # 0 /\ g[i - 1] = h[i - 1] => g[i] = h[i]
    PROVE  g = h
<1> DEFINE S == {i \in Nat : g[i] = h[i]}
<1>1. \A i \in 0 .. N : i \in S /\ i < N => i + 1 \in S
  <2> SUFFICES ASSUME NEW i \in 0 .. N, g[i] = h[i], i < N PROVE g[i + 1] = h[i + 1]
    OBVIOUS
  <2>1. i + 1 \in 0 .. N /\ i + 1 # 0 /\ (i + 1) - 1 = i
    OBVIOUS
  <2> QED
    BY <2>1
<1>2. 0 .. N \subseteq S
  <2>1. 0 \in S /\ S \in SUBSET Nat
    OBVIOUS
  <2> HIDE DEF S
  <2> QED
    BY <1>1, <2>1, Induction
<1> QED
  BY <1>2

(* An iteration that adds to a finite set stops. *)
LEMMA Fixpoint ==
    ASSUME NEW X, IsFiniteSet(X), NEW T, NEW G, Adds(G, T, X), NEW s \in T,
           NEW h, Iterates(h, Cardinality(X), T, s, G)
    PROVE  /\ h[Cardinality(X)] \in T /\ s \subseteq h[Cardinality(X)]
           /\ G[h[Cardinality(X)]] = h[Cardinality(X)]
<1> DEFINE N == Cardinality(X)
<1>0. /\ h \in [0 .. N -> T] /\ h[0] = s /\ \A i \in 1 .. N : h[i] = G[h[i - 1]]
      /\ G \in [T -> T] /\ \A C \in T : C \subseteq X /\ C \subseteq G[C]
  BY DEF Iterates, Adds
<1>1. N \in Nat
  BY FS_CardinalityType
<1>2. \A C \in T : IsFiniteSet(C) /\ Cardinality(C) \in Nat /\ Cardinality(C) <= N
                   /\ (Cardinality(C) = N => C = X)
  BY <1>0, FS_Subset, FS_CardinalityType
<1>3. \A C, D \in T : C \subseteq D /\ C # D => Cardinality(D) >= Cardinality(C) + 1
  <2> SUFFICES ASSUME NEW C \in T, NEW D \in T, C \subseteq D, C # D
               PROVE  Cardinality(D) >= Cardinality(C) + 1
    OBVIOUS
  <2>1. IsFiniteSet(D) /\ C \in SUBSET D
    BY <1>2
  <2>2. Cardinality(C) <= Cardinality(D) /\ Cardinality(C) # Cardinality(D)
    BY <2>1, FS_Subset
  <2> QED
    BY <1>2, <2>2
<1> DEFINE S == {i \in Nat : h[0] \subseteq h[i] /\ (G[h[i]] = h[i] \/ Cardinality(h[i]) >= i)}
<1>4. 0 \in S
  <2>1. 0 \in 0 .. N /\ h[0] \in T
    BY <1>0, <1>1
  <2> QED
    BY <1>2, <2>1
<1>5. \A i \in 0 .. N : i \in S /\ i < N => i + 1 \in S
  <2> SUFFICES ASSUME NEW i \in 0 .. N, i \in S, i < N PROVE i + 1 \in S
    OBVIOUS
  <2>1. i + 1 \in 1 .. N /\ (i + 1) - 1 = i /\ i + 1 \in 0 .. N /\ i \in Nat /\ i + 1 \in Nat
    BY <1>1
  <2>2. h[i + 1] = G[h[i]] /\ h[i] \in T /\ h[i + 1] \in T
    BY <1>0, <2>1
  <2>3. h[0] \subseteq h[i + 1]
    BY <1>0, <2>2
  <2>4. CASE G[h[i]] = h[i]
    BY <2>1, <2>2, <2>3, <2>4
  <2>5. CASE G[h[i]] # h[i]
    <3>1. Cardinality(h[i]) >= i
      BY <2>5
    <3>2. Cardinality(h[i + 1]) >= Cardinality(h[i]) + 1
      BY <1>0, <1>3, <2>2, <2>5
    <3>3. Cardinality(h[i + 1]) >= i + 1
      BY <1>2, <2>1, <2>2, <3>1, <3>2
    <3> QED
      BY <2>1, <2>3, <3>3
  <2> QED
    BY <2>4, <2>5
<1>6. N \in S
  <2>1. S \in SUBSET Nat
    OBVIOUS
  <2> HIDE DEF S
  <2>2. 0 .. N \subseteq S
    BY <1>1, <1>4, <1>5, <2>1, Induction
  <2> QED
    BY <1>1, <2>2
<1>7. h[N] \in T /\ h[0] \subseteq h[N] /\ (G[h[N]] = h[N] \/ Cardinality(h[N]) >= N)
  <2>1. N \in 0 .. N
    BY <1>1
  <2> QED
    BY <1>0, <1>6, <2>1
<1>8. CASE Cardinality(h[N]) >= N
  <2>1. h[N] = X
    BY <1>1, <1>2, <1>7, <1>8
  <2>2. G[h[N]] \in T
    BY <1>0, <1>7
  <2>3. h[N] \subseteq G[h[N]] /\ G[h[N]] \subseteq X
    BY <1>0, <1>7, <2>2
  <2> QED
    BY <1>7, <2>1, <2>3
<1> QED
  BY <1>0, <1>7, <1>8

(* What build_graph() reaches: every node but the first ones is reached    *)
(* from one that is there, and that is expanded.                           *)
LEMMA ClosureStops ==
    ASSUME NEW S \in SUBSET Nodes, NEW Stop
    PROVE  /\ S \subseteq Closure(S, Stop) /\ Closure(S, Stop) \subseteq Nodes
           /\ \A n \in Closure(S, Stop) \ Stop : Succ(n) \subseteq Closure(S, Stop)
           /\ \A n \in Closure(S, Stop) : n \in S \/ \E m \in Closure(S, Stop) \ Stop : n \in Succ(m)
<1> DEFINE Next1(n) == IF n \in Stop THEN {} ELSE Succ(n)
           N == Cardinality(Nodes)
           grow == CHOOSE g : g = [i \in 0 .. N |-> IF i = 0 THEN S
               ELSE UNION {{n} \cup Next1(n) : n \in g[i - 1]}]
           T == {C \in SUBSET Nodes : \A n \in C : n \in S \/ \E m \in C : n \in Next1(m)}
           G == [C \in T |-> UNION {{n} \cup Next1(n) : n \in C}]
<1>1. Closure(S, Stop) = grow[N]
  BY DEF Closure
<1>2. N \in Nat /\ IsFiniteSet(Nodes)
  BY FS_Union, FS_CardinalityType, GraphAssumption DEF Nodes
<1>a. \A n \in Nodes : Next1(n) \subseteq Nodes
  BY DEF Succ
<1> HIDE DEF Next1
<1>3. S \in T /\ G \in [T -> T] /\ \A C \in T : C \subseteq Nodes /\ C \subseteq G[C]
  <2>1. ASSUME NEW C \in T PROVE G[C] \in T /\ C \subseteq G[C]
    <3>1. G[C] = UNION {{n} \cup Next1(n) : n \in C}
      OBVIOUS
    <3>2. C \subseteq Nodes /\ \A n \in C : n \in S \/ \E m \in C : n \in Next1(m)
      OBVIOUS
    <3> HIDE DEF G, T
    <3>3. G[C] \subseteq Nodes
      BY <1>a, <3>1, <3>2
    <3>4. C \subseteq G[C]
      BY <3>1
    <3>5. \A n \in G[C] : n \in S \/ \E m \in G[C] : n \in Next1(m)
      BY <3>1, <3>2, <3>4
    <3> QED
      BY <3>3, <3>4, <3>5 DEF T
  <2> QED
    BY <2>1
<1>4. PICK h : Iterates(h, N, T, S, G)
  <2>1. N \in Nat
    BY <1>2
  <2>2. S \in T
    BY <1>3
  <2>3. G \in [T -> T]
    BY <1>3
  <2> HIDE DEF G, T, N, grow
  <2> QED
    BY <2>1, <2>2, <2>3, Iterate
<1>9. h[N] \in T /\ S \subseteq h[N] /\ G[h[N]] = h[N]
  <2>1. Adds(G, T, Nodes) /\ S \in T
    BY <1>3 DEF Adds
  <2> HIDE DEF G, T, grow
  <2> QED
    BY <1>2, <1>4, <2>1, Fixpoint
<1>5. \A i \in 0 .. N : i # 0 => i \in 1 .. N /\ i - 1 \in 0 .. N
  BY <1>2
<1>11. h \in [0 .. N -> T] /\ h[0] = S /\ \A i \in 1 .. N : h[i] = G[h[i - 1]]
  BY <1>4 DEF Iterates
<1>6. h = [i \in 0 .. N |-> IF i = 0 THEN S ELSE UNION {{n} \cup Next1(n) : n \in h[i - 1]}]
  <2>1. \A i \in 0 .. N : i # 0 => h[i - 1] \in T
    BY <1>5, <1>11
  <2>2. \A i \in 0 .. N : i # 0 => G[h[i - 1]] = UNION {{n} \cup Next1(n) : n \in h[i - 1]}
    <3> HIDE DEF T
    <3> QED
      BY <2>1
  <2> HIDE DEF G, T
  <2> QED
    BY <1>11, <1>5, <2>2
<1>7. grow = [i \in 0 .. N |-> IF i = 0 THEN S ELSE UNION {{n} \cup Next1(n) : n \in grow[i - 1]}]
  BY <1>6
<1> HIDE DEF grow
<1>8. grow = h
  <2>1. 0 \in 0 .. N
    BY <1>2
  <2>2. DOMAIN grow = 0 .. N /\ DOMAIN h = 0 .. N /\ grow[0] = S /\ h[0] = S
    BY <1>6, <1>7, <2>1
  <2>3. grow = [i \in DOMAIN grow |-> grow[i]] /\ h = [i \in DOMAIN h |-> h[i]]
    BY <1>6, <1>7
  <2>4. \A i \in 0 .. N : i # 0 /\ grow[i - 1] = h[i - 1] => grow[i] = h[i]
    BY <1>6, <1>7
  <2> HIDE DEF N
  <2> QED
    BY <1>2, <2>2, <2>3, <2>4, SameIteration
<1>10. ASSUME NEW n \in h[N] PROVE Next1(n) \subseteq h[N]
  <2>1. G[h[N]] = UNION {{m} \cup Next1(m) : m \in h[N]} /\ G[h[N]] = h[N]
    BY <1>9
  <2> HIDE DEF G, T, N
  <2> QED
    BY <2>1
<1>12. Closure(S, Stop) = h[N]
  BY <1>1, <1>8
<1>13. h[N] \in SUBSET Nodes /\ \A n \in h[N] : n \in S \/ \E m \in h[N] : n \in Next1(m)
  BY <1>9
<1> HIDE DEF T, G, N
<1> QED
  BY <1>9, <1>10, <1>12, <1>13 DEF Next1

(* The closure of a set of nodes under the links. *)
LEMMA ClosureIsClosed ==
    ASSUME NEW S \in SUBSET Nodes
    PROVE  /\ S \subseteq Closure(S, {}) /\ Closure(S, {}) \subseteq Nodes
           /\ \A n \in Closure(S, {}) : Succ(n) \subseteq Closure(S, {})
BY ClosureStops

-----------------------------------------------------------------------------
(***************************************************************************)
(* prune_graph().                                                          *)
(***************************************************************************)

(* mark_nodes() marks the targets, and what leads to them. *)
LEMMA MarkedIsClosed ==
    ASSUME NEW g, g.nodes \in SUBSET Nodes, NEW t
    PROVE  /\ t \cap g.nodes \subseteq Marked(g, t) /\ Marked(g, t) \subseteq g.nodes
           /\ \A n \in Marked(g, t), m \in g.nodes :
                 <<m, n>> \in g.edges \/ (n \in Cmds /\ <<n, m>> \in g.edges) => m \in Marked(g, t)
<1> DEFINE Marks(n) == {m \in g.nodes : <<m, n>> \in g.edges \/ (n \in Cmds /\ <<n, m>> \in g.edges)}
           N == Cardinality(Nodes)
           S == t \cap g.nodes
           grow == CHOOSE f : f = [i \in 0 .. N |-> IF i = 0 THEN S
               ELSE UNION {{n} \cup Marks(n) : n \in f[i - 1]}]
           T == SUBSET g.nodes
           G == [C \in T |-> UNION {{n} \cup Marks(n) : n \in C}]
<1>1. Marked(g, t) = grow[N]
  BY DEF Marked
<1>2. N \in Nat /\ IsFiniteSet(Nodes)
  BY FS_Union, FS_CardinalityType, GraphAssumption DEF Nodes
<1>3. S \in T /\ Adds(G, T, Nodes)
  <2>1. ASSUME NEW C \in T PROVE G[C] \in T /\ C \subseteq G[C]
    <3>1. G[C] = UNION {{n} \cup Marks(n) : n \in C}
      OBVIOUS
    <3>2. \A n \in C : n \in g.nodes /\ Marks(n) \subseteq g.nodes
      OBVIOUS
    <3> HIDE DEF G, Marks
    <3>3. G[C] \subseteq g.nodes
      BY <3>1, <3>2
    <3>4. C \subseteq G[C]
      BY <3>1
    <3> QED
      BY <3>3, <3>4
  <2>2. G \in [T -> T]
    BY <2>1
  <2> QED
    BY <2>1, <2>2 DEF Adds
<1>4. PICK h : Iterates(h, N, T, S, G)
  <2>1. N \in Nat
    BY <1>2
  <2>2. S \in T
    BY <1>3
  <2>3. G \in [T -> T]
    BY <1>3 DEF Adds
  <2> HIDE DEF G, T, N, grow, S, Marks
  <2> QED
    BY <2>1, <2>2, <2>3, Iterate
<1>5. h[N] \in T /\ S \subseteq h[N] /\ G[h[N]] = h[N]
  <2> HIDE DEF G, T, grow, S, Marks
  <2> QED
    BY <1>2, <1>3, <1>4, Fixpoint
<1>6. h \in [0 .. N -> T] /\ h[0] = S /\ \A i \in 1 .. N : h[i] = G[h[i - 1]]
  BY <1>4 DEF Iterates
<1>7. \A i \in 0 .. N : i # 0 => i \in 1 .. N /\ i - 1 \in 0 .. N
  BY <1>2
<1>8. h = [i \in 0 .. N |-> IF i = 0 THEN S ELSE UNION {{n} \cup Marks(n) : n \in h[i - 1]}]
  <2>1. \A i \in 0 .. N : i # 0 => h[i - 1] \in T
    BY <1>6, <1>7
  <2>2. \A i \in 0 .. N : i # 0 => G[h[i - 1]] = UNION {{n} \cup Marks(n) : n \in h[i - 1]}
    BY <2>1
  <2> HIDE DEF G, T, S, Marks
  <2> QED
    BY <1>6, <1>7, <2>2
<1>9. grow = [i \in 0 .. N |-> IF i = 0 THEN S ELSE UNION {{n} \cup Marks(n) : n \in grow[i - 1]}]
  BY <1>8
<1> HIDE DEF grow
<1>10. grow = h
  <2>1. 0 \in 0 .. N
    BY <1>2
  <2>2. DOMAIN grow = 0 .. N /\ DOMAIN h = 0 .. N /\ grow[0] = S /\ h[0] = S
    BY <1>8, <1>9, <2>1
  <2>3. grow = [i \in DOMAIN grow |-> grow[i]] /\ h = [i \in DOMAIN h |-> h[i]]
    BY <1>8, <1>9
  <2>4. \A i \in 0 .. N : i # 0 /\ grow[i - 1] = h[i - 1] => grow[i] = h[i]
    BY <1>8, <1>9
  <2> HIDE DEF N, S, Marks
  <2> QED
    BY <1>2, <2>2, <2>3, <2>4, SameIteration
<1>11. ASSUME NEW n \in h[N], NEW k \in Marks(n) PROVE k \in h[N]
  <2>1. G[h[N]] = UNION {{m} \cup Marks(m) : m \in h[N]}
    BY <1>5
  <2>2. k \in {n} \cup Marks(n)
    OBVIOUS
  <2> HIDE DEF G, Marks
  <2> QED
    BY <1>5, <2>1, <2>2
<1> QED
  BY <1>1, <1>5, <1>10, <1>11

-----------------------------------------------------------------------------
(***************************************************************************)
(* build_graph() without transient commands.                               *)
(***************************************************************************)

(* Without transient commands attach_transient_nodes() adds nothing. *)
LEMMA NothingAttached ==
    ASSUME Transient = {}, NEW B PROVE Attached(B, {}, {}) = {}
<1> DEFINE Feeds(n) == {c \in {} : Outputs[c] \cap {} = {} /\ n \in Readers(CHOOSE f \in Outputs[c] : TRUE)}
           N == Cardinality(Transient)
           grow == CHOOSE g : g = [i \in 0 .. N |-> IF i = 0 THEN B
               ELSE UNION {{n} \cup Feeds(n) : n \in g[i - 1]}]
           h == [i \in 0 .. N |-> B]
<1>1. Attached(B, {}, {}) = grow[N] \ B
  BY DEF Attached
<1>2. N = 0
  BY FS_EmptySet
<1> HIDE DEF N
<1>3. h = [i \in 0 .. N |-> IF i = 0 THEN B ELSE UNION {{n} \cup Feeds(n) : n \in h[i - 1]}]
  <2>1. \A i \in 0 .. N : i = 0
    BY <1>2
  <2> HIDE DEF Feeds
  <2> QED
    BY <2>1
<1>4. grow = [i \in 0 .. N |-> IF i = 0 THEN B ELSE UNION {{n} \cup Feeds(n) : n \in grow[i - 1]}]
  <2> HIDE DEF h, Feeds
  <2> QED
    BY <1>3
<1>5. grow[N] = B
  <2>1. N \in 0 .. N
    BY <1>2
  <2> HIDE DEF grow, Feeds
  <2> QED
    BY <1>2, <1>4, <2>1
<1> QED
  BY <1>1, <1>5

(* The graph of a project without transient commands. *)
LEMMA PlainGraph ==
    ASSUME Transient = {}, NEW M \in SUBSET Nodes, NEW N, N = Closure(M, {})
    PROVE  Graph(M, {}) = [nodes |-> N, edges |-> Within(N), normal |-> Within(N), skip |-> N \ M,
                           processing |-> {}, error |-> FALSE]
<1>1. Roots(M, {}) = M /\ Unexpanded(M, {}) = {} /\ Built(M, {}) = N
  BY DEF Roots, Unexpanded, Built
<1>2. OutputsOf({}) = {} /\ TransientFiles = {}
  BY DEF OutputsOf, TransientFiles
<1>3. (M \cap Transient) \ N = {} /\ Attached(N, {}, {}) = {}
  BY NothingAttached
<1>4. {e \in Within(N) : e[1] \in Cmds \cup ((N \ {}) \cup {})} = Within(N)
  BY DEF Within
<1> QED
  BY <1>1, <1>2, <1>3, <1>4 DEF Graph

-----------------------------------------------------------------------------
(***************************************************************************)
(* The graph of an update.                                                 *)
(***************************************************************************)

(* Where the links lead: from a command to its outputs, from a file to its *)
(* readers, as the link tables of db.c have them.                          *)
LEMMA LinkFacts ==
    /\ \A n \in Nodes : Succ(n) \subseteq Nodes
    /\ \A c \in Cmds : \A f \in Outputs[c] : f \in Files /\ f \in Succ(c) /\ <<c, f>> \in Links
    /\ \A c \in Cmds : \A f \in Inputs[c] : f \in Files /\ c \in Succ(f) /\ <<f, c>> \in Links
    /\ \A c \in Cmds : c \notin Files /\ c \in Nodes
    /\ Files \subseteq Nodes
<1>1. ASSUME NEW c \in Cmds, NEW f \in Outputs[c] PROVE f \in Files /\ f \in Succ(c) /\ <<c, f>> \in Links
  <2>1. f \in Files
    BY GraphAssumption
  <2>2. \A l \in {c} \X Outputs[c] : l \in Links
    BY DEF Links
  <2>3. <<c, f>> \in Links
    BY <2>2
  <2> QED
    BY <2>1, <2>3 DEF Succ, Nodes
<1>2. ASSUME NEW c \in Cmds, NEW f \in Inputs[c] PROVE f \in Files /\ c \in Succ(f) /\ <<f, c>> \in Links
  <2>1. f \in Files
    BY GraphAssumption
  <2>2. <<f, c>> \in Inputs[c] \X {c}
    OBVIOUS
  <2>3. <<f, c>> \in Links
    BY <2>2 DEF Links
  <2> QED
    BY <2>1, <2>3 DEF Succ, Nodes
<1> QED
  BY <1>1, <1>2, GraphAssumption DEF Succ, Nodes

(* A link comes from an input or goes to an output. *)
LEMMA LinkKinds ==
    ASSUME NEW n, NEW m, <<n, m>> \in Links
    PROVE  (m \in Cmds /\ n \in Inputs[m]) \/ (n \in Cmds /\ m \in Outputs[n])
<1>1. ASSUME NEW l \in Links PROVE \E c \in Cmds : l \in Inputs[c] \X {c} \/ l \in {c} \X Outputs[c]
  BY DEF Links
<1>2. PICK c \in Cmds : <<n, m>> \in Inputs[c] \X {c} \/ <<n, m>> \in {c} \X Outputs[c]
  BY <1>1
<1> QED
  BY <1>2

(* What prune_graph() leaves is closed, but for P, which it takes away. *)
LeftOver(g, M, t) ==
    /\ g.nodes \subseteq Nodes /\ g.processing = {} /\ g.pruned \subseteq Cmds
    /\ g.edges = Within(g.nodes) /\ g.normal = g.edges
    /\ \E P \in SUBSET Nodes :
          /\ \A n \in P : Succ(n) \subseteq P
          /\ P \cap g.nodes \subseteq Sources
          /\ P \cap Cmds \subseteq g.pruned
          /\ P \cap t = {} /\ (t = {} => P = {})
          /\ M \cup g.pruned \subseteq g.nodes \cup P
          /\ \A n \in g.nodes : Succ(n) \subseteq g.nodes \cup P
    /\ \A c \in g.nodes \cap Cmds : Outputs[c] \subseteq g.nodes
    /\ \A c \in g.nodes \cap Cmds : c \in g.skip <=> c \notin M \cup g.pruned
    /\ g.skip \cap (M \cup g.pruned) = {}

(* prune_graph() leaves a graph that is whole: what was taken out is       *)
(* closed under the links, its commands are in the modify list, and a      *)
(* target is not in it.                                                    *)
LEMMA PrunedGraph ==
    ASSUME Transient = {}, NEW M \in SUBSET Nodes, NEW t \in SUBSET Files
    PROVE  Graph(M, {}).error = FALSE /\ LeftOver(Pruned(Graph(M, {}), t), M, t)
<1> DEFINE N == Closure(M, {})
           G == Graph(M, {})
           g == Pruned(G, t)
           U == Unmarked(G, t)
           K == Marked(G, t)
           W == N \ (U \ Sources)
<1>1. M \subseteq N /\ N \in SUBSET Nodes /\ \A n \in N : Succ(n) \subseteq N
  BY ClosureIsClosed
<1>2. G.nodes = N /\ G.edges = Within(N) /\ G.normal = Within(N) /\ G.skip = N \ M
      /\ G.processing = {} /\ G.error = FALSE
  <2> HIDE DEF N
  <2>1. N = Closure(M, {})
    BY DEF N
  <2>2. G = [nodes |-> N, edges |-> Within(N), normal |-> Within(N), skip |-> N \ M,
                           processing |-> {}, error |-> FALSE]
    BY <2>1, PlainGraph
  <2> QED
    BY <2>2
<1> HIDE DEF N, G
<1>3. /\ t \cap N \subseteq K /\ K \subseteq N
      /\ \A n \in K, m \in N : <<m, n>> \in Within(N) \/ (n \in Cmds /\ <<n, m>> \in Within(N)) => m \in K
  BY <1>1, <1>2, MarkedIsClosed
<1>4. U = IF t = {} THEN {} ELSE N \ K
  BY <1>2 DEF Unmarked
<1> HIDE DEF U, K
<1>5. U \subseteq N /\ U \subseteq Nodes
  BY <1>1, <1>4
<1>6. /\ g.nodes = W /\ g.edges = Within(N) \cap Within(W) /\ g.normal = Within(N) \cap Within(W)
      /\ g.skip = (N \ M) \cap W /\ g.processing = {} /\ g.pruned = U \cap Cmds
  BY <1>2 DEF Pruned, U, G
<1> HIDE DEF g
<1>7. Within(N) \cap Within(W) = Within(W)
  BY DEF Within
<1>8. ASSUME NEW n \in N, NEW m \in Succ(n) PROVE m \in N /\ <<n, m>> \in Within(N)
  BY <1>1 DEF Within, Succ
<1>9. ASSUME NEW n \in U PROVE Succ(n) \subseteq U
  <2> SUFFICES ASSUME NEW m \in Succ(n) PROVE m \in U
    OBVIOUS
  <2>1. n \in N /\ n \notin K /\ t # {}
    BY <1>4
  <2>2. m \in N /\ <<n, m>> \in Within(N)
    BY <1>8, <2>1
  <2>3. m \notin K
    BY <1>3, <2>1, <2>2
  <2> QED
    BY <1>4, <2>1, <2>2, <2>3
<1>10. U \cap t = {} /\ (t = {} => U = {})
  BY <1>3, <1>4
<1>11. ASSUME NEW c \in W \cap Cmds PROVE c \notin U /\ Outputs[c] \subseteq W
  <2>1. c \notin Sources
    BY LinkFacts DEF Sources
  <2>2. c \in N /\ c \notin U
    BY <2>1
  <2>3. ASSUME NEW f \in Outputs[c] PROVE f \in N /\ f \notin U
    <3>1. f \in Succ(c)
      BY LinkFacts
    <3>2. f \in N /\ <<c, f>> \in Within(N)
      BY <1>8, <2>2, <3>1
    <3>3. t # {} => f \in K
      BY <1>3, <1>4, <2>2, <3>2
    <3> QED
      BY <1>4, <3>2, <3>3
  <2> QED
    BY <2>2, <2>3
<1>12. \A n \in W : Succ(n) \subseteq W \cup U
  BY <1>1
<1>13. U \cap W \subseteq Sources /\ M \cup (U \cap Cmds) \subseteq W \cup U /\ W \subseteq Nodes
  BY <1>1, <1>5
<1>14. \A c \in W \cap Cmds : c \in (N \ M) \cap W <=> c \notin M \cup (U \cap Cmds)
  BY <1>11
<1>15. ((N \ M) \cap W) \cap (M \cup (U \cap Cmds)) = {}
  BY <1>11
<1> HIDE DEF W
<1>16. G.error = FALSE
  BY <1>2
<1>17. \E P \in SUBSET Nodes :
                 /\ \A n \in P : Succ(n) \subseteq P
                 /\ P \cap g.nodes \subseteq Sources
                 /\ P \cap Cmds \subseteq g.pruned
                 /\ P \cap t = {} /\ (t = {} => P = {})
                 /\ M \cup g.pruned \subseteq g.nodes \cup P
                 /\ \A n \in g.nodes : Succ(n) \subseteq g.nodes \cup P
  <2>1. U \in SUBSET Nodes
    BY <1>5
  <2> QED
    BY <2>1, <1>6, <1>9, <1>10, <1>12, <1>13
<1> QED
  BY <1>6, <1>7, <1>11, <1>13, <1>14, <1>15, <1>16, <1>17 DEF G, g, LeftOver

-----------------------------------------------------------------------------
(***************************************************************************)
(* The main loop takes a node that is ready.                               *)
(***************************************************************************)

(* The edges of a node are its links to what is left of the graph. *)
LEMMA EdgeFacts ==
    ASSUME edges = Within(nodes), normal = edges
    PROVE  /\ \A n, m \in nodes : <<n, m>> \in Links => <<n, m>> \in edges
           /\ \A c \in nodes \cap Cmds : From(c) = Outputs[c] \cap nodes
           /\ \A f \in nodes \cap Files : ModifyOutputs(f) = Readers(f) \cap nodes
<1>1. \A n, m \in nodes : <<n, m>> \in Links <=> <<n, m>> \in edges
  BY DEF Within
<1>2. ASSUME NEW c \in nodes \cap Cmds PROVE From(c) = Outputs[c] \cap nodes
  <2>1. \A m \in From(c) : m \in nodes /\ <<c, m>> \in Links
    BY <1>1 DEF From
  <2>2. \A m \in From(c) : m \in Outputs[c]
    BY <2>1, LinkKinds, LinkFacts
  <2>3. \A m \in Outputs[c] \cap nodes : m \in From(c)
    BY <1>1, LinkFacts DEF From
  <2> QED
    BY <2>1, <2>2, <2>3
<1>3. ASSUME NEW f \in nodes \cap Files PROVE ModifyOutputs(f) = Readers(f) \cap nodes
  <2>1. \A m \in ModifyOutputs(f) : m \in nodes /\ <<f, m>> \in Links
    BY <1>1 DEF ModifyOutputs
  <2>2. \A m \in ModifyOutputs(f) : m \in Readers(f)
    BY <2>1, LinkKinds, LinkFacts DEF Readers
  <2>3. \A m \in Readers(f) \cap nodes : m \in ModifyOutputs(f)
    BY <1>1, LinkFacts DEF ModifyOutputs, Readers
  <2> QED
    BY <2>1, <2>2, <2>3
<1> QED
  BY <1>1, <1>2, <1>3

(* The commands that are unskipped are in the graph. *)
LEMMA NextFacts ==
    ASSUME GraphInv, NEW c \in nodes \cap Cmds, NEW skipped
    PROVE  /\ From(c) = Outputs[c]
           /\ NextCmds(c, skipped) = {d \in nodes \cap Cmds : (Outputs[c] \ skipped) \cap Inputs[d] # {}}
<1>1. edges = Within(nodes) /\ normal = edges /\ Outputs[c] \subseteq nodes
  BY DEF GraphInv
<1>2. From(c) = Outputs[c] /\ \A f \in nodes \cap Files : ModifyOutputs(f) = Readers(f) \cap nodes
  BY <1>1, EdgeFacts
<1>3. \A f \in Outputs[c] : f \in nodes \cap Files
  BY <1>1, LinkFacts
<1>4. \A f \in Outputs[c] \ skipped : ModifyOutputs(f) = {d \in nodes \cap Cmds : f \in Inputs[d]}
  BY <1>2, <1>3 DEF Readers
<1>5. NextCmds(c, skipped) = UNION {ModifyOutputs(f) : f \in Outputs[c] \ skipped}
  BY <1>2 DEF NextCmds
<1>6. UNION {ModifyOutputs(f) : f \in Outputs[c] \ skipped} =
          {d \in nodes \cap Cmds : (Outputs[c] \ skipped) \cap Inputs[d] # {}}
  BY <1>4
<1> QED
  BY <1>2, <1>5, <1>6

(* What is left when pop_node() has taken a node. *)
LEMMA Popped ==
    ASSUME Typed, GraphInv, NEW n \in nodes, \A m \in nodes : <<m, n>> \notin edges, Pop(n),
           NEW next \in SUBSET (nodes \cap Cmds), n \notin next,
           NEW skipped \in SUBSET skip, skipped \cap Cmds = skip \cap Cmds,
           modify' = (modify \cup next) \ {n}, skip' = (skipped \ next) \ {n},
           targets' = targets
    PROVE  GraphInv' /\ edges' \subseteq edges
<1>1. nodes' = nodes \ {n} /\ edges' = edges \ Out(n, edges) /\ normal' = edges'
  BY DEF Pop, GraphInv
<1>2. edges = Within(nodes)
  BY DEF GraphInv
<1>3. edges' = Within(nodes')
  <2>1. \A e \in edges : e[1] \in nodes /\ e[2] \in nodes /\ e = <<e[1], e[2]>>
    <3>1. \A e \in Links : e = <<e[1], e[2]>>
      BY DEF Links
    <3> QED
      BY <1>2, <3>1 DEF Within
  <2>2. \A e \in edges : e[2] # n
    BY <2>1
  <2>3. \A e \in Links : e \in edges <=> e[1] \in nodes /\ e[2] \in nodes
    BY <1>2 DEF Within
  <2>4. edges \subseteq Links
    BY <1>2 DEF Within
  <2> QED
    BY <1>1, <2>2, <2>3, <2>4 DEF Within, Out
<1>4. \A m \in nodes : n \notin Succ(m)
  BY EdgeFacts DEF Succ, GraphInv
<1>5. PICK P \in SUBSET Nodes :
          /\ PrunedTo(P)
          /\ modify \subseteq nodes \cup P
          /\ \A m \in nodes : Succ(m) \subseteq nodes \cup P
  BY DEF GraphInv
<1>6. PrunedTo(P)'
  <2>1. n \in Cmds => n \notin P
    BY <1>5, LinkFacts DEF PrunedTo, Sources
  <2> QED
    BY <1>1, <1>5, <2>1 DEF PrunedTo
<1>7. modify' \subseteq nodes' \cup P
  BY <1>1, <1>5
<1>8. \A m \in nodes' : Succ(m) \subseteq nodes' \cup P
  BY <1>1, <1>4, <1>5
<1>9. \A c \in nodes' \cap Cmds : Outputs[c] \subseteq nodes'
  <2> SUFFICES ASSUME NEW c \in nodes' \cap Cmds, NEW f \in Outputs[c] PROVE f \in nodes'
    OBVIOUS
  <2>1. c \in nodes /\ f \in Succ(c)
    BY <1>1, LinkFacts
  <2>2. f \in nodes
    BY <2>1 DEF GraphInv
  <2> QED
    BY <1>1, <1>4, <2>1, <2>2
<1>10. \A c \in nodes' \cap Cmds : c \in skip' <=> c \notin modify'
  BY <1>1 DEF GraphInv
<1>11. skip' \cap modify' = {}
  BY DEF GraphInv
<1>12. edges' \subseteq edges
  BY <1>1
<1> QED
  BY <1>1, <1>3, <1>6, <1>7, <1>8, <1>9, <1>10, <1>11, <1>12 DEF GraphInv

-----------------------------------------------------------------------------
(***************************************************************************)
(* ShapeInv: each step.                                                    *)
(***************************************************************************)

(* A command leaves a file of every content that one can have; it fails    *)
(* for want of an input only if one is missing, and leaves rubbish only if *)
(* it read some.                                                           *)
LEMMA WrittenFacts ==
    ASSUME NEW d \in [Files -> Contents], NEW c \in Cmds
    PROVE  /\ Written(c, d) \in Contents /\ Written(c, d) # NoJob
           /\ Written(c, d) = Gone <=> \E f \in Inputs[c] : d[f] = Gone
           /\ Written(c, d) = Bad => \E f \in Inputs[c] : d[f] = Bad
<1>1. Inputs[c] \subseteq Files
  BY GraphAssumption
<1>2. CASE \E f \in Inputs[c] : d[f] \in {Gone, Bad}
  BY <1>2, UpdateAssumption DEF Written, Contents
<1>3. CASE \A f \in Inputs[c] : d[f] \notin {Gone, Bad}
  <2> DEFINE r == [f \in Inputs[c] |-> d[f]]
  <2>1. r \in [Inputs[c] -> Values]
    BY <1>1, <1>3 DEF Contents
  <2>2. Content(c, r) \in Values
    BY <2>1, UpdateAssumption
  <2>3. Written(c, d) = Content(c, r)
    BY <1>3 DEF Written
  <2> HIDE DEF r
  <2> QED
    BY <2>2, <2>3, <1>3, UpdateAssumption DEF Contents
<1> QED
  BY <1>2, <1>3

(* After the first parsing there is no graph, and every command is         *)
(* flagged.                                                                *)
LEMMA ShapeInit == ASSUME Transient = {}, Init PROVE ShapeInv
<1>1. Typed
  BY GraphAssumption, UpdateAssumption DEF Init, Typed, Contents, Sources, Nodes
<1>2. Running = {}
  BY DEF Init, Running
<1> QED
  BY <1>1, <1>2 DEF Init, ShapeInv

(* An edit of a source file takes nothing away. *)
LEMMA ShapeEdit ==
    ASSUME ShapeInv, NEW f \in Files, NEW v \in Values, Edit(f, v) PROVE ShapeInv'
<1> USE DEF Edit, db, args, graph
<1>1. Typed'
  BY DEF ShapeInv, Typed, Contents
<1>2. Missing' = Missing
  BY DEF Missing, Sources, ShapeInv, Typed
<1>3. Running' = Running
  BY DEF Running
<1>4. MissingFlagged => MissingFlagged'
  BY <1>2 DEF MissingFlagged
<1>5. GraphInv /\ RunningInv => GraphInv' /\ RunningInv'
  BY <1>3 DEF GraphInv, RunningInv, PrunedTo
<1> QED
  BY <1>1, <1>3, <1>4, <1>5 DEF ShapeInv

(* A generated file that is changed or removed is changed between updates. *)
LEMMA ShapeMeddle ==
    ASSUME ShapeInv, NEW f \in Files, Meddle(f) PROVE ShapeInv'
<1> USE DEF Meddle, db, graph
<1>1. Typed'
  BY DEF ShapeInv, Typed, Contents, Sources
<1>2. Running' = Running
  BY DEF Running
<1> QED
  BY <1>1, <1>2 DEF ShapeInv

(* The scan flags the command of every file that is missing. *)
LEMMA ShapeScan == ASSUME ShapeInv, Scan PROVE ShapeInv'
<1> USE DEF Scan, args, graph
<1>1. Typed'
  BY LinkFacts DEF ShapeInv, Typed, Missing
<1>2. Running' = Running
  BY DEF Running
<1>3. MissingFlagged'
  <2> SUFFICES ASSUME NEW f \in Missing' PROVE \E p \in modify' : p \in Cmds /\ f \in Outputs[p]
    BY DEF MissingFlagged
  <2>1. f \in Missing /\ f \in Generated
    BY DEF Missing
  <2>2. PICK p \in Cmds : f \in Outputs[p]
    BY <2>1 DEF Generated
  <2> QED
    BY <2>1, <2>2
<1> QED
  BY <1>1, <1>2, <1>3 DEF ShapeInv

(* build_graph() and prune_graph() make a graph from which nothing that is *)
(* flagged is left out, but what was pruned and stays flagged.             *)
LEMMA ShapeBegin == ASSUME Transient = {}, ShapeInv, ProcessUpdateNodes PROVE ShapeInv'
<1>1. /\ phase = "scanned" /\ Typed /\ MissingFlagged /\ touched \subseteq Sources /\ Running = {}
      /\ tlist = {} /\ modify \in SUBSET Nodes
  BY DEF ProcessUpdateNodes, ShapeInv, Typed
<1>2. Graph(modify, tlist).error = FALSE
  BY <1>1, PrunedGraph
<1>3. PICK t \in Targets \cup {{}}, k \in BOOLEAN : Begin(t, k, Pruned(Graph(modify, tlist), t))
  BY <1>2 DEF ProcessUpdateNodes
<1>4. t \in SUBSET Files
  BY UpdateAssumption
<1> DEFINE g == Pruned(Graph(modify, tlist), t)
<1>0. LeftOver(g, modify, t)
  BY <1>1, <1>4, PrunedGraph
<1>5. /\ g.nodes \subseteq Nodes /\ g.processing = {}
      /\ \A c \in g.nodes \cap Cmds : Outputs[c] \subseteq g.nodes
  BY <1>0 DEF LeftOver
<1>6. Begin(t, k, g)
  BY <1>3
<1> HIDE DEF g
<1> USE DEF Begin, env
<1>7. Typed'
  <2>1. backup' \in [Files -> Contents]
    BY <1>1, <1>6 DEF Typed, Contents
  <2>2. modify' \subseteq Nodes /\ nodes' \subseteq Nodes
    BY <1>0, <1>1, <1>6, LinkFacts DEF LeftOver, Typed
  <2>3. processing' = {} /\ delete' = {} /\ targets' \subseteq Files
    BY <1>4, <1>5, <1>6
  <2> QED
    BY <1>1, <1>6, <2>1, <2>2, <2>3 DEF Typed
<1>8. Running' = {} /\ Missing' = Missing
  BY <1>1, <1>6 DEF Running, Missing
<1>9. MissingFlagged'
  BY <1>1, <1>6, <1>8 DEF MissingFlagged
<1>10. GraphInv'
  <2>1. PICK P \in SUBSET Nodes :
            /\ \A n \in P : Succ(n) \subseteq P
            /\ P \cap g.nodes \subseteq Sources
            /\ P \cap Cmds \subseteq g.pruned
            /\ P \cap t = {} /\ (t = {} => P = {})
            /\ modify \cup g.pruned \subseteq g.nodes \cup P
            /\ \A n \in g.nodes : Succ(n) \subseteq g.nodes \cup P
    BY <1>0 DEF LeftOver
  <2>2. PrunedTo(P)'
    BY <1>6, <2>1 DEF PrunedTo
  <2>3. \E Q \in SUBSET Nodes :
          /\ PrunedTo(Q)'
          /\ modify' \subseteq nodes' \cup Q
          /\ \A n \in nodes' : Succ(n) \subseteq nodes' \cup Q
    BY <1>6, <2>1, <2>2
  <2>4. edges' = Within(nodes') /\ normal' = edges'
    BY <1>0, <1>6 DEF LeftOver
  <2>5. /\ \A c \in nodes' \cap Cmds : Outputs[c] \subseteq nodes'
        /\ \A c \in nodes' \cap Cmds : c \in skip' <=> c \notin modify'
        /\ skip' \cap modify' = {}
    BY <1>0, <1>6 DEF LeftOver
  <2> QED
    BY <2>3, <2>4, <2>5 DEF GraphInv
<1>11. RunningInv'
  <2>1. \A c \in nodes' \cap Cmds : \A f \in Outputs[c] : backup'[f] = Gone
    <3> SUFFICES ASSUME NEW c \in nodes' \cap Cmds, NEW f \in Outputs[c] PROVE backup'[f] = Gone
      OBVIOUS
    <3>1. f \in Files /\ g.nodes # {}
      BY <1>6, LinkFacts
    <3> QED
      BY <1>6, <3>1
  <2> QED
    BY <1>8, <2>1 DEF RunningInv
<1> QED
  BY <1>1, <1>6, <1>7, <1>8, <1>9, <1>10, <1>11 DEF ShapeInv

(* A running command is not affected by what is taken from the graph. *)
LEMMA RunningStays ==
    ASSUME RunningInv, GraphInv, NEW n, nodes' = nodes \ {n}, edges' \subseteq edges,
           modify \ {n} \subseteq modify', skip' \subseteq skip, backup' = backup, failed' = failed,
           Running' = Running \ {n}, \A d \in Running \ {n} : job'[d] = job[d]
    PROVE  RunningInv'
<1>1. \A c \in Running' : c \in Running /\ c # n
  OBVIOUS
<1>2. \A c \in Running' :
          /\ c \in nodes' \cap modify'
          /\ \A m \in nodes' : <<m, c>> \notin edges'
          /\ c \notin Compare => Outputs[c] \cap skip' = {}
          /\ job'[c] # Gone
  BY <1>1 DEF RunningInv
<1>3. \A c \in nodes' \cap Cmds : c \notin Running' \cup failed' => c \in nodes \cap Cmds /\ c \notin Running \cup failed
  OBVIOUS
<1>4. \A c \in nodes' \cap Cmds : \A f \in Outputs[c] :
          c \notin Running' \cup failed' => backup'[f] = Gone
  BY <1>3 DEF RunningInv
<1> QED
  BY <1>2, <1>4 DEF RunningInv

(* update_work() on a file takes a node whose readers stay in the graph. *)
LEMMA ShapeVisitFile ==
    ASSUME ShapeInv, NEW f \in Files, VisitFile(f) PROVE ShapeInv'
<1> DEFINE next == IF f \in skip THEN {} ELSE ModifyOutputs(f)
<1> USE DEF disk, args, env
<1>1. /\ phase = "update" /\ phase' = "update" /\ f \in nodes /\ f \notin Running
      /\ \A m \in nodes : <<m, f>> \notin edges
      /\ modify' = (modify \cup (next \cap Cmds)) \ {f} /\ skip' = (skip \ next) \ {f}
      /\ Pop(f) /\ targets' = targets
  BY DEF VisitFile, Ready
<1>2. Typed /\ GraphInv /\ RunningInv /\ MissingFlagged /\ f \notin Cmds
  BY <1>1, LinkFacts DEF ShapeInv
<1>3. next \subseteq nodes \cap Cmds
  <2>1. ModifyOutputs(f) = Readers(f) \cap nodes
    BY <1>1, <1>2, EdgeFacts DEF GraphInv
  <2> QED
    BY <2>1 DEF Readers
<1> HIDE DEF next
<1>4. next \in SUBSET (nodes \cap Cmds) /\ f \notin next /\ modify' = (modify \cup next) \ {f}
  BY <1>1, <1>2, <1>3
<1>5. GraphInv' /\ edges' \subseteq edges
  <2>1. skip \in SUBSET skip /\ skip \cap Cmds = skip \cap Cmds
    OBVIOUS
  <2> QED
    BY <1>1, <1>2, <1>4, <2>1, Popped
<1>6. Running' = Running /\ job' = job /\ Missing' = Missing
  BY DEF VisitFile, Running, Missing
<1>7. Typed'
  BY <1>1, <1>2, <1>4 DEF VisitFile, Typed, Pop
<1>8. MissingFlagged'
  BY <1>2, <1>4, <1>6 DEF MissingFlagged
<1>9. RunningInv'
  <2>1. /\ nodes' = nodes \ {f} /\ modify \ {f} \subseteq modify' /\ skip' \subseteq skip
        /\ backup' = backup /\ failed' = failed /\ Running' = Running \ {f}
    BY <1>1, <1>4, <1>6 DEF Pop, VisitFile
  <2> QED
    BY <1>2, <1>5, <1>6, <2>1, RunningStays
<1>10. touched' = touched /\ fresh' = fresh
  BY DEF VisitFile
<1> QED
  BY <1>1, <1>5, <1>6, <1>7, <1>8, <1>9, <1>10 DEF ShapeInv

(* A command that is ready or runs does not read what it writes. *)
LEMMA NotItsReader ==
    ASSUME GraphInv, NEW c \in nodes \cap Cmds, \A m \in nodes : <<m, c>> \notin edges, NEW skipped
    PROVE  NextCmds(c, skipped) \in SUBSET (nodes \cap Cmds) /\ c \notin NextCmds(c, skipped)
<1>1. NextCmds(c, skipped) = {d \in nodes \cap Cmds : (Outputs[c] \ skipped) \cap Inputs[d] # {}}
  BY NextFacts
<1>2. ASSUME NEW f \in Outputs[c], f \in Inputs[c] PROVE FALSE
  <2>1. f \in nodes /\ edges = Within(nodes) /\ normal = edges
    BY DEF GraphInv
  <2>2. <<f, c>> \in Links
    BY <1>2, LinkFacts
  <2> QED
    BY <2>1, <2>2, EdgeFacts
<1> QED
  BY <1>1, <1>2

(* A command that is skipped is not flagged and leaves its outputs alone. *)
LEMMA ShapeSkipCmd ==
    ASSUME Transient = {}, ShapeInv, NEW c \in Cmds, SkipCmd(c) PROVE ShapeInv'
<1> DEFINE next == NextCmds(c, skip)
<1> USE DEF disk, args, env
<1>1. /\ phase = "update" /\ phase' = "update" /\ c \in nodes /\ c \notin Running /\ c \in skip
      /\ \A m \in nodes : <<m, c>> \notin edges
      /\ modify' = (modify \cup (next \cap Cmds)) \ {c} /\ skip' = (skip \ next) \ {c}
      /\ Pop(c) /\ targets' = targets /\ tlist' = tlist \ {c}
  BY DEF SkipCmd, Ready, Through
<1>2. Typed /\ GraphInv /\ RunningInv /\ MissingFlagged /\ c \notin modify
  BY <1>1 DEF ShapeInv, GraphInv
<1>3. next \in SUBSET (nodes \cap Cmds) /\ c \notin next
  BY <1>1, <1>2, NotItsReader
<1> HIDE DEF next
<1>4. modify' = (modify \cup next) \ {c}
  BY <1>1, <1>3
<1>5. GraphInv' /\ edges' \subseteq edges
  <2>1. skip \in SUBSET skip /\ skip \cap Cmds = skip \cap Cmds
    OBVIOUS
  <2> QED
    BY <1>1, <1>2, <1>3, <1>4, <2>1, Popped
<1>6. Running' = Running /\ job' = job /\ Missing' = Missing
  BY DEF SkipCmd, Running, Missing
<1>7. Typed'
  BY <1>1, <1>2, <1>3, <1>4 DEF SkipCmd, Typed, Pop
<1>8. MissingFlagged'
  BY <1>2, <1>4, <1>6 DEF MissingFlagged
<1>9. RunningInv'
  <2>1. /\ nodes' = nodes \ {c} /\ modify \ {c} \subseteq modify' /\ skip' \subseteq skip
        /\ backup' = backup /\ failed' = failed /\ Running' = Running \ {c}
    BY <1>1, <1>4, <1>6 DEF Pop, SkipCmd
  <2> QED
    BY <1>2, <1>5, <1>6, <2>1, RunningStays
<1>10. touched' = touched /\ fresh' = fresh
  BY DEF SkipCmd
<1> QED
  BY <1>1, <1>5, <1>6, <1>7, <1>8, <1>9, <1>10 DEF ShapeInv

(* What a command that is ready reads exists. *)
LEMMA InputsReady ==
    ASSUME Typed, GraphInv, MissingFlagged, NEW c \in nodes \cap Cmds,
           \A m \in nodes : <<m, c>> \notin edges, NEW f \in Inputs[c]
    PROVE  f \notin Missing /\ fs[f] # Gone
<1>1. ASSUME f \in Missing PROVE FALSE
  <2>1. PICK p \in modify : p \in Cmds /\ f \in Outputs[p]
    BY <1>1 DEF MissingFlagged
  <2>2. f \in Succ(p) /\ c \in Succ(f) /\ <<f, c>> \in Links
    BY <2>1, LinkFacts
  <2>3. PICK P \in SUBSET Nodes : PrunedTo(P) /\ modify \subseteq nodes \cup P
    BY DEF GraphInv
  <2>4. CASE p \in nodes
    <3>1. f \in nodes
      BY <2>1, <2>4 DEF GraphInv
    <3> QED
      BY <2>2, <3>1, EdgeFacts DEF GraphInv
  <2>5. CASE p \in P
    <3>1. c \in P /\ c \in Sources
      BY <2>2, <2>3, <2>5 DEF PrunedTo
    <3> QED
      BY <3>1, LinkFacts DEF Sources
  <2> QED
    BY <2>1, <2>3, <2>4, <2>5
<1>2. f \in Files
  BY LinkFacts
<1>3. CASE f \in Generated
  BY <1>1, <1>3 DEF Missing
<1>4. CASE f \notin Generated
  BY <1>1, <1>2, <1>4, UpdateAssumption DEF Typed, Sources
<1> QED
  BY <1>1, <1>3, <1>4

(* A file has one command that writes it, or is a source. *)
LEMMA OutputFacts ==
    /\ \A c \in Cmds : Outputs[c] \subseteq Files \cap Generated
    /\ \A c, d \in Cmds : c # d => Outputs[c] \cap Outputs[d] = {}
    /\ Sources \subseteq Files /\ Sources \cap Generated = {} /\ Generated \subseteq Files
  BY GraphAssumption, LinkFacts DEF Generated, Sources

(* What StartCmd does, when the graph is as it should be. *)
LEMMA StartFacts ==
    ASSUME ShapeInv, NEW c \in Cmds, StartCmd(c)
    PROVE  /\ phase = "update" /\ phase' = "update" /\ c \in nodes /\ c \in modify /\ c \notin Running
           /\ c \notin skip /\ \A m \in nodes : <<m, c>> \notin edges
           /\ OldOutputs(c) = Outputs[c]
           /\ fs' = [f \in Files |-> IF f \in Outputs[c] THEN Gone ELSE fs[f]]
           /\ job' = [job EXCEPT ![c] = Written(c, fs)]
           /\ Written(c, fs) \in Contents \ {Gone}
           /\ Running' = Running \cup {c}
           /\ c \notin Compare => skip' = skip \ Outputs[c] /\ backup' = backup
           /\ c \in Compare =>
                 /\ skip' = skip
                 /\ backup' = [f \in Files |-> IF f \in Outputs[c] /\ fs[f] # Gone THEN fs[f] ELSE backup[f]]
<1>1. /\ phase = "update" /\ phase' = "update" /\ c \in nodes /\ c \notin Running
      /\ c \notin skip /\ \A m \in nodes : <<m, c>> \notin edges
  BY DEF StartCmd, Ready
<1>2. Typed /\ GraphInv /\ MissingFlagged /\ delete = {} /\ fs \in [Files -> Contents]
  BY <1>1 DEF ShapeInv, Typed
<1>3. OldOutputs(c) = Outputs[c]
  BY <1>1, <1>2, NextFacts DEF OldOutputs
<1>4. \A f \in Inputs[c] : fs[f] # Gone
  BY <1>1, <1>2, InputsReady
<1>5. Written(c, fs) \in Contents \ {Gone} /\ Written(c, fs) # NoJob
  BY <1>2, <1>4, WrittenFacts
<1>6. job' = [job EXCEPT ![c] = Written(c, fs)]
  BY DEF StartCmd
<1>7. Running' = Running \cup {c}
  BY <1>2, <1>5, <1>6 DEF Running, Typed
<1>8. c \in modify
  BY <1>1, <1>2 DEF GraphInv
<1> QED
  BY <1>1, <1>3, <1>5, <1>6, <1>7, <1>8 DEF StartCmd, MoveOutputs, UnlinkOutputs

(* A command that starts has its inputs: each is made, or is a source. *)
LEMMA ShapeStartCmd ==
    ASSUME ShapeInv, NEW c \in Cmds, StartCmd(c) PROVE ShapeInv'
<1> USE DEF db, args, env
<1>1. /\ phase = "update" /\ phase' = "update" /\ c \in nodes /\ c \in modify /\ c \notin Running
      /\ c \notin skip /\ \A m \in nodes : <<m, c>> \notin edges
      /\ fs' = [f \in Files |-> IF f \in Outputs[c] THEN Gone ELSE fs[f]]
      /\ job' = [job EXCEPT ![c] = Written(c, fs)]
      /\ Written(c, fs) \in Contents \ {Gone}
      /\ Running' = Running \cup {c}
      /\ c \notin Compare => skip' = skip \ Outputs[c] /\ backup' = backup
      /\ c \in Compare =>
           /\ skip' = skip
           /\ backup' = [f \in Files |-> IF f \in Outputs[c] /\ fs[f] # Gone THEN fs[f] ELSE backup[f]]
  BY StartFacts
<1>2. Typed /\ GraphInv /\ RunningInv /\ MissingFlagged
  BY <1>1 DEF ShapeInv
<1>3. /\ modify' = modify /\ nodes' = nodes /\ edges' = edges /\ normal' = normal /\ targets' = targets
      /\ touched' = touched /\ fresh' = fresh /\ saved' = saved /\ failed' = failed /\ placed' = placed
      /\ processing' = processing /\ delete' = delete /\ tlist' = tlist
  BY DEF StartCmd
<1>4. Typed'
  <2>1. fs' \in [Files -> Contents] /\ backup' \in [Files -> Contents]
    BY <1>1, <1>2 DEF Typed, Contents
  <2>2. \A f \in Sources : fs'[f] \in Values
    <3> SUFFICES ASSUME NEW f \in Sources PROVE fs'[f] \in Values
      OBVIOUS
    <3>1. f \in Files /\ f \notin Outputs[c]
      BY OutputFacts
    <3> QED
      BY <1>1, <1>2, <3>1 DEF Typed
  <2>3. job' \in [Cmds -> Contents \cup {NoJob}]
    BY <1>1, <1>2 DEF Typed
  <2> QED
    BY <1>1, <1>2, <1>3, <2>1, <2>2, <2>3 DEF Typed
<1>5. MissingFlagged'
  <2> SUFFICES ASSUME NEW f \in Missing' PROVE \E p \in modify' : p \in Cmds /\ f \in Outputs[p]
    BY DEF MissingFlagged
  <2>1. CASE f \in Outputs[c]
    BY <1>1, <1>3, <2>1
  <2>2. CASE f \notin Outputs[c]
    <3>1. f \in Missing
      BY <1>1, <2>2, OutputFacts DEF Missing, Generated
    <3> QED
      BY <1>2, <1>3, <3>1 DEF MissingFlagged
  <2> QED
    BY <2>1, <2>2
<1>6. GraphInv'
  <2>1. \A P \in SUBSET Nodes : PrunedTo(P) => PrunedTo(P)'
    BY <1>3 DEF PrunedTo
  <2>2. skip' \subseteq skip /\ skip' \cap Cmds = skip \cap Cmds
    BY <1>1, OutputFacts, LinkFacts
  <2>3. /\ edges' = Within(nodes') /\ normal' = edges'
        /\ \A d \in nodes' \cap Cmds : Outputs[d] \subseteq nodes'
        /\ \A d \in nodes' \cap Cmds : d \in skip' <=> d \notin modify'
        /\ skip' \cap modify' = {}
    BY <1>2, <1>3, <2>2 DEF GraphInv
  <2> QED
    BY <1>2, <1>3, <2>1, <2>3 DEF GraphInv
<1>7. RunningInv'
  <2>1. skip' \subseteq skip
    BY <1>1
  <2>2. ASSUME NEW d \in Running'
        PROVE  /\ d \in nodes' \cap modify'
               /\ \A m \in nodes' : <<m, d>> \notin edges'
               /\ d \notin Compare => Outputs[d] \cap skip' = {}
               /\ job'[d] # Gone
    <3>1. CASE d = c
      BY <1>1, <1>2, <1>3, <3>1 DEF Typed
    <3>2. CASE d \in Running /\ d # c
      <4>1. d \in Cmds /\ job'[d] = job[d]
        BY <1>1, <1>2, <3>2 DEF Typed, Running
      <4> QED
        BY <1>2, <1>3, <2>1, <3>2, <4>1 DEF RunningInv
    <3> QED
      BY <1>1, <3>1, <3>2
  <2>3. ASSUME NEW d \in nodes' \cap Cmds, NEW f \in Outputs[d], d \notin Running' \cup failed'
        PROVE  backup'[f] = Gone
    <3>1. d # c /\ d \notin Running \cup failed /\ d \in nodes /\ f \in Files /\ f \notin Outputs[c]
      BY <1>1, <1>3, <2>3, OutputFacts
    <3>2. backup'[f] = backup[f]
      BY <1>1, <3>1
    <3> QED
      BY <1>2, <3>1, <3>2 DEF RunningInv
  <2> QED
    BY <2>2, <2>3 DEF RunningInv
<1> QED
  BY <1>1, <1>2, <1>3, <1>4, <1>5, <1>6, <1>7 DEF ShapeInv

(* What EndCmd does, when the graph is as it should be. *)
LEMMA EndFacts ==
    ASSUME Transient = {}, ShapeInv, NEW c \in Cmds, EndCmd(c),
           NEW skipped, skipped = IF c \in Compare THEN skip \ CheckOutputs(c) ELSE skip,
           NEW next, next = NextCmds(c, skipped)
    PROVE  /\ phase = "update" /\ phase' = "update" /\ c \in nodes /\ c \in modify /\ c \in Running
           /\ \A m \in nodes : <<m, c>> \notin edges
           /\ skipped \subseteq skip /\ skipped \cap Cmds = skip \cap Cmds
           /\ next \subseteq nodes \cap Cmds /\ c \notin next
           /\ next = {d \in nodes \cap Cmds : (Outputs[c] \ skipped) \cap Inputs[d] # {}}
           /\ From(c) = Outputs[c]
           /\ nodes' = nodes \ {c} /\ modify' = (modify \cup next) \ {c} /\ skip' = (skipped \ next) \ {c}
           /\ Pop(c) /\ tlist' = {}
           /\ fs' = [f \in Files |-> IF f \in Outputs[c] THEN job[c] ELSE fs[f]]
           /\ touched' = touched \ Outputs[c] /\ placed' = placed \cup Outputs[c]
           /\ job[c] \in Contents \ {Gone}
           /\ job' = [job EXCEPT ![c] = NoJob] /\ Running' = Running \ {c}
<1>1. /\ c \in Running /\ job[c] # Gone /\ phase' = phase
      /\ WriteFiles(c, [f \in Outputs[c] |-> job[c]], {}) /\ Through(c, skipped, MarkTransientOutputs(c))
      /\ job' = [job EXCEPT ![c] = NoJob]
  BY DEF EndCmd
<1>2. phase = "update" /\ Typed /\ GraphInv /\ RunningInv
  BY <1>1 DEF ShapeInv
<1>3. c \in nodes /\ c \in modify /\ \A m \in nodes : <<m, c>> \notin edges
  BY <1>1, <1>2 DEF RunningInv
<1>4. /\ next \subseteq nodes \cap Cmds /\ c \notin next /\ From(c) = Outputs[c]
      /\ next = {d \in nodes \cap Cmds : (Outputs[c] \ skipped) \cap Inputs[d] # {}}
  BY <1>2, <1>3, NotItsReader, NextFacts
<1>5. skipped \subseteq skip /\ skipped \cap Cmds = skip \cap Cmds
  <2>1. CheckOutputs(c) \cap Cmds = {}
    BY <1>4, LinkFacts DEF CheckOutputs
  <2> QED
    BY <2>1
<1>6. /\ fs' = [f \in Files |-> IF f \in Outputs[c] THEN job[c] ELSE fs[f]]
      /\ touched' = touched \ Outputs[c] /\ placed' = placed \cup Outputs[c]
  BY <1>1 DEF WriteFiles
<1>7. job[c] \in Contents \ {Gone} /\ Running' = Running \ {c}
  BY <1>1, <1>2 DEF Typed, Running
<1>8. tlist' = {} /\ modify' = (modify \cup next) \ {c} /\ skip' = (skipped \ next) \ {c} /\ Pop(c)
  BY <1>1, <1>2, <1>4 DEF Through, MarkTransientOutputs, Typed
<1>9. nodes' = nodes \ {c}
  BY <1>8 DEF Pop
<1> QED
  BY <1>1, <1>2, <1>3, <1>4, <1>5, <1>6, <1>7, <1>8, <1>9

(* A command that succeeds leaves none of its files missing, is no longer  *)
(* flagged, and leaves to its readers a graph in which they still are.     *)
LEMMA ShapeEndCmd ==
    ASSUME Transient = {}, ShapeInv, NEW c \in Cmds, EndCmd(c) PROVE ShapeInv'
<1> DEFINE skipped == IF c \in Compare THEN skip \ CheckOutputs(c) ELSE skip
           next    == NextCmds(c, skipped)
<1>0. skipped = (IF c \in Compare THEN skip \ CheckOutputs(c) ELSE skip) /\ next = NextCmds(c, skipped)
  OBVIOUS
<1> HIDE DEF skipped, next
<1>1. /\ phase = "update" /\ phase' = "update" /\ c \in nodes /\ c \in modify /\ c \in Running
      /\ \A m \in nodes : <<m, c>> \notin edges
      /\ skipped \subseteq skip /\ skipped \cap Cmds = skip \cap Cmds
      /\ next \subseteq nodes \cap Cmds /\ c \notin next
      /\ nodes' = nodes \ {c} /\ modify' = (modify \cup next) \ {c} /\ skip' = (skipped \ next) \ {c}
      /\ Pop(c) /\ tlist' = {}
      /\ fs' = [f \in Files |-> IF f \in Outputs[c] THEN job[c] ELSE fs[f]]
      /\ touched' = touched \ Outputs[c] /\ placed' = placed \cup Outputs[c]
      /\ job[c] \in Contents \ {Gone}
      /\ job' = [job EXCEPT ![c] = NoJob] /\ Running' = Running \ {c}
  BY <1>0, EndFacts
<1>2. Typed /\ GraphInv /\ RunningInv /\ MissingFlagged /\ (fresh => touched = {}) /\ touched \subseteq Sources
  BY <1>1 DEF ShapeInv
<1>3. /\ targets' = targets /\ fresh' = fresh /\ saved' = saved /\ failed' = failed
      /\ processing' = processing /\ delete' = delete /\ backup' = backup
  BY DEF EndCmd, args, env
<1>4. Typed'
  <2>1. fs' \in [Files -> Contents] /\ \A f \in Sources : fs'[f] \in Values
    <3>1. \A f \in Sources : f \in Files /\ f \notin Outputs[c]
      BY OutputFacts
    <3> QED
      BY <1>1, <1>2, <3>1 DEF Typed
  <2>2. job' \in [Cmds -> Contents \cup {NoJob}]
    BY <1>1, <1>2 DEF Typed
  <2>3. touched' \subseteq Files /\ placed' \subseteq Files /\ modify' \subseteq Nodes /\ nodes' \subseteq Nodes
    BY <1>1, <1>2, OutputFacts DEF Typed
  <2> QED
    BY <1>1, <1>2, <1>3, <2>1, <2>2, <2>3 DEF Typed
<1>5. MissingFlagged'
  <2> SUFFICES ASSUME NEW f \in Missing' PROVE \E p \in modify' : p \in Cmds /\ f \in Outputs[p]
    BY DEF MissingFlagged
  <2>1. f \in Missing /\ f \notin Outputs[c]
    BY <1>1, OutputFacts DEF Missing
  <2>2. PICK p \in modify : p \in Cmds /\ f \in Outputs[p]
    BY <1>2, <2>1 DEF MissingFlagged
  <2> QED
    BY <1>1, <2>1, <2>2
<1>6. GraphInv' /\ edges' \subseteq edges
  BY <1>1, <1>2, <1>3, Popped
<1>7. RunningInv'
  <2>1. \A d \in Running \ {c} : job'[d] = job[d]
    BY <1>1, <1>2 DEF Typed, Running
  <2>2. modify \ {c} \subseteq modify' /\ skip' \subseteq skip
    BY <1>1
  <2> QED
    BY <1>1, <1>2, <1>3, <1>6, <2>1, <2>2, RunningStays
<1> QED
  BY <1>1, <1>2, <1>3, <1>4, <1>5, <1>6, <1>7 DEF ShapeInv

(* A command that fails stays in the graph and in the modify list. *)
LEMMA ShapeFailCmd ==
    ASSUME ShapeInv, NEW c \in Cmds, NEW left \in [Outputs[c] -> Values \cup {Gone, Bad}], FailCmd(c, left) PROVE ShapeInv'
<1> USE DEF db, args, graph
<1>1. /\ c \in Running /\ \A f \in Outputs[c] : left[f] \in Contents
      /\ fs' = [f \in Files |-> IF f \in RestoreOutputs(c) THEN backup[f]
                                ELSE IF f \in Outputs[c] THEN left[f] ELSE fs[f]]
      /\ touched' = touched \ Outputs[c] /\ placed' \subseteq placed \cup Outputs[c]
      /\ backup' = [f \in Files |-> IF f \in RestoreOutputs(c) THEN Gone ELSE backup[f]]
      /\ failed' = failed \cup {c} /\ job' = [job EXCEPT ![c] = NoJob]
  BY DEF FailCmd, WriteFiles, Contents
<1>2. /\ phase' = phase /\ fresh' = fresh /\ modify' = modify /\ saved' = saved /\ tlist' = tlist
      /\ targets' = targets /\ nodes' = nodes /\ edges' = edges /\ normal' = normal /\ skip' = skip
      /\ processing' = processing /\ delete' = delete
  BY DEF FailCmd
<1>3. /\ phase = "update" /\ Typed /\ GraphInv /\ RunningInv /\ MissingFlagged
      /\ touched \subseteq Sources /\ (fresh => touched = {})
  BY <1>1 DEF ShapeInv
<1>4. RestoreOutputs(c) \subseteq Outputs[c] /\ c \in modify /\ Running' = Running \ {c}
  BY <1>1, <1>3 DEF RestoreOutputs, RunningInv, Running, Typed
<1>5. Typed'
  <2>1. fs' \in [Files -> Contents] /\ \A f \in Sources : fs'[f] \in Values
    <3>1. \A f \in Sources : f \in Files /\ f \notin Outputs[c]
      BY OutputFacts
    <3> QED
      BY <1>1, <1>3, <1>4, <3>1 DEF Typed
  <2>2. backup' \in [Files -> Contents]
    BY <1>1, <1>3 DEF Typed, Contents
  <2>3. job' \in [Cmds -> Contents \cup {NoJob}]
    BY <1>1, <1>3 DEF Typed
  <2>4. touched' \subseteq Files /\ placed' \subseteq Files
    BY <1>1, <1>3, OutputFacts DEF Typed
  <2> QED
    BY <1>2, <1>3, <2>1, <2>2, <2>3, <2>4 DEF Typed
<1>6. MissingFlagged'
  <2> SUFFICES ASSUME NEW f \in Missing' PROVE \E p \in modify' : p \in Cmds /\ f \in Outputs[p]
    BY DEF MissingFlagged
  <2>1. CASE f \in Outputs[c]
    BY <1>2, <1>4, <2>1
  <2>2. CASE f \notin Outputs[c]
    <3>1. f \in Missing
      BY <1>1, <1>4, <2>2, OutputFacts DEF Missing
    <3> QED
      BY <1>2, <1>3, <3>1 DEF MissingFlagged
  <2> QED
    BY <2>1, <2>2
<1>7. GraphInv'
  BY <1>2, <1>3 DEF GraphInv, PrunedTo
<1>8. RunningInv'
  <2>1. \A d \in Running' : d \in Running /\ job'[d] = job[d]
    BY <1>1, <1>3, <1>4 DEF Typed, Running
  <2>2. \A d \in Running' :
          /\ d \in nodes' \cap modify'
          /\ \A m \in nodes' : <<m, d>> \notin edges'
          /\ d \notin Compare => Outputs[d] \cap skip' = {}
          /\ job'[d] # Gone
    BY <1>2, <1>3, <2>1 DEF RunningInv
  <2>3. ASSUME NEW d \in nodes' \cap Cmds, NEW f \in Outputs[d], d \notin Running' \cup failed'
        PROVE  backup'[f] = Gone
    <3>1. d \in nodes \cap Cmds /\ d \notin Running \cup failed /\ f \in Files
      BY <1>1, <1>2, <1>4, <2>3, OutputFacts
    <3>2. backup[f] = Gone
      BY <1>3, <3>1 DEF RunningInv
    <3> QED
      BY <1>1, <3>1, <3>2
  <2> QED
    BY <2>2, <2>3 DEF RunningInv
<1> QED
  BY <1>1, <1>2, <1>3, <1>5, <1>6, <1>7, <1>8 DEF ShapeInv

(* server_exec() that fails changes nothing but that the job is over. *)
LEMMA ShapeExecError ==
    ASSUME ShapeInv, NEW c \in Cmds, ExecError(c) PROVE ShapeInv'
<1> USE DEF db, args, graph, disk
<1>1. c \in Running /\ failed' = failed \cup {c} /\ job' = [job EXCEPT ![c] = NoJob]
  BY DEF ExecError
<1>2. /\ phase' = phase /\ fresh' = fresh /\ modify' = modify /\ saved' = saved /\ tlist' = tlist
      /\ targets' = targets /\ nodes' = nodes /\ edges' = edges /\ normal' = normal /\ skip' = skip
      /\ processing' = processing /\ delete' = delete /\ fs' = fs /\ backup' = backup
      /\ touched' = touched /\ placed' = placed
  BY DEF ExecError
<1>3. /\ phase = "update" /\ Typed /\ GraphInv /\ RunningInv /\ MissingFlagged
      /\ touched \subseteq Sources /\ (fresh => touched = {})
  BY <1>1 DEF ShapeInv
<1>4. Running' = Running \ {c} /\ \A d \in Running' : d \in Running /\ job'[d] = job[d]
  BY <1>1, <1>3 DEF Running, Typed
<1>5. Typed'
  BY <1>1, <1>2, <1>3 DEF Typed
<1>6. MissingFlagged'
  BY <1>2, <1>3 DEF MissingFlagged, Missing
<1>7. GraphInv'
  BY <1>2, <1>3 DEF GraphInv, PrunedTo
<1>8. RunningInv'
  <2>1. \A d \in Running' :
          /\ d \in nodes' \cap modify'
          /\ \A m \in nodes' : <<m, d>> \notin edges'
          /\ d \notin Compare => Outputs[d] \cap skip' = {}
          /\ job'[d] # Gone
    BY <1>2, <1>3, <1>4 DEF RunningInv
  <2>2. ASSUME NEW d \in nodes' \cap Cmds, NEW f \in Outputs[d], d \notin Running' \cup failed'
        PROVE  backup'[f] = Gone
    BY <1>1, <1>2, <1>3, <1>4, <2>2 DEF RunningInv
  <2> QED
    BY <2>1, <2>2 DEF RunningInv
<1> QED
  BY <1>1, <1>2, <1>3, <1>5, <1>6, <1>7, <1>8 DEF ShapeInv

(* A signal only stops the loop. *)
LEMMA ShapeInterrupt == ASSUME ShapeInv, Interrupt PROVE ShapeInv'
<1> USE DEF Interrupt, disk, db, args, graph
<1>1. Running' = Running /\ Missing' = Missing
  BY DEF Running, Missing
<1>2. Typed => Typed'
  BY DEF Typed
<1>3. GraphInv /\ RunningInv => GraphInv' /\ RunningInv'
  BY <1>1 DEF GraphInv, RunningInv, PrunedTo
<1>4. MissingFlagged => MissingFlagged'
  BY <1>1 DEF MissingFlagged
<1> QED
  BY <1>1, <1>2, <1>3, <1>4 DEF ShapeInv

(* The lists that are committed are the ones the invariant is about. *)
LEMMA ShapeEndUpdate == ASSUME ShapeInv, EndUpdate PROVE ShapeInv'
<1> USE DEF EndUpdate, disk, env
<1>1. Running' = Running /\ Running = {}
  BY DEF Running
<1>2. Typed'
  BY DEF ShapeInv, Typed
<1> QED
  BY <1>1, <1>2 DEF ShapeInv

(* The lists of the last commit are those of no graph, so that the next    *)
(* scan finds what the killed commands left.                               *)
LEMMA ShapeKill ==
    ASSUME ShapeInv, NEW W \in SUBSET Generated, Kill(W) PROVE ShapeInv'
<1> USE DEF Kill
<1>1. Running' = {}
  BY DEF Running
<1>2. W \subseteq Files /\ W \cap Sources = {}
  BY OutputFacts DEF Generated, Sources
<1>3. Typed'
  <2>1. fs' \in [Files -> Contents] /\ \A f \in Sources : fs'[f] \in Values
    BY <1>2, OutputFacts DEF ShapeInv, Typed, Contents
  <2>2. touched' \subseteq Files /\ modify' \subseteq Nodes
    BY <1>2 DEF ShapeInv, Typed
  <2> QED
    BY <2>1, <2>2 DEF ShapeInv, Typed
<1> QED
  BY <1>1, <1>3 DEF ShapeInv

(* Every step keeps the graph as it should be. *)
LEMMA ShapeStep == ASSUME Transient = {}, ShapeInv, [Next]_vars PROVE ShapeInv'
<1>1. ASSUME NEW f \in Files, VisitTransient(f) \/ DeleteTransient(f) PROVE FALSE
  BY <1>1 DEF VisitTransient, DeleteTransient, ShapeInv, Typed
<1>2. ASSUME NEW f \in Files, NEW v \in Values, Edit(f, v) PROVE ShapeInv'
  BY <1>2, ShapeEdit
<1>3. ASSUME NEW f \in Files, Meddle(f) PROVE ShapeInv'
  BY <1>3, ShapeMeddle
<1>4. ASSUME NEW f \in Files, VisitFile(f) PROVE ShapeInv'
  BY <1>4, ShapeVisitFile
<1>5. ASSUME NEW c \in Cmds, SkipCmd(c) \/ StartCmd(c) \/ EndCmd(c) PROVE ShapeInv'
  BY <1>5, ShapeSkipCmd, ShapeStartCmd, ShapeEndCmd
<1>6. ASSUME NEW c \in Cmds, ExecError(c) PROVE ShapeInv'
  BY <1>6, ShapeExecError
<1>7. ASSUME NEW c \in Cmds, NEW left \in [Outputs[c] -> Values \cup {Gone, Bad}], FailCmd(c, left) PROVE ShapeInv'
  BY <1>7, ShapeFailCmd
<1>8. ASSUME NEW W \in SUBSET Generated, Kill(W) PROVE ShapeInv'
  BY <1>8, ShapeKill
<1>9. Scan \/ ProcessUpdateNodes \/ Interrupt \/ EndUpdate => ShapeInv'
  BY ShapeScan, ShapeBegin, ShapeInterrupt, ShapeEndUpdate
<1>10. UNCHANGED vars => ShapeInv'
  <2> SUFFICES ASSUME UNCHANGED vars PROVE ShapeInv'
    OBVIOUS
  <2> USE DEF vars
  <2>1. Running' = Running /\ Missing' = Missing
    BY DEF Running, Missing
  <2>2. (Typed => Typed') /\ (MissingFlagged => MissingFlagged')
    BY <2>1 DEF Typed, MissingFlagged
  <2>3. GraphInv /\ RunningInv => GraphInv' /\ RunningInv'
    BY <2>1 DEF GraphInv, RunningInv, PrunedTo
  <2> QED
    BY <2>1, <2>2, <2>3 DEF ShapeInv
<1> QED
  BY <1>1, <1>2, <1>3, <1>4, <1>5, <1>6, <1>7, <1>8, <1>9, <1>10 DEF Next, Step, Fault

(* In projects without ^t, the graph is at all times what is left to do:   *)
(* it has all that is flagged or was pruned, with all its edges, and a     *)
(* command that runs has nothing left to wait for (execute_graph(),        *)
(* prune_graph()).                                                         *)
THEOREM ShapeInvariance == ASSUME Transient = {} PROVE Spec => []ShapeInv
<1>1. Init => ShapeInv
  BY ShapeInit
<1>2. ShapeInv /\ [Next]_vars => ShapeInv'
  BY ShapeStep
<1> QED
  BY <1>1, <1>2, PTL DEF Spec

(* In projects without ^t, update() starts no command whose input is       *)
(* missing, whatever failed, was killed, deleted or left out before.       *)
THEOREM InputsThere == ASSUME Transient = {} PROVE Spec => []InputsExist
<1>1. ShapeInv => InputsExist
  BY DEF ShapeInv, RunningInv, InputsExist
<1> QED
  BY <1>1, ShapeInvariance, PTL

-----------------------------------------------------------------------------
(***************************************************************************)
(* FlagInv: what a command is up to date with.                             *)
(***************************************************************************)

(* What a command writes depends on its inputs only. *)
LEMMA WrittenSame ==
    ASSUME NEW d, NEW e, NEW c, \A f \in Inputs[c] : d[f] = e[f]
    PROVE  Written(c, d) = Written(c, e)
<1>1. [f \in Inputs[c] |-> d[f]] = [f \in Inputs[c] |-> e[f]]
  OBVIOUS
<1>2. /\ (\E f \in Inputs[c] : d[f] = Gone) <=> (\E f \in Inputs[c] : e[f] = Gone)
      /\ (\E f \in Inputs[c] : d[f] = Bad) <=> (\E f \in Inputs[c] : e[f] = Bad)
  OBVIOUS
<1> QED
  BY <1>1, <1>2 DEF Written

(* A command whose files are what they were is as up to date as it was. *)
LEMMA GoodSame ==
    ASSUME NEW c \in Cmds, \A f \in Inputs[c] \cup Outputs[c] : Known'[f] = Known[f]
    PROVE  /\ Good(c)' <=> Good(c)
           /\ Written(c, Known)' = Written(c, Known)
<1>1. Written(c, Known') = Written(c, Known)
  BY WrittenSame
<1>2. Written(c, Known)' = Written(c, Known')
  BY DEF Written
<1> QED
  BY <1>1, <1>2 DEF Good

(* Steps on the lists alone change no file that a reader knows. *)
LEMMA KnownSame ==
    ASSUME fs' = fs, backup' = backup, job' = job PROVE Known' = Known /\ Running' = Running
<1>1. Running' = Running
  BY DEF Running
<1> QED
  BY <1>1 DEF Known

(* When no command runs the readers know the files that are there. *)
LEMMA KnownIdle == ASSUME Running = {} PROVE \A f \in Files : Known[f] = fs[f]
  BY DEF Known

(* The parts of FlagInv that are about a step on which the files and the  *)
(* flags of the commands are only added to.                               *)
LEMMA SameFiles ==
    ASSUME Known' = Known, Running' = Running, job' = job, touched' = touched,
           modify \cap Cmds \subseteq modify', GoneFlagged, JobsAreRight
    PROVE  GoneFlagged' /\ JobsAreRight' /\ \A c \in Cmds : Good(c)' <=> Good(c)
<1>1. \A c \in Cmds : (Good(c)' <=> Good(c)) /\ Written(c, Known)' = Written(c, Known)
  BY GoodSame
<1>2. GoneFlagged'
  <2> SUFFICES ASSUME NEW p \in Compare, NEW c \in Cmds, NEW f \in Outputs[p] \cap Inputs[c],
                      Known'[f] = Gone
               PROVE  c \in modify'
    BY DEF GoneFlagged
  <2> QED
    BY DEF GoneFlagged
<1>3. JobsAreRight'
  <2> SUFFICES ASSUME NEW c \in Running PROVE job'[c] = Written(c, Known)' \/ Inputs[c] \cap touched' # {}
    BY DEF JobsAreRight
  <2>1. c \in Cmds
    BY DEF Running
  <2> QED
    BY <1>1, <2>1 DEF JobsAreRight
<1> QED
  BY <1>1, <1>2, <1>3

(* At first every command is flagged. *)
LEMMA FlagInit == ASSUME Transient = {}, Init PROVE FlagInv
<1>1. Running = {}
  BY DEF Init, Running
<1> QED
  BY <1>1 DEF Init, FlagInv, Noticed, GoneFlagged, JobsAreRight, AllGood

(* A source that is edited has a new mtime, which its readers are ahead    *)
(* of.                                                                     *)
LEMMA FlagEdit ==
    ASSUME ShapeInv, FlagInv, NEW f \in Files, NEW v \in Values, Edit(f, v) PROVE FlagInv'
<1> USE DEF db, args, graph
<1>1. /\ f \in Sources /\ fs' = [fs EXCEPT ![f] = v] /\ touched' = touched \cup {f} /\ ~fresh'
      /\ backup' = backup /\ modify' = modify /\ saved' = saved /\ phase' = phase /\ job' = job
      /\ placed' = placed
  BY DEF Edit
<1>2. Running' = Running /\ DOMAIN fs = Files
  BY <1>1 DEF Running, ShapeInv, Typed
<1>3. \A g \in Files : g # f => Known'[g] = Known[g]
  BY <1>1, <1>2 DEF Known
<1>4. Missing' = Missing /\ \A c \in Cmds : f \notin Outputs[c]
  BY <1>1, <1>2, OutputFacts DEF Missing, Generated, Sources
<1>5. ASSUME NEW c \in Cmds, f \notin Inputs[c]
      PROVE  (Good(c)' <=> Good(c)) /\ Written(c, Known)' = Written(c, Known)
  <2>1. \A g \in Inputs[c] \cup Outputs[c] : g \in Files /\ g # f
    BY <1>4, <1>5, LinkFacts
  <2> QED
    BY <1>3, <2>1, GoodSame
<1>6. ASSUME NEW M, NEW T, Noticed(M, T) PROVE Noticed(M, T \cup {f})'
  BY <1>4, <1>5, <1>6 DEF Noticed, Remade
<1>7. Ahead(modify) => Ahead(modify)'
  BY <1>1, <1>5 DEF Ahead, Remade
<1>8. GoneFlagged'
  <2> SUFFICES ASSUME NEW p \in Compare, NEW c \in Cmds, NEW g \in Outputs[p] \cap Inputs[c],
                      Known'[g] = Gone
               PROVE  c \in modify'
    BY DEF GoneFlagged
  <2>1. g # f /\ g \in Files
    BY <1>4, LinkFacts, GraphAssumption
  <2> QED
    BY <1>1, <1>3, <2>1 DEF GoneFlagged, FlagInv
<1>9. JobsAreRight'
  <2> SUFFICES ASSUME NEW c \in Running PROVE job'[c] = Written(c, Known)' \/ Inputs[c] \cap touched' # {}
    BY <1>2 DEF JobsAreRight
  <2>1. c \in Cmds
    BY DEF Running
  <2> QED
    BY <1>1, <1>5, <2>1 DEF JobsAreRight, FlagInv
<1>10. Noticed(modify, touched) => Noticed(modify, touched)'
  BY <1>1, <1>6
<1>11. Noticed(saved.modify, touched \cup placed) => Noticed(saved.modify, touched \cup placed)'
  <2>1. touched' \cup placed' = (touched \cup placed) \cup {f}
    BY <1>1
  <2> QED
    BY <1>1, <1>6, <2>1
<1> QED
  BY <1>1, <1>7, <1>8, <1>9, <1>10, <1>11 DEF FlagInv, AllGood

-----------------------------------------------------------------------------
(***************************************************************************)
(* FlagInv: each step.                                                     *)
(***************************************************************************)

(* So has a generated file that is meddled with, or it is missing. *)
LEMMA FlagMeddle ==
    ASSUME OutputsKept, ShapeInv, FlagInv, NEW f \in Files, Meddle(f) PROVE FlagInv'
<1> USE DEF db, graph
<1>1. /\ phase = "idle" /\ phase' = "idle" /\ f \in Generated /\ ~fresh' /\ backup' = backup
      /\ modify' = modify /\ job' = job /\ Noticed(modify, touched) /\ GoneFlagged
  BY DEF Meddle, FlagInv
<1>2. Running = {} /\ Running' = {} /\ fs \in [Files -> Contents]
  BY <1>1 DEF Running, ShapeInv, Typed
<1>3. \/ fs' = [fs EXCEPT ![f] = Bad] /\ touched' = touched \cup {f}
      \/ fs' = [fs EXCEPT ![f] = Gone] /\ touched' = touched \ {f} /\ Compare = {}
  BY DEF Meddle, OutputsKept
<1>4. \A g \in Files : Known[g] = fs[g] /\ Known'[g] = fs'[g] /\ (g # f => Known'[g] = Known[g])
  BY <1>2, <1>3 DEF Known
<1>5. touched \cup Missing \subseteq touched' \cup Missing' /\ f \in touched' \cup Missing'
  BY <1>1, <1>2, <1>3, OutputFacts DEF Missing
<1>6. ASSUME NEW c \in Cmds, f \notin Inputs[c] \cup Outputs[c] PROVE Good(c)' <=> Good(c)
  <2>1. \A g \in Inputs[c] \cup Outputs[c] : g \in Files /\ g # f
    BY <1>6, LinkFacts
  <2> QED
    BY <1>4, <2>1, GoodSame
<1>7. Noticed(modify, touched)'
  <2> SUFFICES ASSUME NEW c \in Cmds \ modify, ~Good(c)',
                      ~\E g \in Outputs[c] \cup Inputs[c] : g \in touched' \cup Missing'
               PROVE  \E g \in Inputs[c] : g \in modify \/ Remade(g, modify)
    BY <1>1 DEF Noticed, Remade
  <2>1. ~Good(c)
    BY <1>5, <1>6
  <2>2. ~\E g \in Outputs[c] \cup Inputs[c] : g \in touched \cup Missing
    BY <1>5
  <2> QED
    BY <1>1, <2>1, <2>2 DEF Noticed
<1>8. GoneFlagged'
  <2> SUFFICES ASSUME NEW p \in Compare, NEW c \in Cmds, NEW g \in Outputs[p] \cap Inputs[c],
                      Known'[g] = Gone
               PROVE  c \in modify'
    BY DEF GoneFlagged
  <2>1. g \in Files
    BY LinkFacts
  <2>2. fs' = [fs EXCEPT ![f] = Bad]
    BY <1>3
  <2>3. g # f
    BY <1>2, <1>4, <2>1, <2>2, UpdateAssumption
  <2> QED
    BY <1>1, <1>4, <2>1, <2>3 DEF GoneFlagged
<1>9. JobsAreRight'
  BY <1>2 DEF JobsAreRight
<1> QED
  BY <1>1, <1>7, <1>8, <1>9 DEF FlagInv, AllGood

(* tup_scan() flags what the new mtimes and the missing files make stale. *)
LEMMA FlagScan ==
    ASSUME OutputsKept, ShapeInv, FlagInv, Scan PROVE FlagInv'
<1> USE DEF args, graph
<1>1. /\ phase = "idle" /\ phase' = "scanned" /\ backup' = backup /\ fs' = fs /\ job' = job
      /\ modify' = (modify \ Missing) \cup touched
                      \cup {c \in Cmds : Outputs[c] \cap (touched \cup Missing) # {}}
      /\ Noticed(modify, touched) /\ GoneFlagged
  BY DEF Scan, FlagInv
<1>2. Running = {} /\ Running' = {} /\ Known' = Known
  BY <1>1, KnownSame DEF ShapeInv
<1>3. Missing \subseteq Files /\ modify \cap Cmds \subseteq modify' \cap Cmds
  BY <1>1, OutputFacts, LinkFacts DEF Missing
<1>4. \A c \in Cmds : Good(c)' <=> Good(c)
  BY <1>2, GoodSame
<1>5. ASSUME NEW c \in Cmds \ modify', NEW f \in Inputs[c], f \in Missing
      PROVE  Remade(f, modify')
  <2>1. f \in Generated /\ fs[f] = Gone /\ f \in Files
    BY <1>3, <1>5 DEF Missing
  <2>2. PICK p \in Cmds : f \in Outputs[p]
    BY <2>1 DEF Generated
  <2>3. p \in modify'
    BY <1>1, <1>5, <2>2
  <2>4. p \notin Compare
    <3>1. Known[f] = Gone
      BY <1>2, <2>1, KnownIdle
    <3> QED
      BY <1>1, <1>3, <2>2, <3>1 DEF GoneFlagged
  <2> QED
    BY <2>2, <2>3, <2>4 DEF Remade
<1>6. Ahead(modify)'
  <2> SUFFICES ASSUME NEW c \in Cmds \ modify', ~Good(c)
               PROVE  \E f \in Inputs[c] : f \in touched' \cup modify' \/ Remade(f, modify')
    BY <1>4 DEF Ahead, Remade
  <2>1. c \notin modify /\ Outputs[c] \cap (touched \cup Missing) = {}
    BY <1>1, <1>3
  <2>2. CASE \E f \in Outputs[c] \cup Inputs[c] : f \in touched \cup Missing
    <3>1. PICK f \in Inputs[c] : f \in touched \cup Missing
      BY <2>1, <2>2
    <3> QED
      BY <1>1, <1>5, <3>1
  <2>3. CASE \E f \in Inputs[c] : f \in modify \/ Remade(f, modify)
    <3>1. PICK f \in Inputs[c] : f \in modify \/ Remade(f, modify)
      BY <2>3
    <3>2. Remade(f, modify) => Remade(f, modify')
      BY <1>3 DEF Remade
    <3> QED
      BY <1>1, <1>5, <3>1, <3>2
  <2> QED
    BY <1>1, <2>1, <2>2, <2>3 DEF Noticed
<1>7. GoneFlagged'
  <2> SUFFICES ASSUME NEW p \in Compare, NEW c \in Cmds, NEW g \in Outputs[p] \cap Inputs[c],
                      Known[g] = Gone
               PROVE  c \in modify'
    BY <1>2 DEF GoneFlagged
  <2> QED
    BY <1>1, <1>3 DEF GoneFlagged
<1>8. JobsAreRight'
  BY <1>2 DEF JobsAreRight
<1> QED
  BY <1>1, <1>6, <1>7, <1>8 DEF FlagInv, AllGood

(* build_graph() and prune_graph() drop no flag, and what a command is out *)
(* of date with stays in front of it in the graph.                         *)
LEMMA FlagBegin ==
    ASSUME Transient = {}, ShapeInv, FlagInv, ProcessUpdateNodes PROVE FlagInv'
<1>1. /\ phase = "scanned" /\ Running = {} /\ tlist = {} /\ modify \in SUBSET Nodes /\ saved.modify = modify
      /\ Ahead(modify) /\ GoneFlagged /\ fs \in [Files -> Contents]
  BY DEF ProcessUpdateNodes, ShapeInv, Typed, FlagInv
<1>2. Graph(modify, tlist).error = FALSE
  BY <1>1, PrunedGraph
<1>3. PICK t \in Targets \cup {{}}, k \in BOOLEAN : Begin(t, k, Pruned(Graph(modify, tlist), t))
  BY <1>2 DEF ProcessUpdateNodes
<1>4. /\ phase' = "update" /\ modify \subseteq modify' /\ fs' = fs /\ job' = job /\ touched' = touched
      /\ placed' = placed /\ saved' = saved
  BY <1>3 DEF Begin
<1>5. Running' = {} /\ Missing' = Missing
  BY <1>1, <1>4 DEF Running, Missing
<1>6. Known' = Known
  BY <1>1, <1>4, <1>5 DEF Known
<1>7. \A c \in Cmds : Good(c)' <=> Good(c)
  BY <1>6, GoodSame
<1>8. Ahead(modify)'
  BY <1>1, <1>4, <1>7 DEF Ahead, Remade
<1>9. Noticed(saved.modify, touched \cup placed)'
  BY <1>1, <1>4, <1>7 DEF Ahead, Noticed, Remade
<1>10. GoneFlagged'
  <2> SUFFICES ASSUME NEW p \in Compare, NEW c \in Cmds, NEW g \in Outputs[p] \cap Inputs[c],
                      Known[g] = Gone
               PROVE  c \in modify'
    BY <1>6 DEF GoneFlagged
  <2> QED
    BY <1>1, <1>4 DEF GoneFlagged
<1>11. JobsAreRight'
  BY <1>5 DEF JobsAreRight
<1> QED
  BY <1>4, <1>8, <1>9, <1>10, <1>11 DEF FlagInv, AllGood

(* A reader of what is left of the graph is flagged, if it is not left itself. *)
LEMMA ReadersAhead ==
    ASSUME GraphInv, NEW f \in nodes \cap Files, NEW c \in Cmds, f \in Inputs[c], c \notin nodes
    PROVE  c \in modify
<1>1. PICK P \in SUBSET Nodes : PrunedTo(P) /\ \A n \in nodes : Succ(n) \subseteq nodes \cup P
  BY DEF GraphInv
<1>2. c \in Succ(f)
  BY LinkFacts
<1> QED
  BY <1>1, <1>2 DEF PrunedTo

(* A file that is through has unskipped and flagged its readers, if it was *)
(* flagged itself.                                                         *)
LEMMA FlagVisitFile ==
    ASSUME ShapeInv, FlagInv, NEW f \in Files, VisitFile(f) PROVE FlagInv'
<1> DEFINE next == IF f \in skip THEN {} ELSE ModifyOutputs(f)
<1> USE DEF disk, args, env
<1>1. /\ phase = "update" /\ phase' = "update" /\ f \in nodes
      /\ modify' = (modify \cup (next \cap Cmds)) \ {f}
      /\ fs' = fs /\ backup' = backup /\ job' = job /\ touched' = touched /\ placed' = placed /\ saved' = saved
  BY DEF VisitFile, Ready
<1>2. Typed /\ GraphInv /\ f \notin Cmds
  BY <1>1, LinkFacts DEF ShapeInv
<1>3. Ahead(modify) /\ GoneFlagged /\ JobsAreRight
      /\ (Compare = {} => Noticed(saved.modify, touched \cup placed))
  BY <1>1 DEF FlagInv
<1>4. f \in modify => next = Readers(f) \cap nodes
  <2>1. f \in modify => f \notin skip
    BY <1>2 DEF GraphInv
  <2> QED
    BY <1>1, <1>2, <2>1, EdgeFacts DEF GraphInv
<1> HIDE DEF next
<1>5. modify \cap Cmds \subseteq modify'
  BY <1>1, <1>2
<1>6. Known' = Known /\ Running' = Running /\ Missing' = Missing
  BY <1>1, KnownSame DEF Missing
<1>7. GoneFlagged' /\ JobsAreRight' /\ \A c \in Cmds : Good(c)' <=> Good(c)
  BY <1>1, <1>3, <1>5, <1>6, SameFiles
<1>8. Ahead(modify)'
  <2> SUFFICES ASSUME NEW c \in Cmds \ modify', ~Good(c)
               PROVE  \E g \in Inputs[c] : g \in touched \cup modify' \/ Remade(g, modify')
    BY <1>1, <1>7 DEF Ahead, Remade
  <2>1. c \notin modify
    BY <1>5
  <2>2. PICK g \in Inputs[c] : g \in touched \cup modify \/ Remade(g, modify)
    BY <1>3, <2>1 DEF Ahead
  <2>3. Remade(g, modify) => Remade(g, modify')
    BY <1>5 DEF Remade
  <2>4. ASSUME g = f, f \in modify PROVE FALSE
    <3>1. c \in nodes => c \in next
      BY <1>4, <2>4 DEF Readers
    <3>2. c \notin nodes => c \in modify
      BY <1>1, <1>2, <2>4, ReadersAhead
    <3> QED
      BY <1>1, <1>2, <2>1, <3>1, <3>2
  <2> QED
    BY <1>1, <2>2, <2>3, <2>4
<1>9. Compare = {} => Noticed(saved.modify, touched \cup placed)'
  BY <1>1, <1>3, <1>6, <1>7 DEF Noticed, Remade
<1> QED
  BY <1>1, <1>7, <1>8, <1>9 DEF FlagInv, AllGood

(* A command is skipped only when nothing it reads was made anew, so that  *)
(* it is up to date and so are its outputs.                                *)
LEMMA FlagSkipCmd ==
    ASSUME Transient = {}, ShapeInv, FlagInv, NEW d \in Cmds, SkipCmd(d) PROVE FlagInv'
<1> USE DEF disk, args, env
<1>1. /\ phase = "update" /\ phase' = "update" /\ d \in skip
      /\ modify' = (modify \cup (NextCmds(d, skip) \cap Cmds)) \ {d}
      /\ fs' = fs /\ backup' = backup /\ job' = job /\ touched' = touched /\ placed' = placed /\ saved' = saved
  BY DEF SkipCmd, Ready, Through
<1>2. d \notin modify /\ modify \subseteq modify'
  <2>1. GraphInv
    BY <1>1 DEF ShapeInv
  <2> QED
    BY <1>1, <2>1 DEF GraphInv
<1>3. Ahead(modify) /\ GoneFlagged /\ JobsAreRight
      /\ (Compare = {} => Noticed(saved.modify, touched \cup placed))
  BY <1>1 DEF FlagInv
<1>4. Known' = Known /\ Running' = Running /\ Missing' = Missing
  BY <1>1, KnownSame DEF Missing
<1>5. GoneFlagged' /\ JobsAreRight' /\ \A c \in Cmds : Good(c)' <=> Good(c)
  BY <1>1, <1>2, <1>3, <1>4, SameFiles
<1>6. Ahead(modify)'
  <2> SUFFICES ASSUME NEW c \in Cmds \ modify', ~Good(c)
               PROVE  \E g \in Inputs[c] : g \in touched \cup modify' \/ Remade(g, modify')
    BY <1>1, <1>5 DEF Ahead, Remade
  <2>1. PICK g \in Inputs[c] : g \in touched \cup modify \/ Remade(g, modify)
    BY <1>2, <1>3 DEF Ahead
  <2>2. Remade(g, modify) => Remade(g, modify')
    BY <1>2 DEF Remade
  <2> QED
    BY <1>2, <2>1, <2>2
<1>7. Compare = {} => Noticed(saved.modify, touched \cup placed)'
  BY <1>1, <1>3, <1>4, <1>5 DEF Noticed, Remade
<1> QED
  BY <1>1, <1>5, <1>6, <1>7 DEF FlagInv, AllGood

(* What a running command, or one that is ready, reads is no longer in the *)
(* graph, so that no other that runs writes it.                            *)
LEMMA InputsAreThrough ==
    ASSUME ShapeInv, phase = "update", NEW c \in nodes \cap Cmds,
           \A m \in nodes : <<m, c>> \notin edges, NEW f \in Inputs[c]
    PROVE  f \notin nodes /\ (\A p \in nodes \cap Cmds : f \notin Outputs[p])
           /\ Known[f] = fs[f] /\ fs[f] # Gone
<1>1. Typed /\ GraphInv /\ RunningInv /\ MissingFlagged
  BY DEF ShapeInv
<1>2. f \notin nodes
  BY <1>1, LinkFacts, EdgeFacts DEF GraphInv
<1>3. \A p \in nodes \cap Cmds : f \notin Outputs[p]
  BY <1>1, <1>2 DEF GraphInv
<1>4. \A p \in Running : p \in nodes \cap Cmds
  BY <1>1 DEF RunningInv, Running
<1>5. f \in Files
  BY LinkFacts
<1>6. Known[f] = fs[f]
  BY <1>3, <1>4, <1>5 DEF Known
<1> QED
  BY <1>1, <1>2, <1>3, <1>6, InputsReady

(* update(): unlinking the outputs, or moving them away for ^o, makes no   *)
(* reader up to date, and the job will write what the inputs call for.     *)
LEMMA FlagStartCmd ==
    ASSUME ShapeInv, FlagInv, NEW d \in Cmds, StartCmd(d) PROVE FlagInv'
<1> USE DEF db, args, env
<1>1. /\ phase = "update" /\ phase' = "update" /\ d \in nodes /\ d \in modify /\ d \notin Running
      /\ \A m \in nodes : <<m, d>> \notin edges
      /\ fs' = [f \in Files |-> IF f \in Outputs[d] THEN Gone ELSE fs[f]]
      /\ job' = [job EXCEPT ![d] = Written(d, fs)]
      /\ Running' = Running \cup {d}
      /\ d \notin Compare => backup' = backup
      /\ d \in Compare =>
           backup' = [f \in Files |-> IF f \in Outputs[d] /\ fs[f] # Gone THEN fs[f] ELSE backup[f]]
  BY StartFacts
<1>2. modify' = modify /\ touched' = touched /\ placed' = placed /\ saved' = saved /\ d \notin failed
  BY DEF StartCmd, Ready
<1>3. Typed /\ GraphInv /\ RunningInv /\ Ahead(modify) /\ GoneFlagged /\ JobsAreRight
      /\ (Compare = {} => Noticed(saved.modify, touched \cup placed))
  BY <1>1 DEF FlagInv, ShapeInv
<1>4. \A p \in Running : p # d => \A f \in Outputs[p] : f \notin Outputs[d]
  BY OutputFacts DEF Running
<1>5. ASSUME NEW f \in Files, f \in Outputs[d] => d \in Compare PROVE Known'[f] = Known[f]
  <2>1. CASE f \in Outputs[d]
    <3>1. Known[f] = fs[f]
      BY <1>1, <1>4, <2>1 DEF Known
    <3>2. backup[f] = Gone
      BY <1>1, <1>2, <1>3, <2>1 DEF RunningInv
    <3>3. Known'[f] = backup'[f]
      BY <1>1, <1>5, <2>1 DEF Known
    <3>4. backup'[f] = fs[f]
      BY <1>1, <1>5, <2>1, <3>2
    <3> QED
      BY <3>1, <3>3, <3>4
  <2>2. CASE f \notin Outputs[d]
    <3>1. fs'[f] = fs[f] /\ backup'[f] = backup[f]
      BY <1>1, <2>2
    <3>2. (\E p \in Running' \cap Compare : f \in Outputs[p]) <=> (\E p \in Running \cap Compare : f \in Outputs[p])
      BY <1>1, <2>2
    <3> QED
      BY <3>1, <3>2 DEF Known
  <2> QED
    BY <2>1, <2>2
<1>6. ASSUME NEW c \in Cmds, d \in Compare \/ Inputs[c] \cap Outputs[d] = {}, c # d \/ d \in Compare
      PROVE  (Good(c)' <=> Good(c)) /\ Written(c, Known)' = Written(c, Known)
  <2>1. \A f \in Inputs[c] \cup Outputs[c] : f \in Files /\ (f \in Outputs[d] => d \in Compare)
    BY <1>6, OutputFacts, LinkFacts
  <2> QED
    BY <1>5, <2>1, GoodSame
<1>7. Ahead(modify)'
  <2> SUFFICES ASSUME NEW c \in Cmds \ modify, ~Good(c)'
               PROVE  \E f \in Inputs[c] : f \in touched \cup modify \/ Remade(f, modify)
    BY <1>2 DEF Ahead, Remade
  <2>1. CASE d \in Compare \/ Inputs[c] \cap Outputs[d] = {}
    <3>1. ~Good(c)
      BY <1>1, <1>6, <2>1
    <3> QED
      BY <1>3, <3>1 DEF Ahead
  <2>2. CASE d \notin Compare /\ Inputs[c] \cap Outputs[d] # {}
    BY <1>1, <2>2 DEF Remade
  <2> QED
    BY <2>1, <2>2
<1>8. Compare = {} => Noticed(saved.modify, touched \cup placed)'
  <2> SUFFICES ASSUME Compare = {}, NEW c \in Cmds \ saved.modify, ~Good(c)',
                      ~\E f \in Outputs[c] \cup Inputs[c] : f \in touched \cup placed \cup Missing'
               PROVE  \E f \in Inputs[c] : f \in saved.modify \/ Remade(f, saved.modify)
    BY <1>2 DEF Noticed, Remade
  <2>1. Missing \subseteq Missing' /\ Outputs[d] \subseteq Missing'
    BY <1>1, OutputFacts DEF Missing
  <2>2. ~Good(c)
    <3>1. Inputs[c] \cap Outputs[d] = {}
      BY <2>1
    <3>2. c # d
      BY <2>1, GraphAssumption
    <3> QED
      BY <1>6, <3>1, <3>2
  <2> QED
    BY <1>3, <2>1, <2>2 DEF Noticed
<1>9. GoneFlagged'
  <2> SUFFICES ASSUME NEW p \in Compare, NEW c \in Cmds, NEW f \in Outputs[p] \cap Inputs[c],
                      Known'[f] = Gone
               PROVE  c \in modify
    BY <1>2 DEF GoneFlagged
  <2>1. p \in Cmds /\ f \in Files
    BY LinkFacts, GraphAssumption
  <2>2. f \in Outputs[d] => d \in Compare
    BY <2>1, OutputFacts
  <2> QED
    BY <1>3, <1>5, <2>1, <2>2 DEF GoneFlagged
<1>10. JobsAreRight'
  <2> SUFFICES ASSUME NEW c \in Running' PROVE job'[c] = Written(c, Known)' \/ Inputs[c] \cap touched # {}
    BY <1>2 DEF JobsAreRight
  <2>1. c \in Cmds /\ c \in nodes /\ \A m \in nodes : <<m, c>> \notin edges
    BY <1>1, <1>3 DEF RunningInv, Running
  <2>2. \A f \in Inputs[c] : f \in Files /\ f \notin Outputs[d] /\ Known[f] = fs[f]
    BY <1>1, <2>1, InputsAreThrough, LinkFacts
  <2>3. Written(c, Known)' = Written(c, Known)
    <3>1. \A f \in Inputs[c] : Known'[f] = Known[f]
      BY <1>5, <2>2
    <3>2. Written(c, Known') = Written(c, Known)
      BY <3>1, WrittenSame
    <3> QED
      BY <3>2 DEF Written
  <2>4. CASE c = d
    <3>1. Written(c, Known) = Written(c, fs)
      BY <2>2, WrittenSame
    <3> QED
      BY <1>1, <1>3, <2>3, <2>4, <3>1 DEF Typed
  <2>5. CASE c # d
    BY <1>1, <1>3, <2>1, <2>3, <2>5 DEF JobsAreRight, Typed
  <2> QED
    BY <2>4, <2>5
<1> QED
  BY <1>1, <1>7, <1>8, <1>9, <1>10 DEF FlagInv, AllGood

(* A command that runs does not read what it writes. *)
LEMMA RunningFacts ==
    ASSUME ShapeInv, NEW c \in Running
    PROVE  /\ phase = "update" /\ c \in Cmds /\ c \in nodes \cap modify
           /\ \A m \in nodes : <<m, c>> \notin edges
           /\ \A f \in Inputs[c] : f \in Files /\ Known[f] = fs[f] /\ fs[f] # Gone
           /\ \A f \in Inputs[c], p \in nodes \cap Cmds : f \notin Outputs[p]
<1>1. phase = "update" /\ c \in Cmds
  BY DEF ShapeInv, Running
<1>2. c \in nodes \cap modify /\ \A m \in nodes : <<m, c>> \notin edges
  BY <1>1 DEF ShapeInv, RunningInv
<1> QED
  BY <1>1, <1>2, InputsAreThrough, LinkFacts

(* The jobs of the others are not affected when a command ends. *)
LEMMA OtherJobs ==
    ASSUME ShapeInv, JobsAreRight, NEW d \in Cmds, d \in nodes,
           \A f \in Files \ Outputs[d] : Known'[f] = Known[f],
           Running' = Running \ {d}, job' = [job EXCEPT ![d] = NoJob], touched' = touched
    PROVE  JobsAreRight'
<1> SUFFICES ASSUME NEW c \in Running' PROVE job'[c] = Written(c, Known)' \/ Inputs[c] \cap touched # {}
  BY DEF JobsAreRight
<1>1. c \in Running /\ c # d /\ c \in Cmds
  BY DEF Running
<1>2. \A f \in Inputs[c] : Known'[f] = Known[f]
  BY <1>1, RunningFacts
<1>3. Written(c, Known') = Written(c, Known)
  BY <1>2, WrittenSame
<1>4. Written(c, Known)' = Written(c, Known)
  BY <1>3 DEF Written
<1>5. job'[c] = job[c]
  BY <1>1 DEF ShapeInv, Typed
<1> QED
  BY <1>1, <1>4, <1>5 DEF JobsAreRight

(* process_output() of a command that succeeded: it is up to date; a       *)
(* reader that is not is flagged, or is in the graph below an output that  *)
(* is not skipped.  A ^o command skips only outputs that are as they were. *)
LEMMA FlagEndCmd ==
    ASSUME Transient = {}, ShapeInv, FlagInv, NEW d \in Cmds, EndCmd(d) PROVE FlagInv'
<1> DEFINE skipped == IF d \in Compare THEN skip \ CheckOutputs(d) ELSE skip
           next    == NextCmds(d, skipped)
<1>0. skipped = (IF d \in Compare THEN skip \ CheckOutputs(d) ELSE skip) /\ next = NextCmds(d, skipped)
  OBVIOUS
<1> HIDE DEF skipped, next
<1>1. /\ phase = "update" /\ phase' = "update" /\ d \in nodes /\ d \in modify /\ d \in Running
      /\ next = {c \in nodes \cap Cmds : (Outputs[d] \ skipped) \cap Inputs[c] # {}}
      /\ d \notin next /\ From(d) = Outputs[d]
      /\ modify' = (modify \cup next) \ {d}
      /\ fs' = [f \in Files |-> IF f \in Outputs[d] THEN job[d] ELSE fs[f]]
      /\ touched' = touched \ Outputs[d] /\ placed' = placed \cup Outputs[d]
      /\ job[d] # Gone
      /\ job' = [job EXCEPT ![d] = NoJob] /\ Running' = Running \ {d}
  BY <1>0, EndFacts
<1>2. Typed /\ GraphInv /\ RunningInv /\ Ahead(modify) /\ GoneFlagged /\ JobsAreRight
      /\ (Compare = {} => Noticed(saved.modify, touched \cup placed))
      /\ touched \subseteq Sources
  BY <1>1 DEF FlagInv, ShapeInv
<1>3. saved' = saved /\ backup' = backup /\ touched' = touched
  BY <1>1, <1>2, OutputFacts DEF EndCmd
<1>4. /\ \A f \in Outputs[d] : f \in Files /\ Known'[f] = job[d]
      /\ \A f \in Files \ Outputs[d] : Known'[f] = Known[f]
  <2>1. \A p \in Running' : p # d /\ p \in Cmds /\ Outputs[p] \cap Outputs[d] = {}
    BY <1>1, OutputFacts DEF Running
  <2>2. ASSUME NEW f \in Outputs[d] PROVE f \in Files /\ Known'[f] = job[d]
    BY <1>1, <2>1, LinkFacts DEF Known
  <2>3. ASSUME NEW f \in Files \ Outputs[d] PROVE Known'[f] = Known[f]
    <3>1. (\E p \in Running' \cap Compare : f \in Outputs[p]) <=> (\E p \in Running \cap Compare : f \in Outputs[p])
      BY <1>1
    <3> QED
      BY <1>1, <1>3, <3>1 DEF Known
  <2> QED
    BY <2>2, <2>3
<1>5. ASSUME NEW c \in Cmds, NEW f \in Outputs[d] \cap Inputs[c], d \notin Compare \/ Known'[f] # Known[f]
      PROVE  c \in modify'
  <2>1. c # d
    BY <1>1, RunningFacts
  <2>2. f \notin skipped
    <3>1. CASE d \in Compare
      <4>1. Known[f] = backup[f]
        BY <1>1, <1>4, <3>1 DEF Known
      <4>2. f \in CheckOutputs(d)
        BY <1>1, <1>4, <1>5, <3>1, <4>1 DEF CheckOutputs
      <4> QED
        BY <1>0, <3>1, <4>2
    <3>2. CASE d \notin Compare
      BY <1>0, <1>1, <1>2, <3>2 DEF RunningInv
    <3> QED
      BY <3>1, <3>2
  <2>3. c \in nodes => c \in next
    BY <1>1, <2>2
  <2>4. c \notin nodes => c \in modify
    <3>1. f \in nodes \cap Files
      BY <1>1, <1>2, LinkFacts DEF GraphInv
    <3> QED
      BY <1>2, <3>1, ReadersAhead
  <2> QED
    BY <1>1, <2>1, <2>3, <2>4
<1>6. ASSUME NEW c \in Cmds, c # d, \A f \in Outputs[d] \cap Inputs[c] : Known'[f] = Known[f]
      PROVE  Good(c)' <=> Good(c)
  <2>1. \A f \in Inputs[c] \cup Outputs[c] : Known'[f] = Known[f]
    BY <1>4, <1>6, OutputFacts, LinkFacts
  <2> QED
    BY <2>1, GoodSame
<1>7. Good(d)' \/ Inputs[d] \cap touched # {}
  <2>1. \A f \in Inputs[d] : Known'[f] = Known[f]
    BY <1>1, <1>4, RunningFacts
  <2>2. Written(d, Known') = Written(d, Known)
    BY <2>1, WrittenSame
  <2>3. Written(d, Known)' = Written(d, Known)
    BY <2>2 DEF Written
  <2> QED
    BY <1>1, <1>2, <1>4, <2>3 DEF Good, JobsAreRight
<1>8. Ahead(modify)'
  <2> SUFFICES ASSUME NEW c \in Cmds \ modify', ~Good(c)'
               PROVE  \E f \in Inputs[c] : f \in touched \cup modify' \/ Remade(f, modify')
    BY <1>3 DEF Ahead, Remade
  <2>1. CASE c = d
    BY <1>7, <2>1
  <2>2. CASE c # d
    <3>1. c \notin modify /\ \A f \in Outputs[d] \cap Inputs[c] : d \in Compare /\ Known'[f] = Known[f]
      BY <1>1, <1>5, <2>2
    <3>2. PICK f \in Inputs[c] : f \in touched \cup modify \/ Remade(f, modify)
      BY <1>2, <1>6, <2>2, <3>1 DEF Ahead
    <3>3. f # d
      BY LinkFacts
    <3>4. Remade(f, modify) => Remade(f, modify')
      BY <1>1, <3>1 DEF Remade
    <3> QED
      BY <1>1, <3>2, <3>3, <3>4
  <2> QED
    BY <2>1, <2>2
<1>9. Compare = {} => Noticed(saved.modify, touched \cup placed)'
  <2> SUFFICES ASSUME Compare = {}, NEW c \in Cmds \ saved.modify, ~Good(c)',
                      ~\E f \in Outputs[c] \cup Inputs[c] : f \in touched \cup placed' \cup Missing'
               PROVE  \E f \in Inputs[c] : f \in saved.modify \/ Remade(f, saved.modify)
    BY <1>3 DEF Noticed, Remade
  <2>1. Missing \subseteq Missing' \cup Outputs[d]
    BY <1>1, OutputFacts DEF Missing
  <2>2. Inputs[c] \cap Outputs[d] = {} /\ c # d
    BY <1>1, GraphAssumption
  <2>3. ~Good(c)
    BY <1>6, <2>2
  <2>4. ~\E f \in Outputs[c] \cup Inputs[c] : f \in touched \cup placed \cup Missing
    BY <1>1, <2>1
  <2> QED
    BY <1>2, <2>3, <2>4 DEF Noticed
<1>10. GoneFlagged'
  <2> SUFFICES ASSUME NEW p \in Compare, NEW c \in Cmds, NEW f \in Outputs[p] \cap Inputs[c],
                      Known'[f] = Gone
               PROVE  c \in modify'
    BY DEF GoneFlagged
  <2>1. f \in Files \ Outputs[d] /\ Known[f] = Gone
    BY <1>1, <1>4, LinkFacts
  <2>2. c \in modify
    BY <1>2, <2>1 DEF GoneFlagged
  <2>3. c # d
    BY <1>1, <2>1, RunningFacts
  <2> QED
    BY <1>1, <2>2, <2>3
<1>11. JobsAreRight'
  BY <1>1, <1>2, <1>3, <1>4, OtherJobs
<1> QED
  BY <1>1, <1>8, <1>9, <1>10, <1>11 DEF FlagInv, AllGood

(* process_output() of a command that failed: it stays flagged, and its    *)
(* readers are behind it.  What ^o moved away is put back.                 *)
LEMMA FlagFailCmd ==
    ASSUME ShapeInv, FlagInv, NEW d \in Cmds,
           NEW left \in [Outputs[d] -> Values \cup {Gone, Bad}], FailCmd(d, left)
    PROVE  FlagInv'
<1> USE DEF db, args, graph
<1>1. /\ d \in Running
      /\ fs' = [f \in Files |-> IF f \in RestoreOutputs(d) THEN backup[f]
                                ELSE IF f \in Outputs[d] THEN left[f] ELSE fs[f]]
      /\ touched' = touched \ Outputs[d]
      /\ placed' = placed \cup {f \in Outputs[d] \ RestoreOutputs(d) : left[f] # Gone}
      /\ backup' = [f \in Files |-> IF f \in RestoreOutputs(d) THEN Gone ELSE backup[f]]
      /\ job' = [job EXCEPT ![d] = NoJob]
      /\ phase' = phase /\ modify' = modify /\ saved' = saved
  BY DEF FailCmd, WriteFiles
<1>2. /\ phase = "update" /\ Typed /\ GraphInv /\ RunningInv /\ Ahead(modify) /\ GoneFlagged /\ JobsAreRight
      /\ (Compare = {} => Noticed(saved.modify, touched \cup placed))
      /\ touched \subseteq Sources /\ d \in modify /\ d \in nodes
  BY <1>1, RunningFacts DEF FlagInv, ShapeInv
<1>3. touched' = touched /\ Running' = Running \ {d}
  BY <1>1, <1>2, OutputFacts DEF Typed, Running
<1>4. RestoreOutputs(d) = (IF d \in Compare THEN {f \in Outputs[d] : backup[f] # Gone} ELSE {})
  BY DEF RestoreOutputs
<1>5. /\ \A f \in Outputs[d] : f \in Files /\ Known'[f] = fs'[f]
      /\ \A f \in Outputs[d] : d \in Compare => Known[f] = backup[f]
      /\ \A f \in Files \ Outputs[d] : Known'[f] = Known[f]
  <2>1. \A p \in Running' : p # d /\ p \in Cmds /\ Outputs[p] \cap Outputs[d] = {}
    BY <1>3, OutputFacts DEF Running
  <2>2. ASSUME NEW f \in Outputs[d] PROVE f \in Files /\ Known'[f] = fs'[f]
    BY <2>1, LinkFacts DEF Known
  <2>3. ASSUME NEW f \in Files \ Outputs[d] PROVE Known'[f] = Known[f]
    <3>1. (\E p \in Running' \cap Compare : f \in Outputs[p]) <=> (\E p \in Running \cap Compare : f \in Outputs[p])
      BY <1>3
    <3>2. fs'[f] = fs[f] /\ backup'[f] = backup[f]
      BY <1>1, <1>4
    <3> QED
      BY <3>1, <3>2 DEF Known
  <2>4. ASSUME NEW f \in Outputs[d], d \in Compare PROVE Known[f] = backup[f]
    BY <1>1, <2>2, <2>4 DEF Known
  <2> QED
    BY <2>2, <2>3, <2>4
<1>6. ASSUME NEW c \in Cmds \ modify, NEW f \in Outputs[d] \cap Inputs[c], d \in Compare
      PROVE  Known'[f] = Known[f]
  <2>1. Known[f] # Gone
    BY <1>2, <1>6 DEF GoneFlagged
  <2> QED
    BY <1>1, <1>4, <1>5, <1>6, <2>1
<1>7. ASSUME NEW c \in Cmds, c # d, \A f \in Outputs[d] \cap Inputs[c] : Known'[f] = Known[f]
      PROVE  Good(c)' <=> Good(c)
  <2>1. \A f \in Inputs[c] \cup Outputs[c] : Known'[f] = Known[f]
    BY <1>5, <1>7, OutputFacts, LinkFacts
  <2> QED
    BY <2>1, GoodSame
<1>8. Ahead(modify)'
  <2> SUFFICES ASSUME NEW c \in Cmds \ modify, ~Good(c)'
               PROVE  \E f \in Inputs[c] : f \in touched \cup modify \/ Remade(f, modify)
    BY <1>1, <1>3 DEF Ahead, Remade
  <2>1. CASE d \notin Compare /\ Outputs[d] \cap Inputs[c] # {}
    BY <1>2, <2>1 DEF Remade
  <2>2. CASE d \in Compare \/ Outputs[d] \cap Inputs[c] = {}
    <3>1. ~Good(c)
      BY <1>2, <1>6, <1>7, <2>2
    <3> QED
      BY <1>2, <3>1 DEF Ahead
  <2> QED
    BY <2>1, <2>2
<1>9. Compare = {} => Noticed(saved.modify, touched \cup placed)'
  <2> SUFFICES ASSUME Compare = {}, NEW c \in Cmds \ saved.modify, ~Good(c)',
                      ~\E f \in Outputs[c] \cup Inputs[c] : f \in touched \cup placed' \cup Missing'
               PROVE  \E f \in Inputs[c] : f \in saved.modify \/ Remade(f, saved.modify)
    BY <1>1, <1>3 DEF Noticed, Remade
  <2>1. RestoreOutputs(d) = {}
    BY <1>4
  <2>2. Outputs[d] \subseteq placed' \cup Missing'
    BY <1>1, <2>1, OutputFacts DEF Missing
  <2>3. Missing \subseteq Missing' \cup Outputs[d]
    BY <1>1, <2>1, OutputFacts DEF Missing
  <2>4. Inputs[c] \cap Outputs[d] = {} /\ c # d
    BY <2>2, GraphAssumption
  <2>5. ~Good(c)
    BY <1>7, <2>4
  <2>6. placed \subseteq placed'
    BY <1>1
  <2>7. ~\E f \in Outputs[c] \cup Inputs[c] : f \in touched \cup placed \cup Missing
    BY <2>2, <2>3, <2>6
  <2> QED
    BY <1>2, <2>5, <2>7 DEF Noticed
<1>10. GoneFlagged'
  <2> SUFFICES ASSUME NEW p \in Compare, NEW c \in Cmds, NEW f \in Outputs[p] \cap Inputs[c],
                      Known'[f] = Gone
               PROVE  c \in modify
    BY <1>1 DEF GoneFlagged
  <2>1. p \in Cmds /\ f \in Files
    BY LinkFacts, GraphAssumption
  <2>2. CASE f \in Outputs[d]
    <3>1. p = d
      BY <2>1, <2>2, OutputFacts
    <3>2. Known[f] = Gone
      BY <1>1, <1>4, <1>5, <2>1, <2>2, <3>1
    <3> QED
      BY <1>2, <3>2 DEF GoneFlagged
  <2>3. CASE f \notin Outputs[d]
    BY <1>2, <1>5, <2>1, <2>3 DEF GoneFlagged
  <2> QED
    BY <2>2, <2>3
<1>11. JobsAreRight'
  BY <1>1, <1>2, <1>3, <1>5, OtherJobs
<1> QED
  BY <1>1, <1>2, <1>8, <1>9, <1>10, <1>11 DEF FlagInv, AllGood

(* A command that could not be started stays flagged. *)
LEMMA FlagExecError ==
    ASSUME OutputsKept, ShapeInv, FlagInv, NEW d \in Cmds, ExecError(d) PROVE FlagInv'
<1> USE DEF db, args, graph, disk
<1>1. /\ d \in Running /\ Compare = {} /\ job' = [job EXCEPT ![d] = NoJob]
      /\ fs' = fs /\ touched' = touched /\ placed' = placed
      /\ phase' = phase /\ modify' = modify /\ saved' = saved
  BY DEF ExecError, OutputsKept
<1>2. /\ phase = "update" /\ Typed /\ Ahead(modify) /\ JobsAreRight /\ d \in nodes
      /\ Noticed(saved.modify, touched \cup placed)
  BY <1>1, RunningFacts DEF FlagInv, ShapeInv
<1>3. Running' = Running \ {d} /\ Known' = Known /\ Missing' = Missing
  BY <1>1, <1>2 DEF Typed, Running, Known, Missing
<1>4. \A c \in Cmds : Good(c)' <=> Good(c)
  BY <1>3, GoodSame
<1>5. Ahead(modify)' /\ Noticed(saved.modify, touched \cup placed)'
  BY <1>1, <1>2, <1>3, <1>4 DEF Ahead, Noticed, Remade
<1>6. GoneFlagged'
  BY <1>1 DEF GoneFlagged
<1>7. JobsAreRight'
  BY <1>1, <1>2, <1>3, OtherJobs
<1> QED
  BY <1>1, <1>2, <1>5, <1>6, <1>7 DEF FlagInv, AllGood

(* A step that changes neither a file nor a flag. *)
LEMMA FlagSame ==
    ASSUME FlagInv, fs' = fs, backup' = backup, job' = job, touched' = touched, placed' = placed,
           modify' = modify, saved' = saved, phase' = phase, phase = "idle" =>
               UNCHANGED <<targets, result, fresh>>
    PROVE  FlagInv'
<1>1. Known' = Known /\ Running' = Running /\ Missing' = Missing
  BY KnownSame DEF Missing
<1>2. GoneFlagged' /\ JobsAreRight' /\ \A c \in Cmds : Good(c)' <=> Good(c)
  BY <1>1, SameFiles DEF FlagInv
<1>3. Ahead(modify) => Ahead(modify)'
  BY <1>2 DEF Ahead, Remade
<1>4. Noticed(modify, touched) => Noticed(modify, touched)'
  BY <1>1, <1>2 DEF Noticed, Remade
<1>5. Noticed(saved.modify, touched \cup placed) => Noticed(saved.modify, touched \cup placed)'
  BY <1>1, <1>2 DEF Noticed, Remade
<1>6. AllGood => AllGood'
  <2> SUFFICES ASSUME AllGood, phase = "idle", result = "ok", fresh, UNCHANGED <<targets, result, fresh>>
               PROVE  \E P \in SUBSET Nodes :
                         /\ \A n \in P : Succ(n) \subseteq P
                         /\ P \cap targets' = {} /\ (targets' = {} => P = {})
                         /\ \A c \in Cmds \ P : Good(c)'
    BY DEF AllGood
  <2> QED
    BY <1>2 DEF AllGood
<1> QED
  BY <1>2, <1>3, <1>4, <1>5, <1>6 DEF FlagInv

(* When execute_graph() returns and nothing is left, every command that    *)
(* was not pruned is up to date.                                           *)
LEMMA FlagEndUpdate ==
    ASSUME ShapeInv, FlagInv, EndUpdate PROVE FlagInv'
<1> USE DEF disk, env
<1>1. /\ phase = "update" /\ phase' = "idle" /\ Running = {} /\ fs' = fs /\ backup' = backup /\ job' = job
      /\ touched' = touched /\ modify' = modify /\ targets' = targets /\ fresh' = fresh
  BY DEF EndUpdate
<1>2. Ahead(modify) /\ GoneFlagged /\ JobsAreRight /\ GraphInv /\ (fresh => touched = {})
  BY <1>1 DEF FlagInv, ShapeInv
<1>3. Known' = Known /\ Running' = Running
  BY <1>1, KnownSame
<1>4. GoneFlagged' /\ JobsAreRight' /\ \A c \in Cmds : Good(c)' <=> Good(c)
  BY <1>1, <1>2, <1>3, SameFiles
<1>5. Noticed(modify, touched)'
  BY <1>1, <1>2, <1>4 DEF Ahead, Noticed, Remade
<1>6. ASSUME result' = "ok", fresh
      PROVE  \E P \in SUBSET Nodes :
                /\ \A n \in P : Succ(n) \subseteq P
                /\ P \cap targets = {} /\ (targets = {} => P = {})
                /\ \A c \in Cmds \ P : Good(c)
  <2>1. nodes = {} /\ touched = {}
    BY <1>2, <1>6 DEF EndUpdate
  <2>2. PICK P \in SUBSET Nodes : PrunedTo(P) /\ modify \subseteq P
    BY <1>2, <2>1 DEF GraphInv
  <2>3. ASSUME NEW c \in Cmds \ P PROVE Good(c)
    <3>1. ASSUME NEW f \in Inputs[c] PROVE f \notin P
      BY <2>2, <2>3, LinkFacts DEF PrunedTo
    <3>2. ASSUME NEW f \in Inputs[c], Remade(f, modify) PROVE f \in P
      <4>1. PICK p \in modify \cap Cmds : f \in Outputs[p]
        BY <3>2 DEF Remade
      <4> QED
        BY <2>2, <4>1, LinkFacts DEF PrunedTo
    <3> QED
      BY <1>2, <2>1, <2>2, <3>1, <3>2 DEF Ahead
  <2> QED
    BY <2>2, <2>3 DEF PrunedTo
<1>7. AllGood'
  <2> SUFFICES ASSUME result' = "ok", fresh
               PROVE  \E P \in SUBSET Nodes :
                         /\ \A n \in P : Succ(n) \subseteq P
                         /\ P \cap targets = {} /\ (targets = {} => P = {})
                         /\ \A c \in Cmds \ P : Good(c)'
    BY <1>1 DEF AllGood
  <2> QED
    BY <1>4, <1>6
<1> QED
  BY <1>1, <1>4, <1>5, <1>7 DEF FlagInv

(* A killed update falls back to the flags of the last commit, and the     *)
(* scan will notice the files it has changed since: their mtimes are other *)
(* than those that were rolled back.                                       *)
LEMMA FlagKill ==
    ASSUME OutputsKept, ShapeInv, FlagInv, NEW W \in SUBSET Generated, Kill(W) PROVE FlagInv'
<1>1. /\ phase = "update" /\ phase' = "idle" /\ Compare = {} /\ result' = "fail"
      /\ fs' = [f \in Files |-> IF f \in W THEN Bad ELSE fs[f]]
      /\ touched' = touched \cup placed \cup W
      /\ modify' = saved.modify /\ job' = [c \in Cmds |-> NoJob]
  BY DEF Kill, OutputsKept
<1>2. Noticed(saved.modify, touched \cup placed)
  BY <1>1 DEF FlagInv
<1>3. Running' = {}
  BY <1>1 DEF Running
<1>4. \A f \in Files \ W : Known'[f] = Known[f]
  BY <1>1, <1>3 DEF Known
<1>5. Missing \subseteq Missing' \cup W
  BY <1>1, OutputFacts DEF Missing
<1>6. Noticed(modify, touched)'
  <2> SUFFICES ASSUME NEW c \in Cmds \ saved.modify, ~Good(c)',
                      ~\E f \in Outputs[c] \cup Inputs[c] : f \in touched' \cup Missing'
               PROVE  \E f \in Inputs[c] : f \in saved.modify \/ Remade(f, saved.modify)
    BY <1>1 DEF Noticed, Remade
  <2>1. \A f \in Outputs[c] \cup Inputs[c] : f \in Files \ W
    BY <1>1, OutputFacts, LinkFacts
  <2>2. ~Good(c)
    BY <1>4, <2>1, GoodSame
  <2>3. ~\E f \in Outputs[c] \cup Inputs[c] : f \in touched \cup placed \cup Missing
    BY <1>1, <1>5, <2>1
  <2> QED
    BY <1>2, <2>2, <2>3 DEF Noticed
<1> QED
  BY <1>1, <1>3, <1>6 DEF FlagInv, GoneFlagged, JobsAreRight, AllGood

(* Every step keeps the flags. *)
LEMMA FlagStep ==
    ASSUME Transient = {}, OutputsKept, ShapeInv, FlagInv, [Next]_vars PROVE FlagInv'
<1>1. ASSUME NEW f \in Files, VisitTransient(f) \/ DeleteTransient(f) PROVE FALSE
  BY <1>1 DEF VisitTransient, DeleteTransient, ShapeInv, Typed
<1>2. ASSUME NEW f \in Files, NEW v \in Values, Edit(f, v) PROVE FlagInv'
  BY <1>2, FlagEdit
<1>3. ASSUME NEW f \in Files, Meddle(f) PROVE FlagInv'
  BY <1>3, FlagMeddle
<1>4. ASSUME NEW f \in Files, VisitFile(f) PROVE FlagInv'
  BY <1>4, FlagVisitFile
<1>5. ASSUME NEW c \in Cmds, SkipCmd(c) \/ StartCmd(c) \/ EndCmd(c) PROVE FlagInv'
  BY <1>5, FlagSkipCmd, FlagStartCmd, FlagEndCmd
<1>6. ASSUME NEW c \in Cmds, ExecError(c) PROVE FlagInv'
  BY <1>6, FlagExecError
<1>7. ASSUME NEW c \in Cmds, NEW left \in [Outputs[c] -> Values \cup {Gone, Bad}], FailCmd(c, left) PROVE FlagInv'
  BY <1>7, FlagFailCmd
<1>8. ASSUME NEW W \in SUBSET Generated, Kill(W) PROVE FlagInv'
  BY <1>8, FlagKill
<1>9. Interrupt => FlagInv'
  BY FlagSame DEF Interrupt, disk, db, args, graph
<1>10. Scan \/ ProcessUpdateNodes \/ EndUpdate => FlagInv'
  BY FlagScan, FlagBegin, FlagEndUpdate
<1>11. UNCHANGED vars => FlagInv'
  BY FlagSame DEF vars
<1> QED
  BY <1>1, <1>2, <1>3, <1>4, <1>5, <1>6, <1>7, <1>8, <1>9, <1>10, <1>11 DEF Next, Step, Fault

(* In projects without ^t (and, with ^o, without what makes an output      *)
(* disappear), no flag of the modify list is ever lost: a command that is  *)
(* not in it is up to date, or something that it reads will put it there.  *)
THEOREM FlagInvariance == ASSUME Transient = {}, OutputsKept PROVE Spec => [](ShapeInv /\ FlagInv)
<1>1. Init => ShapeInv /\ FlagInv
  BY ShapeInit, FlagInit
<1>2. (ShapeInv /\ FlagInv) /\ [Next]_vars => (ShapeInv /\ FlagInv)'
  BY ShapeStep, FlagStep
<1> QED
  BY <1>1, <1>2, PTL DEF Spec

-----------------------------------------------------------------------------
(***************************************************************************)
(* A build from nothing.                                                   *)
(***************************************************************************)

(* Producer is the command that writes a file. *)
LEMMA ProducerFacts ==
    /\ \A f \in Files \ Sources : Producer(f) \in Cmds /\ f \in Outputs[Producer(f)]
    /\ \A c \in Cmds : \A f \in Outputs[c] : f \in Files \ Sources /\ Producer(f) = c
<1>1. ASSUME NEW f \in Files \ Sources PROVE Producer(f) \in Cmds /\ f \in Outputs[Producer(f)]
  <2>1. \E c \in Cmds : f \in Outputs[c]
    BY DEF Sources, Generated
  <2> QED
    BY <2>1 DEF Producer
<1>2. ASSUME NEW c \in Cmds, NEW f \in Outputs[c] PROVE f \in Files \ Sources /\ Producer(f) = c
  <2>1. f \in Files \ Sources
    BY OutputFacts
  <2> QED
    BY <1>1, <2>1, OutputFacts
<1> QED
  BY <1>1, <1>2

(* The runs of all commands that Right is the last of. *)
IsRun(h) ==
    /\ \A f \in Files : h[0][f] = IF f \in Sources THEN fs[f] ELSE Gone
    /\ \A i \in 1 .. Cardinality(Cmds) : \A f \in Files :
          h[i][f] = IF f \in Sources THEN fs[f] ELSE Written(Producer(f), h[i - 1])

(* What the files should be is the end of a run of all commands, from      *)
(* nothing, as often as there are commands.                                *)
LEMMA RightIsARun ==
    ASSUME Typed PROVE \E h : IsRun(h) /\ Right = h[Cardinality(Cmds)]
<1> DEFINE N == Cardinality(Cmds)
           s == [f \in Files |-> IF f \in Sources THEN fs[f] ELSE Gone]
           After(r) == [f \in Files |-> IF f \in Sources THEN fs[f] ELSE Written(Producer(f), r)]
           run == CHOOSE g : g = [i \in 0 .. N |-> IF i = 0 THEN s
                      ELSE LET r == g[i - 1] IN [f \in Files |-> IF f \in Sources THEN fs[f] ELSE Written(Producer(f), r)]]
           T == [Files -> Contents]
           G == [r \in T |-> After(r)]
<1>1. Right = run[N]
  BY DEF Right
<1>2. N \in Nat
  BY FS_CardinalityType, GraphAssumption
<1>3. s \in T /\ G \in [T -> T]
  <2>1. s \in T
    BY DEF Typed, Contents
  <2>2. ASSUME NEW r \in T PROVE After(r) \in T
    <3> SUFFICES ASSUME NEW f \in Files \ Sources PROVE Written(Producer(f), r) \in Contents
      BY DEF Typed
    <3>1. Producer(f) \in Cmds
      BY ProducerFacts
    <3> QED
      BY <3>1, WrittenFacts
  <2> HIDE DEF After
  <2>3. G \in [T -> T]
    BY <2>2
  <2> QED
    BY <2>1, <2>3
<1>4. PICK h : Iterates(h, N, T, s, G)
  <2>1. s \in T
    BY <1>3
  <2>2. G \in [T -> T]
    BY <1>3
  <2> HIDE DEF G, T, N, run, s, After
  <2> QED
    BY <1>2, <2>1, <2>2, Iterate
<1>5. h \in [0 .. N -> T] /\ h[0] = s /\ \A i \in 1 .. N : h[i] = G[h[i - 1]]
  BY <1>4 DEF Iterates
<1>6. \A i \in 0 .. N : i # 0 => i \in 1 .. N /\ i - 1 \in 0 .. N
  BY <1>2
<1>7. h = [i \in 0 .. N |-> IF i = 0 THEN s ELSE After(h[i - 1])]
  <2>1. \A i \in 0 .. N : i # 0 => h[i - 1] \in T
    BY <1>5, <1>6
  <2>2. \A i \in 0 .. N : i # 0 => G[h[i - 1]] = After(h[i - 1])
    BY <2>1
  <2> HIDE DEF G, T, s, After
  <2> QED
    BY <1>5, <1>6, <2>2
<1>8. run = [i \in 0 .. N |-> IF i = 0 THEN s ELSE After(run[i - 1])]
  <2>1. \E g : g = [i \in 0 .. N |-> IF i = 0 THEN s
                      ELSE LET r == g[i - 1] IN [f \in Files |-> IF f \in Sources THEN fs[f] ELSE Written(Producer(f), r)]]
    BY <1>7
  <2> QED
    BY <2>1
<1> HIDE DEF run
<1>9. run = h
  <2>1. 0 \in 0 .. N
    BY <1>2
  <2> HIDE DEF N, s, After, T, G
  <2>2. DOMAIN run = 0 .. N /\ DOMAIN h = 0 .. N /\ run[0] = s /\ h[0] = s
    <3>1. DOMAIN run = 0 .. N /\ run[0] = s
      BY <1>8, <2>1
    <3>2. DOMAIN h = 0 .. N /\ h[0] = s
      BY <1>5
    <3> QED
      BY <3>1, <3>2
  <2>3. run = [i \in DOMAIN run |-> run[i]] /\ h = [i \in DOMAIN h |-> h[i]]
    BY <1>7, <1>8
  <2>4. \A i \in 0 .. N : i # 0 /\ run[i - 1] = h[i - 1] => run[i] = h[i]
    BY <1>7, <1>8
  <2> QED
    BY <1>2, <2>2, <2>3, <2>4, SameIteration
<1>10. IsRun(h)
  <2>1. \A f \in Files : h[0][f] = IF f \in Sources THEN fs[f] ELSE Gone
    BY <1>5
  <2>2. ASSUME NEW i \in 1 .. N PROVE h[i] = After(h[i - 1])
    <3>1. i \in 0 .. N /\ i # 0
      BY <1>2
    <3> HIDE DEF N, s, After, T, G
    <3> QED
      BY <1>7, <3>1
  <2>3. \A i \in 1 .. N : \A f \in Files :
          h[i][f] = IF f \in Sources THEN fs[f] ELSE Written(Producer(f), h[i - 1])
    BY <2>2
  <2> QED
    BY <2>1, <2>3 DEF IsRun
<1> QED
  BY <1>1, <1>9, <1>10

(* If the commands of D read only sources and what D writes, do not depend *)
(* on themselves, and each is up to date with the files, then a run from   *)
(* nothing comes to just these files: after i rounds, i commands of D      *)
(* have.                                                                   *)
LEMMA RunReachesGood ==
    ASSUME Typed, Acyclic, NEW h, IsRun(h), NEW D \in SUBSET Cmds,
           \A c \in D : \A f \in Inputs[c] : f \in Sources \/ Producer(f) \in D,
           \A c \in D : \A f \in Outputs[c] : fs[f] = Written(c, fs)
    PROVE  \A c \in D : \A f \in Outputs[c] : h[Cardinality(Cmds)][f] = fs[f]
<1> DEFINE N == Cardinality(Cmds)
           L(i) == {c \in D : \A j \in i .. N : \A f \in Outputs[c] : h[j][f] = fs[f]}
           S == {i \in Nat : L(i) = D \/ Cardinality(L(i)) >= i}
<1>1. N \in Nat /\ IsFiniteSet(Cmds)
  BY FS_CardinalityType, GraphAssumption
<1>2. \A C \in SUBSET Cmds : IsFiniteSet(C) /\ Cardinality(C) \in Nat /\ Cardinality(C) <= N
                              /\ (Cardinality(C) = N => C = Cmds)
  BY <1>1, FS_Subset, FS_CardinalityType
<1>3. \A i : L(i) \in SUBSET Cmds /\ L(i) \subseteq D
  OBVIOUS
<1>4. 0 \in S
  <2>1. Cardinality(L(0)) >= 0
    <3> HIDE DEF L
    <3>1. L(0) \in SUBSET Cmds
      BY <1>3
    <3> QED
      BY <1>2, <3>1
  <2> QED
    BY <2>1
<1>5. ASSUME NEW i \in 0 .. N, i \in S, i < N PROVE i + 1 \in S
  <2>0. i \in Nat /\ i + 1 \in Nat /\ i + 1 .. N \subseteq i .. N
        /\ (\A j \in i + 1 .. N : j - 1 \in i .. N /\ j \in 1 .. N)
        /\ i .. N \subseteq 0 .. N
    BY <1>1, <1>5
  <2>1. L(i) \subseteq L(i + 1)
    BY <2>0
  <2>2. CASE L(i) = D
    <3>1. L(i + 1) = D
      BY <1>3, <2>1, <2>2
    <3> HIDE DEF L
    <3> QED
      BY <2>0, <3>1
  <2>3. CASE L(i) # D
    <3> DEFINE A == D \ L(i)
    <3>1. A \in SUBSET Cmds /\ A # {}
      <4> HIDE DEF L
      <4> QED
        BY <1>3, <2>3
    <3>2. PICK c \in A : \A d \in A : Outputs[d] \cap Inputs[c] = {}
      <4> HIDE DEF A
      <4> QED
        BY <3>1 DEF Acyclic
    <3>3. c \in D /\ c \in Cmds /\ c \notin L(i) /\ Inputs[c] \subseteq Files
      BY GraphAssumption
    <3>4. ASSUME NEW j \in i .. N, NEW f \in Inputs[c] PROVE h[j][f] = fs[f]
      <4>1. CASE f \in Sources
        <5>1. j = 0 \/ j \in 1 .. N
          BY <2>0, <1>1
        <5>2. f \in Files
          BY <3>3
        <5> QED
          BY <4>1, <5>1, <5>2 DEF IsRun
      <4>2. CASE f \notin Sources
        <5>1. f \in Files \ Sources /\ Producer(f) \in D
          BY <3>3, <4>2
        <5>2. f \in Outputs[Producer(f)]
          BY <5>1, ProducerFacts
        <5>3. Producer(f) \in L(i)
          <6>1. Producer(f) \notin A
            BY <3>2, <5>2
          <6> HIDE DEF L
          <6> QED
            BY <5>1, <6>1
        <5> QED
          BY <5>2, <5>3
      <4> QED
        BY <4>1, <4>2
    <3>5. c \in L(i + 1)
      <4> SUFFICES ASSUME NEW j \in i + 1 .. N, NEW f \in Outputs[c] PROVE h[j][f] = fs[f]
        BY <3>3
      <4>1. f \in Files /\ f \notin Sources /\ Producer(f) = c
        BY <3>3, ProducerFacts
      <4>2. j - 1 \in i .. N /\ j \in 1 .. N
        BY <2>0
      <4>3. h[j][f] = Written(c, h[j - 1])
        BY <4>1, <4>2 DEF IsRun
      <4>4. Written(c, h[j - 1]) = Written(c, fs)
        <5>1. \A g \in Inputs[c] : h[j - 1][g] = fs[g]
          BY <3>4, <4>2
        <5> QED
          BY <3>3, <5>1, WrittenSame
      <4> QED
        BY <3>3, <4>3, <4>4
    <3>6. Cardinality(L(i + 1)) >= Cardinality(L(i)) + 1
      <4> HIDE DEF L
      <4>1. L(i + 1) \in SUBSET Cmds /\ L(i) \in SUBSET Cmds
        BY <1>3
      <4>2. IsFiniteSet(L(i + 1)) /\ L(i) \in SUBSET L(i + 1) /\ L(i) # L(i + 1)
        BY <1>2, <2>1, <3>3, <3>5, <4>1
      <4>3. Cardinality(L(i)) <= Cardinality(L(i + 1)) /\ Cardinality(L(i)) # Cardinality(L(i + 1))
        BY <4>2, FS_Subset
      <4> QED
        BY <1>2, <4>1, <4>3
    <3>7. Cardinality(L(i)) >= i /\ Cardinality(L(i)) \in Nat /\ Cardinality(L(i + 1)) \in Nat
      <4>1. Cardinality(L(i)) >= i
        BY <1>5, <2>3
      <4> HIDE DEF L
      <4>2. L(i + 1) \in SUBSET Cmds /\ L(i) \in SUBSET Cmds
        BY <1>3
      <4> QED
        BY <1>2, <4>1, <4>2
    <3>8. Cardinality(L(i + 1)) >= i + 1
      <4> HIDE DEF L
      <4> QED
        BY <2>0, <3>6, <3>7
    <3> QED
      BY <2>0, <3>8
  <2> QED
    BY <2>2, <2>3
<1>6. N \in S
  <2>1. S \in SUBSET Nat
    OBVIOUS
  <2> HIDE DEF S
  <2>2. 0 .. N \subseteq S
    BY <1>1, <1>4, <1>5, <2>1, Induction
  <2> QED
    BY <1>1, <2>2
<1>7. L(N) = D
  <2>1. L(N) = D \/ Cardinality(L(N)) >= N
    BY <1>6
  <2> HIDE DEF L
  <2>2. L(N) \in SUBSET Cmds /\ L(N) \subseteq D
    BY <1>3
  <2>3. Cardinality(L(N)) >= N => L(N) = Cmds
    BY <1>1, <1>2, <2>2
  <2> QED
    BY <2>1, <2>2, <2>3
<1>8. N \in N .. N
  BY <1>1
<1> QED
  BY <1>7, <1>8

(* Commands that are each up to date with the files that are there now     *)
(* make all the files that were asked for what a build from nothing would  *)
(* make.                                                                   *)
LEMMA GoodIsUpToDate ==
    ASSUME Acyclic, ShapeInv, FlagInv PROVE UpdatedMeansUpToDate
<1> SUFFICES ASSUME Succeeded, fresh, NEW f \in Wanted \cap Generated PROVE fs[f] = Right[f]
  BY DEF UpdatedMeansUpToDate
<1>1. phase = "idle" /\ Running = {} /\ Typed
  BY DEF ShapeInv, Succeeded
<1>2. PICK P \in SUBSET Nodes :
         /\ \A n \in P : Succ(n) \subseteq P
         /\ P \cap targets = {} /\ (targets = {} => P = {})
         /\ \A c \in Cmds \ P : Good(c)
  BY DEF FlagInv, AllGood, Succeeded
<1> DEFINE D == Cmds \ P
<1>3. \A c \in D : \A g \in Outputs[c] : fs[g] = Written(c, fs)
  <2> SUFFICES ASSUME NEW c \in D, NEW g \in Outputs[c] PROVE fs[g] = Written(c, fs)
    OBVIOUS
  <2>1. Known[g] = Written(c, Known)
    BY <1>2 DEF Good
  <2>2. g \in Files /\ Inputs[c] \subseteq Files
    BY OutputFacts, GraphAssumption
  <2>3. Known[g] = fs[g] /\ \A x \in Inputs[c] : Known[x] = fs[x]
    BY <1>1, <2>2, KnownIdle
  <2>4. Written(c, Known) = Written(c, fs)
    BY <2>3, WrittenSame
  <2> QED
    BY <2>1, <2>3, <2>4
<1>4. \A c \in D : \A g \in Inputs[c] : g \in Sources \/ Producer(g) \in D
  <2> SUFFICES ASSUME NEW c \in D, NEW g \in Inputs[c], g \notin Sources, Producer(g) \in P PROVE FALSE
    <3>1. \A c \in D : \A g \in Inputs[c] : g \notin Sources => Producer(g) \in Cmds
      BY ProducerFacts, GraphAssumption
    <3> QED
      BY <3>1
  <2>1. g \in Files \ Sources
    BY GraphAssumption
  <2>2. Producer(g) \in Cmds /\ g \in Outputs[Producer(g)]
    BY <2>1, ProducerFacts
  <2>3. g \in P
    BY <1>2, <2>2, LinkFacts
  <2>4. c \in P
    BY <1>2, <2>3, LinkFacts
  <2> QED
    BY <2>4
<1>5. f \in Files \ Sources /\ Producer(f) \in Cmds /\ f \in Outputs[Producer(f)]
  BY OutputFacts, ProducerFacts
<1>6. Producer(f) \in D
  <2>1. CASE targets = {}
    BY <1>2, <1>5, <2>1
  <2>2. CASE targets # {}
    <3>1. f \in targets
      BY <2>2 DEF Wanted
    <3>2. f \notin P
      BY <1>2, <3>1
    <3>3. Producer(f) \in P => f \in P
      BY <1>2, <1>5, LinkFacts
    <3> QED
      BY <1>5, <3>2, <3>3
  <2> QED
    BY <2>1, <2>2
<1>7. PICK h : IsRun(h) /\ Right = h[Cardinality(Cmds)]
  BY <1>1, RightIsARun
<1>8. \A c \in D : \A g \in Outputs[c] : h[Cardinality(Cmds)][g] = fs[g]
  <2>1. D \in SUBSET Cmds
    OBVIOUS
  <2> HIDE DEF D
  <2> QED
    BY <1>1, <1>3, <1>4, <1>7, <2>1, RunReachesGood
<1> QED
  BY <1>5, <1>6, <1>7, <1>8

(* When process_update_nodes() returns 0, every file that was asked for is *)
(* as the commands make it from the current source files, whatever failed, *)
(* was interrupted, killed or pruned in the updates before.  For projects  *)
(* without ^t whose commands do not depend on what they write (a cycle is  *)
(* an error: graph.c:295, updater.c:2021); with ^o, without what makes an  *)
(* output disappear (known limit 12).                                      *)
THEOREM UpToDate ==
    ASSUME Transient = {}, OutputsKept, Acyclic PROVE Spec => []UpdatedMeansUpToDate
<1>1. ShapeInv /\ FlagInv => UpdatedMeansUpToDate
  BY GoodIsUpToDate
<1> QED
  BY <1>1, FlagInvariance, PTL

-----------------------------------------------------------------------------
(***************************************************************************)
(* Projects with ^t: what build_graph(), attach_transient_nodes() and      *)
(* prune_graph() make of any lists.                                        *)
(***************************************************************************)

(* What is there after one round of an iteration is there at the end. *)
LEMMA FirstRound ==
    ASSUME NEW X, NEW T, NEW G, Adds(G, T, X), NEW s \in T, NEW N \in Nat \ {0},
           NEW h, Iterates(h, N, T, s, G)
    PROVE  h[N] \in T /\ G[s] \subseteq h[N]
<1>1. /\ h \in [0 .. N -> T] /\ h[0] = s /\ \A i \in 1 .. N : h[i] = G[h[i - 1]]
      /\ G \in [T -> T] /\ \A C \in T : C \subseteq G[C]
  BY DEF Iterates, Adds
<1> DEFINE S == {i \in Nat : i = 0 \/ G[s] \subseteq h[i]}
<1>2. \A i \in 0 .. N : i \in S /\ i < N => i + 1 \in S
  <2> SUFFICES ASSUME NEW i \in 0 .. N, i \in S, i < N PROVE i + 1 \in S
    OBVIOUS
  <2>1. i + 1 \in 1 .. N /\ (i + 1) - 1 = i /\ i + 1 \in Nat
    OBVIOUS
  <2>2. h[i + 1] = G[h[i]] /\ h[i] \in T
    BY <1>1, <2>1
  <2>3. CASE i = 0
    BY <1>1, <2>1, <2>2, <2>3
  <2>4. CASE G[s] \subseteq h[i]
    BY <1>1, <2>1, <2>2, <2>4
  <2> QED
    BY <2>3, <2>4
<1>3. 0 .. N \subseteq S
  <2>1. 0 \in S /\ S \in SUBSET Nat /\ N \in Nat
    OBVIOUS
  <2> HIDE DEF S
  <2> QED
    BY <1>2, <2>1, Induction
<1>4. N \in 0 .. N /\ N # 0
  OBVIOUS
<1> QED
  BY <1>1, <1>3, <1>4

(* attach_transient_nodes() adds held commands, and the ones whose output  *)
(* is not left over and is read by a command that was there.               *)
LEMMA AttachedAre ==
    ASSUME NEW B, NEW H \in SUBSET Transient, NEW L
    PROVE  /\ Attached(B, H, L) \subseteq H \ B
           /\ \A c \in H \ B : \A f \in Outputs[c] :
                 f \notin L /\ B \cap Readers(f) # {} => c \in Attached(B, H, L)
<1> DEFINE Feeds(n) == {c \in H : Outputs[c] \cap L = {} /\ n \in Readers(CHOOSE f \in Outputs[c] : TRUE)}
           N == Cardinality(Transient)
           grow == CHOOSE g : g = [i \in 0 .. N |-> IF i = 0 THEN B
               ELSE UNION {{n} \cup Feeds(n) : n \in g[i - 1]}]
           T == {C \in SUBSET (B \cup H) : B \subseteq C}
           G == [C \in T |-> UNION {{n} \cup Feeds(n) : n \in C}]
<1>1. Attached(B, H, L) = grow[N] \ B
  BY DEF Attached
<1>2. N \in Nat
  <2>1. IsFiniteSet(Transient)
    BY GraphAssumption, FS_Subset
  <2> QED
    BY <2>1, FS_CardinalityType
<1>b. \A n : Feeds(n) \subseteq H
  OBVIOUS
<1>c. ASSUME NEW c \in H, NEW f \in Outputs[c], f \notin L, NEW n \in Readers(f) PROVE c \in Feeds(n)
  <2>1. Cardinality(Outputs[c]) = 1 /\ IsFiniteSet(Outputs[c])
    BY GraphAssumption, FS_Subset
  <2>2. PICK x : Outputs[c] = {x}
    BY <2>1, FS_Singleton
  <2>3. (CHOOSE y \in Outputs[c] : TRUE) = f /\ Outputs[c] \cap L = {}
    BY <1>c, <2>2
  <2> QED
    BY <2>3
<1> HIDE DEF Feeds
<1>3. B \in T /\ Adds(G, T, B \cup H)
  <2>1. ASSUME NEW C \in T PROVE G[C] \in T /\ C \subseteq G[C]
    <3>1. G[C] = UNION {{n} \cup Feeds(n) : n \in C}
      OBVIOUS
    <3>2. C \subseteq B \cup H /\ B \subseteq C
      OBVIOUS
    <3> HIDE DEF G, T
    <3>3. G[C] \subseteq B \cup H
      BY <1>b, <3>1, <3>2
    <3>4. C \subseteq G[C]
      BY <3>1
    <3> QED
      BY <3>2, <3>3, <3>4 DEF T
  <2> QED
    BY <2>1 DEF Adds
<1>4. PICK h : Iterates(h, N, T, B, G)
  <2>1. G \in [T -> T] /\ B \in T
    BY <1>3 DEF Adds
  <2> HIDE DEF G, T, N, grow
  <2> QED
    BY <1>2, <2>1, Iterate
<1>5. \A i \in 0 .. N : i # 0 => i \in 1 .. N /\ i - 1 \in 0 .. N
  BY <1>2
<1>11. h \in [0 .. N -> T] /\ h[0] = B /\ \A i \in 1 .. N : h[i] = G[h[i - 1]]
  BY <1>4 DEF Iterates
<1>6. h = [i \in 0 .. N |-> IF i = 0 THEN B ELSE UNION {{n} \cup Feeds(n) : n \in h[i - 1]}]
  <2>1. \A i \in 0 .. N : i # 0 => h[i - 1] \in T
    BY <1>5, <1>11
  <2>2. \A i \in 0 .. N : i # 0 => G[h[i - 1]] = UNION {{n} \cup Feeds(n) : n \in h[i - 1]}
    <3> HIDE DEF T
    <3> QED
      BY <2>1
  <2> HIDE DEF G, T
  <2> QED
    BY <1>11, <1>5, <2>2
<1>7. grow = [i \in 0 .. N |-> IF i = 0 THEN B ELSE UNION {{n} \cup Feeds(n) : n \in grow[i - 1]}]
  BY <1>6
<1> HIDE DEF grow
<1>8. grow = h
  <2>1. 0 \in 0 .. N
    BY <1>2
  <2>2. DOMAIN grow = 0 .. N /\ DOMAIN h = 0 .. N /\ grow[0] = B /\ h[0] = B
    BY <1>6, <1>7, <2>1
  <2>3. grow = [i \in DOMAIN grow |-> grow[i]] /\ h = [i \in DOMAIN h |-> h[i]]
    BY <1>6, <1>7
  <2>4. \A i \in 0 .. N : i # 0 /\ grow[i - 1] = h[i - 1] => grow[i] = h[i]
    BY <1>6, <1>7
  <2> HIDE DEF N
  <2> QED
    BY <1>2, <2>2, <2>3, <2>4, SameIteration
<1>9. h[N] \in T
  <2>1. N \in 0 .. N
    BY <1>2
  <2> HIDE DEF T, N
  <2> QED
    BY <1>11, <2>1
<1>10. Attached(B, H, L) \subseteq H \ B
  BY <1>1, <1>8, <1>9
<1>12. ASSUME NEW c \in H \ B, NEW f \in Outputs[c], f \notin L, NEW n \in B \cap Readers(f)
       PROVE  c \in Attached(B, H, L)
  <2>1. N # 0
    <3>1. Transient # {} /\ IsFiniteSet(Transient)
      BY GraphAssumption, FS_Subset
    <3> QED
      BY <3>1, FS_EmptySet
  <2>2. c \in Feeds(n)
    BY <1>c, <1>12
  <2>3. G[B] = UNION {{m} \cup Feeds(m) : m \in B}
    BY <1>3
  <2>4. c \in G[B]
    <3> HIDE DEF G
    <3> QED
      BY <2>2, <2>3
  <2>5. G[B] \subseteq h[N]
    <3>1. N \in Nat \ {0}
      BY <1>2, <2>1
    <3> HIDE DEF G, T, N
    <3> QED
      BY <1>3, <1>4, <3>1, FirstRound
  <2> QED
    BY <1>1, <1>8, <2>4, <2>5
<1> QED
  BY <1>10, <1>12

(* Only one command writes a file. *)
LEMMA OneWriter ==
    ASSUME NEW c \in Cmds, NEW d \in Cmds, NEW f \in Outputs[c], f \in Outputs[d] PROVE c = d
  BY GraphAssumption

(* A ^t command has one output, which is a transient file.                 *)
LEMMA TransientFacts ==
    ASSUME NEW c \in Transient, NEW f \in Outputs[c]
    PROVE  c \in Cmds /\ f \in Files /\ f \in TransientFiles /\ f \in Generated /\ Outputs[c] = {f}
<1>1. c \in Cmds /\ f \in Files
  BY GraphAssumption
<1>2. Cardinality(Outputs[c]) = 1 /\ IsFiniteSet(Outputs[c])
  BY GraphAssumption, FS_Subset
<1>3. PICK x : Outputs[c] = {x}
  BY <1>2, FS_Singleton
<1> QED
  BY <1>1, <1>3 DEF TransientFiles, Generated

Lists(M, L) == M \subseteq Nodes /\ L \subseteq Transient \cup TransientFiles

(* The graph of lists that are without limit 14: what is skipped comes     *)
(* after something that is not only sticky, commands have their outputs,   *)
(* and what is listed is there.                                            *)
GoodGraph(g, M, L) ==
    /\ g.nodes \subseteq Nodes /\ g.edges = Within(g.nodes) /\ g.normal \subseteq g.edges
    /\ g.skip \subseteq g.nodes /\ g.processing \subseteq g.nodes \cap TransientFiles
    /\ \A n \in g.skip : n \notin Sources /\ \E m \in g.nodes : <<m, n>> \in g.normal
    /\ \A c \in g.nodes \cap Cmds : Outputs[c] \subseteq g.nodes
    /\ \A c \in Transient : \A f \in Outputs[c] :
          Listed(f, c, M, L) => f \in L \/ (f \in g.nodes => c \in g.nodes)

LEMMA GraphFacts ==
    ASSUME NEW M, NEW L, Lists(M, L), TransientsAreRead, ~Graph(M, L).error
    PROVE  /\ GoodGraph(Graph(M, L), M, L)
           /\ Graph(M, L).processing = Graph(M, L).nodes \cap TransientFiles
           /\ \A c \in Transient : \A f \in Outputs[c] : Listed(f, c, M, L) => f \in Graph(M, L).nodes
<1> DEFINE S == Roots(M, L)
           X == Unexpanded(M, L)
           B == Built(M, L)
           H == (M \cap Transient) \ B
           A == Attached(B, H, L)
           N == (B \ (OutputsOf(H \ A) \ L)) \cup A \cup OutputsOf(A)
           E == (B \ X) \cup OutputsOf(H)
           W == {e \in Within(N) : e[1] \in Cmds \cup E}
           g == Graph(M, L)
<1>1. /\ g.nodes = N /\ g.edges = Within(N) /\ g.normal = W /\ g.skip = N \ (S \cup A)
      /\ g.processing = N \cap TransientFiles /\ (g.error <=> OutputsOf(A) \cap B # {})
  <2> HIDE DEF S, X, B, H, A
  <2> QED
    BY DEF Graph, S, X, B, H, A
<1>2. S \subseteq Nodes /\ S = (M \ Transient) \cup L
  <2>1. TransientFiles \subseteq Nodes
    BY TransientFacts, LinkFacts DEF TransientFiles
  <2>2. Transient \subseteq Nodes
    BY GraphAssumption DEF Nodes
  <2> QED
    BY <2>1, <2>2 DEF Roots, Lists
<1>3. /\ S \subseteq B /\ B \subseteq Nodes
      /\ \A n \in B \ X : Succ(n) \subseteq B
      /\ \A n \in B : n \in S \/ \E m \in B \ X : n \in Succ(m)
  <2>1. B = Closure(S, X) /\ S \in SUBSET Nodes
    BY <1>2 DEF Built
  <2> HIDE DEF S, X, B
  <2> QED
    BY <2>1, ClosureStops
<1>4. /\ A \subseteq H \ B
      /\ \A c \in H \ B : \A f \in Outputs[c] : f \notin L /\ B \cap Readers(f) # {} => c \in A
  <2>1. H \in SUBSET Transient
    OBVIOUS
  <2> HIDE DEF B, H
  <2> QED
    BY <2>1, AttachedAre
<1>5. OutputsOf(A) \cap B = {}
  BY <1>1
<1>6. X \subseteq Files /\ X \subseteq L /\ X \cap M = {}
  BY DEF Unexpanded
<1>7. H \subseteq Transient \ B /\ \A c \in Transient \ B : c \in M => c \in H
  OBVIOUS
<1>8. Transient \subseteq Cmds /\ \A c \in Cmds : c \notin Files /\ c \in Nodes
  BY GraphAssumption, LinkFacts
<1> HIDE DEF S, X, B, H, A
\* a file of the modify list is not the output of a held command
<1>9. ASSUME NEW c \in H, NEW f \in Outputs[c] PROVE f \in L \/ f \notin B \/ f \in X
  <2> SUFFICES ASSUME f \notin L, f \in B, f \notin X PROVE FALSE
    OBVIOUS
  <2>1. PICK r \in Readers(f) : TRUE
    <3>1. f \in TransientFiles
      BY <1>7, TransientFacts
    <3> QED
      BY <3>1 DEF TransientsAreRead
  <2>2. r \in Succ(f) /\ r \in B
    <3>1. r \in Cmds /\ f \in Inputs[r]
      BY DEF Readers
    <3>2. r \in Succ(f)
      BY <3>1, LinkFacts
    <3> QED
      BY <1>3, <3>2
  <2>3. c \in A
    BY <1>4, <1>7, <2>1, <2>2
  <2>4. f \in OutputsOf(A)
    BY <2>3 DEF OutputsOf
  <2> QED
    BY <1>5, <2>4
<1>10. ASSUME NEW n \in B PROVE n \in N
  <2> SUFFICES ASSUME n \in OutputsOf(H \ A), n \notin L PROVE FALSE
    OBVIOUS
  <2>1. PICK c \in H : n \in Outputs[c]
    BY DEF OutputsOf
  <2> QED
    BY <1>6, <1>9, <2>1
<1>11. N \subseteq Nodes /\ N = B \cup A \cup OutputsOf(A)
  <2>1. OutputsOf(A) \subseteq Nodes
    BY <1>4, <1>7, TransientFacts DEF OutputsOf, Nodes
  <2>2. A \subseteq Nodes
    BY <1>4, <1>7, <1>8
  <2> QED
    BY <1>3, <1>10, <2>1, <2>2
<1> HIDE DEF N
<1>12. ASSUME NEW c \in N \cap Cmds PROVE Outputs[c] \subseteq N
  <2>1. CASE c \in B
    <3>1. c \notin X
      BY <1>6, <1>8
    <3> QED
      BY <1>3, <1>11, <2>1, <3>1, LinkFacts
  <2>2. CASE c \in A
    BY <1>11, <2>2 DEF OutputsOf
  <2>3. CASE c \in OutputsOf(A)
    BY <1>4, <1>7, <1>8, <2>3, TransientFacts DEF OutputsOf
  <2> QED
    BY <1>11, <2>1, <2>2, <2>3
<1>13. ASSUME NEW n \in N, n \notin S, n \notin A PROVE n \notin Sources /\ \E m \in N : <<m, n>> \in W
  <2>1. CASE n \in B
    <3>1. PICK m \in B : m \notin X /\ n \in Succ(m)
      BY <1>3, <1>13, <2>1
    <3>2. m \in N /\ <<m, n>> \in Links /\ m \in E
      BY <1>11, <3>1 DEF Succ
    <3>3. <<m, n>> \in W
      BY <3>2 DEF Within
    <3>4. n \notin Sources
      <4> SUFFICES ASSUME n \in Sources PROVE FALSE
        OBVIOUS
      <4>1. n \in Files /\ n \notin Generated
        BY DEF Sources
      <4>2. m \in Cmds /\ n \in Outputs[m]
        BY <3>2, <4>1, <1>8, LinkKinds
      <4> QED
        BY <4>1, <4>2 DEF Generated
    <3> QED
      BY <3>2, <3>3, <3>4
  <2>2. CASE n \in OutputsOf(A)
    <3>1. PICK c \in A : n \in Outputs[c]
      BY <2>2 DEF OutputsOf
    <3>2. c \in N /\ c \in Cmds /\ <<c, n>> \in Links
      BY <1>4, <1>7, <1>8, <1>11, <3>1, LinkFacts
    <3>3. <<c, n>> \in W
      BY <3>2 DEF Within
    <3>4. n \notin Sources
      BY <3>1, <3>2 DEF Sources, Generated
    <3> QED
      BY <3>2, <3>3, <3>4
  <2> QED
    BY <1>11, <1>13, <2>1, <2>2
<1>14. ASSUME NEW c \in Transient, NEW f \in Outputs[c], Listed(f, c, M, L)
       PROVE  f \in N /\ (f \in L \/ c \in N)
  <2>1. f \in S
    <3>1. f \in Files /\ f \notin Transient
      BY <1>8, TransientFacts
    <3> QED
      BY <1>2, <1>14, <3>1 DEF Listed
  <2>2. f \in B /\ f \in N
    BY <1>3, <1>11, <2>1
  <2>3. ASSUME f \notin L PROVE c \in N
    <3>1. c \in M \cup L /\ f \notin X
      BY <1>6, <1>14, <2>3 DEF Listed
    <3>2. c \notin H
      BY <1>9, <2>2, <2>3, <3>1
    <3>3. c \in B
      BY <1>2, <1>3, <1>7, <3>1, <3>2
    <3> QED
      BY <1>11, <3>3
  <2> QED
    BY <2>2, <2>3
<1>15. W \subseteq Within(N)
  OBVIOUS
<1> HIDE DEF W, E, g
<1>16. GoodGraph(g, M, L)
  BY <1>1, <1>11, <1>12, <1>13, <1>14, <1>15 DEF GoodGraph
<1> QED
  BY <1>1, <1>14, <1>16 DEF g

(* prune_graph() keeps it so, and with no target it takes nothing out. *)
LEMMA PrunedIsGood ==
    ASSUME NEW M, NEW L, NEW G, GoodGraph(G, M, L), NEW t
    PROVE  /\ GoodGraph(Pruned(G, t), M, L)
           /\ Pruned(G, t).pruned \subseteq Cmds
           /\ t = {} => Pruned(G, t).nodes = G.nodes /\ Pruned(G, t).processing = G.processing
<1> DEFINE g == Pruned(G, t)
           U == Unmarked(G, t)
           K == Marked(G, t)
           W == G.nodes \ (U \ Sources)
<1>1. /\ t \cap G.nodes \subseteq K /\ K \subseteq G.nodes
      /\ \A n \in K, m \in G.nodes : <<m, n>> \in G.edges \/ (n \in Cmds /\ <<n, m>> \in G.edges) => m \in K
  BY MarkedIsClosed DEF GoodGraph
<1>2. U = IF t = {} THEN {} ELSE G.nodes \ K
  BY DEF Unmarked
<1>3. /\ g.nodes = W /\ g.edges = G.edges \cap Within(W) /\ g.normal = G.normal \cap Within(W)
      /\ g.skip = G.skip \cap W /\ g.processing = {f \in G.processing \cap W : Readers(f) \cap U = {}}
      /\ g.pruned = U \cap Cmds
  <2> HIDE DEF U
  <2> QED
    BY DEF Pruned, U
<1> HIDE DEF U, K
<1>4. W \subseteq G.nodes /\ W \subseteq Nodes /\ G.edges = Within(G.nodes) /\ G.normal \subseteq G.edges
  BY DEF GoodGraph
<1>5. g.edges = Within(W)
  BY <1>3, <1>4 DEF Within
\* a node that is kept, and is no source, keeps its predecessors
<1>6. ASSUME NEW n \in W, n \notin Sources, NEW m \in G.nodes, <<m, n>> \in G.edges PROVE m \in W
  BY <1>1, <1>2, <1>6
<1>7. ASSUME NEW n \in g.skip PROVE n \notin Sources /\ \E m \in g.nodes : <<m, n>> \in g.normal
  <2>1. n \in G.skip /\ n \in W
    BY <1>3
  <2>2. n \notin Sources
    BY <2>1 DEF GoodGraph
  <2>3. PICK m \in G.nodes : <<m, n>> \in G.normal
    BY <2>1 DEF GoodGraph
  <2>4. <<m, n>> \in G.edges
    BY <1>4, <2>3
  <2>5. m \in W
    BY <1>6, <2>1, <2>2, <2>3, <2>4
  <2>6. <<m, n>> \in Within(W)
    BY <1>4, <2>1, <2>4, <2>5 DEF Within
  <2> QED
    BY <1>3, <2>2, <2>3, <2>5, <2>6
<1>8. ASSUME NEW c \in W \cap Cmds PROVE Outputs[c] \subseteq W
  <2> SUFFICES ASSUME NEW f \in Outputs[c] PROVE f \in W
    OBVIOUS
  <2>1. c \notin Sources /\ f \in G.nodes /\ <<c, f>> \in Links
    BY LinkFacts DEF GoodGraph, Sources
  <2>2. <<c, f>> \in G.edges
    BY <1>4, <2>1 DEF Within
  <2>3. t = {} \/ c \in K
    BY <1>2, <2>1
  <2> QED
    BY <1>1, <1>2, <2>1, <2>2, <2>3
<1>9. ASSUME NEW c \in Transient, NEW f \in Outputs[c], Listed(f, c, M, L), f \notin L, f \in W PROVE c \in W
  <2>1. f \in G.nodes /\ c \in G.nodes
    BY <1>4, <1>9 DEF GoodGraph
  <2>2. f \notin Sources /\ <<c, f>> \in Links
    BY TransientFacts, LinkFacts DEF Sources
  <2>3. <<c, f>> \in G.edges
    BY <1>4, <2>1, <2>2 DEF Within
  <2> QED
    BY <1>6, <1>9, <2>1, <2>2, <2>3
<1>10. g.skip \subseteq W /\ g.processing \subseteq W \cap TransientFiles /\ g.normal \subseteq g.edges
  BY <1>3, <1>4 DEF GoodGraph
<1>11. t = {} => W = G.nodes /\ g.processing = G.processing
  BY <1>2, <1>3 DEF GoodGraph
<1> HIDE DEF g, W
<1> QED
  BY <1>3, <1>4, <1>5, <1>7, <1>8, <1>9, <1>10, <1>11 DEF GoodGraph, g

-----------------------------------------------------------------------------
(***************************************************************************)
(* No transient file is forgotten: each step keeps TransientInv.           *)
(***************************************************************************)

(* A node that is ready is not skipped, for what it waits for would be in  *)
(* the graph: so without ^o no command is skipped.                         *)
LEMMA ReadyIsNotSkipped ==
    ASSUME LiveGraph, NEW n \in nodes, \A m \in nodes : <<m, n>> \notin edges
    PROVE  n \notin skip
<1>1. normal \subseteq edges /\ \A k \in skip : \E m \in nodes : <<m, k>> \in normal
  BY DEF LiveGraph
<1> QED
  BY <1>1

(* What is left when pop_node() has taken a node. *)
LEMMA PoppedLive ==
    ASSUME LiveGraph, NEW n \in nodes, \A m \in nodes : <<m, n>> \notin edges, Pop(n), n \notin processing,
           skip' \subseteq skip \ {n}, \A k \in skip' : <<n, k>> \notin normal,
           processing' = processing, delete' = delete \ {n}, targets' = targets,
           Running' \subseteq Running \ {n}
    PROVE  LiveGraph'
<1>1. nodes' = nodes \ {n} /\ edges' = edges \ Out(n, edges) /\ normal' = normal \ Out(n, normal)
  BY DEF Pop
<1>2. /\ nodes \subseteq Nodes /\ edges \subseteq nodes \X nodes /\ normal \subseteq edges
      /\ skip \subseteq nodes /\ processing \cup delete \subseteq nodes \cap TransientFiles
  BY DEF LiveGraph
<1>3. \A e \in edges : e = <<e[1], e[2]>> /\ e[1] \in nodes /\ e[2] \in nodes /\ e[2] # n
  BY <1>2
<1>4. \A m, k : m # n => /\ (<<m, k>> \in edges' <=> <<m, k>> \in edges)
                         /\ (<<m, k>> \in normal' <=> <<m, k>> \in normal)
  BY <1>1 DEF Out
<1>5. edges' \subseteq nodes' \X nodes' /\ normal' \subseteq edges' /\ edges' \subseteq edges
  BY <1>1, <1>2, <1>3 DEF Out
<1>6. ASSUME NEW k \in skip' PROVE \E m \in nodes' : <<m, k>> \in normal'
  <2>1. PICK m \in nodes : <<m, k>> \in normal
    BY DEF LiveGraph
  <2>2. m # n
    BY <2>1
  <2> QED
    BY <1>1, <1>4, <2>1, <2>2
<1>7. ASSUME NEW c \in nodes' \cap Cmds, NEW f \in Outputs[c] PROVE f \in nodes' /\ <<c, f>> \in edges'
  <2>1. c # n /\ c \in nodes /\ f \in nodes /\ <<c, f>> \in edges
    BY <1>1 DEF LiveGraph
  <2> QED
    BY <1>1, <1>4, <2>1
<1>8. ASSUME NEW k \in nodes'
      PROVE  /\ \A c \in Cmds : <<c, k>> \in edges' => k \in Outputs[c] \cup delete'
             /\ \A f \in Files : <<f, k>> \in edges' => k \in Cmds
             /\ \A f \in delete' : <<f, k>> \notin edges'
  <2>1. k \in nodes /\ k # n
    BY <1>1
  <2> QED
    BY <1>5, <2>1 DEF LiveGraph
<1>9. /\ skip' \subseteq nodes' /\ nodes' \subseteq Nodes
      /\ processing' \cup delete' \subseteq nodes' \cap TransientFiles
      /\ delete' \cap (skip' \cup processing') = {}
  BY <1>1, <1>2 DEF LiveGraph
<1>10. \A c \in Running' :
          c \in nodes' /\ Outputs[c] \cap skip' = {} /\ \A m \in nodes' : <<m, c>> \notin edges'
  BY <1>1, <1>5 DEF LiveGraph
<1>11. targets' = {} => \A c \in Transient \cap nodes' : Outputs[c] \subseteq processing'
  BY <1>1 DEF LiveGraph
<1> QED
  BY <1>5, <1>6, <1>7, <1>8, <1>9, <1>10, <1>11 DEF LiveGraph

(* A transient file is in no place from which it can be taken before its   *)
(* command is through.                                                     *)
LEMMA WriterIsThrough ==
    ASSUME TransientInv, phase = "update", NEW c \in Transient, NEW f \in Outputs[c], f \in nodes,
           \A m \in nodes : <<m, f>> \notin edges
    PROVE  c \notin nodes /\ (fs[f] # Gone => f \in tlist)
<1>1. c \in Cmds
  BY TransientFacts
<1>2. c \notin nodes
  BY <1>1 DEF TransientInv, LiveGraph
<1>3. Found(f, c)
  BY DEF TransientInv
<1> QED
  BY <1>2, <1>3 DEF Found

(* The parts of the invariant that are about types. *)
ListTypes ==
    /\ DOMAIN fs = Files /\ DOMAIN job = Cmds
    /\ modify \subseteq Nodes /\ tlist \subseteq Transient \cup TransientFiles
    /\ saved.modify \subseteq Nodes /\ saved.tlist \subseteq Transient \cup TransientFiles
    /\ touched \cup placed \cup targets \subseteq Files /\ phase \in {"idle", "scanned", "update"}

(* The invariant in an update, and outside of one.                         *)
LEMMA DuringUpdate ==
    ASSUME ListTypes', phase' = "update", LiveGraph', \A c \in Transient : \A f \in Outputs[c] : Found(f, c)'
    PROVE  TransientInv'
  BY DEF ListTypes, TransientInv, TransientFilesGone, Succeeded

LEMMA OutsideUpdate ==
    ASSUME ListTypes', phase' \in {"idle", "scanned"}, Running' = {},
           phase' = "scanned" => saved' = [modify |-> modify', tlist |-> tlist'],
           \A c \in Transient : \A f \in Outputs[c] : Found(f, c)', TransientFilesGone'
    PROVE  TransientInv'
  BY DEF ListTypes, TransientInv

(* At first there is no transient file, and every ^t command is listed.    *)
LEMMA TransientInit == ASSUME Init PROVE TransientInv
<1>1. Running = {} /\ DOMAIN fs = Files /\ DOMAIN job = Cmds
  BY DEF Init, Running
<1>2. /\ modify \subseteq Nodes /\ tlist \subseteq Transient \cup TransientFiles
      /\ saved.modify \subseteq Nodes /\ saved.tlist \subseteq Transient \cup TransientFiles
      /\ touched \cup placed \cup targets \subseteq Files /\ phase = "idle" /\ result = "none"
  BY DEF Init, Nodes
<1>3. ASSUME NEW c \in Transient, NEW f \in Outputs[c] PROVE Found(f, c)
  <2>1. fs[f] = Gone
    BY TransientFacts DEF Init, Sources
  <2> QED
    BY <2>1 DEF Found
<1> QED
  BY <1>1, <1>2, <1>3 DEF TransientInv, TransientFilesGone, Succeeded

(* The user edits sources, which no command writes.                        *)
LEMMA TransientEdit ==
    ASSUME TransientInv, NEW n \in Files, NEW v \in Values, Edit(n, v) PROVE TransientInv'
<1>1. /\ fs' = [fs EXCEPT ![n] = v] /\ touched' = touched \cup {n} /\ n \in Sources /\ fresh' = FALSE
      /\ UNCHANGED <<modify, tlist, saved, phase, targets, nodes, edges, normal, skip, processing,
                     delete, job, failed, placed>>
  BY DEF Edit, db, args, graph
<1>2. Running' = Running
  BY <1>1 DEF Running
<1>3. ASSUME NEW c \in Transient, NEW f \in Outputs[c] PROVE Found(f, c)'
  <2>1. f # n /\ f \in Files
    BY <1>1, TransientFacts DEF Sources
  <2>2. fs'[f] = fs[f] /\ Found(f, c)
    BY <1>1, <2>1 DEF TransientInv
  <2> QED
    BY <1>1, <2>2 DEF Found, Listed
<1>4. LiveGraph => LiveGraph'
  BY <1>1, <1>2 DEF LiveGraph
<1>5. TransientFilesGone'
  BY <1>1 DEF TransientFilesGone
<1>6. DOMAIN fs' = DOMAIN fs
  BY <1>1
<1> QED
  BY <1>1, <1>2, <1>3, <1>4, <1>5, <1>6 DEF TransientInv

(* A transient file that is changed by hand has another mtime.             *)
LEMMA TransientMeddle ==
    ASSUME TransientInv, NEW n \in Files, Meddle(n) PROVE TransientInv'
<1>1. /\ phase = "idle" /\ fresh' = FALSE
      /\ \/ fs' = [fs EXCEPT ![n] = Bad] /\ touched' = touched \cup {n}
         \/ fs' = [fs EXCEPT ![n] = Gone] /\ touched' = touched \ {n}
      /\ UNCHANGED <<modify, tlist, saved, phase, targets, job, placed>>
  BY DEF Meddle, db
<1>2. Running' = Running /\ DOMAIN fs' = DOMAIN fs
  BY <1>1 DEF Running
<1>3. ASSUME NEW c \in Transient, NEW f \in Outputs[c] PROVE Found(f, c)'
  <2>1. f \in Files /\ Found(f, c) /\ DOMAIN fs = Files
    BY TransientFacts DEF TransientInv
  <2>2. CASE f # n
    <3>1. fs'[f] = fs[f] /\ (f \in touched => f \in touched')
      BY <1>1, <2>1, <2>2
    <3> QED
      BY <1>1, <2>1, <3>1 DEF Found, Listed
  <2>3. CASE f = n
    <3>1. fs'[f] = Gone \/ f \in touched'
      BY <1>1, <2>1, <2>3
    <3> QED
      BY <1>1, <3>1 DEF Found
  <2> QED
    BY <2>2, <2>3
<1>5. TransientFilesGone'
  BY <1>1 DEF TransientFilesGone
<1>6. ListTypes'
  BY <1>1, <1>2 DEF ListTypes, TransientInv
<1> QED
  BY <1>1, <1>2, <1>3, <1>5, <1>6, OutsideUpdate DEF TransientInv

(* The scan flags it together with its command.                            *)
LEMMA TransientScan == ASSUME TransientInv, Scan PROVE TransientInv'
<1>1. /\ phase = "idle" /\ phase' = "scanned" /\ fs' = fs /\ job' = job
      /\ modify' = (modify \ Missing) \cup touched \cup {c \in Cmds : Outputs[c] \cap (touched \cup Missing) # {}}
      /\ tlist' = tlist /\ saved' = [modify |-> modify', tlist |-> tlist] /\ targets' = targets
      /\ touched' = {} /\ placed' = placed
  BY DEF Scan, args
<1>2. Running' = {}
  BY <1>1 DEF Running, TransientInv
<1>3. ASSUME NEW c \in Transient, NEW f \in Outputs[c] PROVE Found(f, c)'
  <2> SUFFICES ASSUME fs[f] # Gone PROVE Listed(f, c, modify', tlist)
    BY <1>1 DEF Found
  <2>1. f \in touched \/ Listed(f, c, modify, tlist)
    BY <1>1 DEF TransientInv, Found
  <2>2. f \notin Missing /\ c \notin Missing
    <3>1. Missing \subseteq Files
      BY LinkFacts DEF Missing, Generated
    <3>2. c \notin Files
      BY TransientFacts, LinkFacts
    <3> QED
      BY <3>1, <3>2 DEF Missing
  <2>3. c \in Cmds
    BY TransientFacts
  <2>4. CASE f \in touched
    BY <1>1, <2>3, <2>4 DEF Listed
  <2>5. CASE Listed(f, c, modify, tlist)
    BY <1>1, <2>2, <2>5 DEF Listed
  <2> QED
    BY <2>1, <2>4, <2>5
<1>4. ListTypes'
  <2>1. modify' \subseteq Nodes
    BY <1>1, LinkFacts DEF TransientInv
  <2> QED
    BY <1>1, <2>1 DEF ListTypes, TransientInv
<1>5. TransientFilesGone'
  BY <1>1 DEF TransientFilesGone, Succeeded
<1> QED
  BY <1>1, <1>2, <1>3, <1>4, <1>5, OutsideUpdate

(* process_update_nodes() makes the graph of the lists that were saved. *)
LEMMA TransientBegin ==
    ASSUME TransientsAreRead, TransientInv, ProcessUpdateNodes PROVE TransientInv'
<1>1. PICK t \in Targets \cup {{}}, k \in BOOLEAN :
          IF Graph(modify, tlist).error THEN BeginError(t) ELSE Begin(t, k, Pruned(Graph(modify, tlist), t))
  BY DEF ProcessUpdateNodes
<1>2. phase = "scanned" /\ saved = [modify |-> modify, tlist |-> tlist] /\ Running = {}
  BY DEF ProcessUpdateNodes, TransientInv
<1>3. t \subseteq Files
  BY UpdateAssumption
<1>4. CASE Graph(modify, tlist).error
  <2>1. /\ phase' = "idle" /\ result' = "error" /\ targets' = t
        /\ UNCHANGED <<fs, touched, modify, tlist, saved, job, placed>>
    BY <1>1, <1>4 DEF BeginError, disk, db
  <2>2. Running' = {}
    BY <1>2, <2>1 DEF Running
  <2>3. ListTypes' /\ TransientFilesGone'
    BY <1>3, <2>1 DEF ListTypes, TransientInv, TransientFilesGone, Succeeded
  <2>4. ASSUME NEW c \in Transient, NEW f \in Outputs[c] PROVE Found(f, c)'
    BY <1>2, <2>1 DEF TransientInv, Found, Listed
  <2> QED
    BY <2>1, <2>2, <2>3, <2>4, OutsideUpdate
<1>5. CASE ~Graph(modify, tlist).error
  <2> DEFINE G == Graph(modify, tlist)
             g == Pruned(G, t)
  <2>1. /\ phase' = "update" /\ targets' = t
        /\ nodes' = g.nodes /\ edges' = g.edges /\ normal' = g.normal /\ skip' = g.skip
        /\ processing' = g.processing /\ delete' = {} /\ modify' = modify \cup g.pruned
        /\ UNCHANGED <<fs, touched, tlist, saved, job, placed>>
    BY <1>1, <1>5 DEF Begin
  <2>2. Lists(modify, tlist)
    BY DEF Lists, TransientInv
  <2>3. /\ GoodGraph(G, modify, tlist) /\ G.processing = G.nodes \cap TransientFiles
        /\ \A c \in Transient : \A f \in Outputs[c] : Listed(f, c, modify, tlist) => f \in G.nodes
    BY <1>5, <2>2, GraphFacts
  <2> HIDE DEF G
  <2>4. /\ GoodGraph(g, modify, tlist) /\ g.pruned \subseteq Cmds
        /\ t = {} => g.nodes = G.nodes /\ g.processing = G.processing
    BY <2>3, PrunedIsGood
  <2> HIDE DEF g
  <2>5. Running' = {}
    BY <1>2, <2>1 DEF Running
  <2>6. /\ nodes' \subseteq Nodes /\ edges' = Within(nodes') /\ normal' \subseteq edges'
        /\ skip' \subseteq nodes' /\ processing' \subseteq nodes' \cap TransientFiles
        /\ \A n \in skip' : \E m \in nodes' : <<m, n>> \in normal'
        /\ \A c \in nodes' \cap Cmds : Outputs[c] \subseteq nodes'
    BY <2>1, <2>4 DEF GoodGraph
  <2>7. LiveGraph'
    <3>1. edges' \subseteq nodes' \X nodes'
      <4>1. \A e \in Links : e = <<e[1], e[2]>>
        BY DEF Links
      <4> QED
        BY <2>6, <4>1 DEF Within
    <3>2. ASSUME NEW c \in nodes' \cap Cmds, NEW f \in Outputs[c] PROVE f \in nodes' /\ <<c, f>> \in edges'
      <4>1. f \in nodes' /\ <<c, f>> \in Links
        BY <2>6, LinkFacts
      <4> QED
        BY <2>6, <4>1 DEF Within
    <3>3. ASSUME NEW c \in Cmds, NEW n \in nodes', <<c, n>> \in edges' PROVE n \in Outputs[c]
      <4>1. <<c, n>> \in Links
        BY <2>6, <3>3 DEF Within
      <4> QED
        BY <4>1, LinkKinds, LinkFacts
    <3>4. ASSUME NEW f \in Files, NEW n \in nodes', <<f, n>> \in edges' PROVE n \in Cmds
      <4>1. <<f, n>> \in Links
        BY <2>6, <3>4 DEF Within
      <4> QED
        BY <4>1, LinkKinds, LinkFacts
    <3>5. ASSUME targets' = {}, NEW c \in Transient \cap nodes' PROVE Outputs[c] \subseteq processing'
      <4>1. processing' = nodes' \cap TransientFiles
        BY <2>1, <2>3, <2>4, <3>5
      <4>2. Outputs[c] \subseteq nodes' /\ Outputs[c] \subseteq TransientFiles
        BY <2>6, GraphAssumption, TransientFacts
      <4> QED
        BY <4>1, <4>2
    <3> QED
      BY <2>1, <2>5, <2>6, <3>1, <3>2, <3>3, <3>4, <3>5 DEF LiveGraph
  <2>8. ASSUME NEW c \in Transient, NEW f \in Outputs[c] PROVE Found(f, c)'
    <3> SUFFICES ASSUME fs[f] # Gone PROVE Found(f, c)'
      BY <2>1 DEF Found
    <3>1. Listed(f, c, modify, tlist)
      BY <1>2 DEF TransientInv, Found
    <3>2. Listed(f, c, modify', tlist') /\ Listed(f, c, saved'.modify, saved'.tlist)
      BY <1>2, <2>1, <3>1 DEF Listed
    <3>3. f \in tlist \/ (f \in nodes' => c \in nodes')
      BY <2>1, <2>4, <3>1 DEF GoodGraph
    <3>4. targets' = {} => f \in processing'
      <4>1. f \in G.nodes /\ f \in TransientFiles
        BY <2>3, <3>1, TransientFacts
      <4> QED
        BY <2>1, <2>3, <2>4, <4>1
    <3> QED
      BY <2>1, <3>2, <3>3, <3>4 DEF Found
  <2>9. ListTypes'
    <3>1. modify' \subseteq Nodes
      BY <2>1, <2>4, LinkFacts DEF TransientInv
    <3> QED
      BY <1>3, <2>1, <3>1 DEF ListTypes, TransientInv
  <2> QED
    BY <2>1, <2>7, <2>8, <2>9, DuringUpdate
<1> QED
  BY <1>4, <1>5

(* The whole of a step of update_work() that pops a node. *)
LEMMA TransientVisitFile ==
    ASSUME TransientInv, NEW n \in Files, VisitFile(n) PROVE TransientInv'
<1> DEFINE next == IF n \in skip THEN {} ELSE ModifyOutputs(n)
<1>1. /\ phase = "update" /\ n \in nodes /\ n \notin processing \cup delete
      /\ \A m \in nodes : <<m, n>> \notin edges
      /\ modify' = (modify \cup (next \cap Cmds)) \ {n} /\ skip' = (skip \ next) \ {n} /\ Pop(n)
      /\ UNCHANGED <<fs, touched, tlist, saved, phase, targets, processing, delete, job, placed>>
  BY DEF VisitFile, Ready, disk, args
<1> HIDE DEF next
<1>2. LiveGraph /\ nodes' = nodes \ {n}
  BY <1>1 DEF TransientInv, Pop
<1>3. n \notin skip
  BY <1>1, <1>2, ReadyIsNotSkipped
<1>4. Running' = Running /\ n \notin Running
  BY <1>1, LinkFacts DEF Running
<1>5. \A k \in skip' : <<n, k>> \notin normal
  <2>1. \A k \in skip : <<n, k>> \in normal => k \in next
    BY <1>2, <1>3 DEF next, ModifyOutputs, LiveGraph
  <2> QED
    BY <1>1, <2>1
<1>6. LiveGraph'
  BY <1>1, <1>2, <1>4, <1>5, PoppedLive
<1>7. ASSUME NEW c \in Transient, NEW f \in Outputs[c] PROVE Found(f, c)'
  <2>1. Found(f, c) /\ c \in Cmds /\ c # n
    BY TransientFacts, LinkFacts DEF TransientInv
  <2>2. CASE f = n
    <3>1. c \notin nodes /\ (fs[f] # Gone => f \in tlist)
      BY <1>1, <2>2, WriterIsThrough
    <3> QED
      BY <1>1, <1>2, <2>1, <2>2, <3>1 DEF Found, Listed
  <2>3. CASE f # n
    BY <1>1, <1>2, <2>1, <2>3 DEF Found, Listed
  <2> QED
    BY <2>2, <2>3
<1>8. ListTypes'
  <2>1. modify' \subseteq Nodes
    BY <1>1, LinkFacts DEF TransientInv
  <2> QED
    BY <1>1, <2>1 DEF ListTypes, TransientInv
<1> QED
  BY <1>1, <1>6, <1>7, <1>8, DuringUpdate

(* The first visit of a transient file: its edges are turned round. *)
LEMMA TransientFirstVisit ==
    ASSUME TransientInv, NEW n \in Files, VisitTransient(n) PROVE TransientInv'
<1> DEFINE next == IF n \in skip THEN {} ELSE ModifyOutputs(n)
           back == From(n) \X {n}
<1>1. /\ phase = "update" /\ n \in nodes /\ n \in processing
      /\ \A m \in nodes : <<m, n>> \notin edges
      /\ modify' = (modify \cup (next \cap Cmds)) \ {n} /\ skip' = skip \ next
      /\ edges' = (edges \ Out(n, edges)) \cup back /\ normal' = (normal \ Out(n, normal)) \cup back
      /\ processing' = processing \ {n} /\ delete' = delete \cup {n}
      /\ UNCHANGED <<fs, touched, tlist, saved, phase, targets, nodes, job, placed>>
  BY DEF VisitTransient, Ready, disk, args
<1>2. LiveGraph
  BY <1>1 DEF TransientInv
<1>3. n \notin skip
  BY <1>1, <1>2, ReadyIsNotSkipped
<1>4. Running' = Running
  BY <1>1 DEF Running
<1>5. \A k \in skip' : k \in skip /\ <<n, k>> \notin normal
  <2>1. \A k \in skip : <<n, k>> \in normal => k \in next
    BY <1>2, <1>3 DEF ModifyOutputs, LiveGraph
  <2> HIDE DEF next
  <2> QED
    BY <1>1, <2>1
<1> HIDE DEF next
<1>6. /\ \A m, k : <<m, k>> \in edges' <=> (<<m, k>> \in edges /\ m # n) \/ (k = n /\ m \in From(n))
      /\ \A m, k : m # n /\ <<m, k>> \in normal => <<m, k>> \in normal'
      /\ normal' \subseteq edges'
  <2>1. normal \subseteq edges
    BY <1>2 DEF LiveGraph
  <2> QED
    BY <1>1, <2>1 DEF Out
<1>7. \A m \in From(n) : m \in nodes /\ <<n, m>> \in edges /\ m \in Cmds /\ m \notin Files
  BY <1>2, LinkFacts DEF From, LiveGraph
<1> HIDE DEF back
<1>8. edges' \subseteq nodes' \X nodes'
  <2>1. edges \subseteq nodes \X nodes
    BY <1>2 DEF LiveGraph
  <2> QED
    BY <1>1, <1>7, <2>1 DEF back
<1>9. LiveGraph'
  <2>1. ASSUME NEW k \in skip' PROVE \E m \in nodes' : <<m, k>> \in normal'
    <3>1. PICK m \in nodes : <<m, k>> \in normal
      BY <1>2, <1>5 DEF LiveGraph
    <3>2. m # n
      BY <1>5, <3>1
    <3> QED
      BY <1>1, <1>6, <3>1, <3>2
  <2>2. ASSUME NEW c \in nodes' \cap Cmds, NEW f \in Outputs[c] PROVE f \in nodes' /\ <<c, f>> \in edges'
    <3>1. c # n /\ f \in nodes /\ <<c, f>> \in edges
      BY <1>1, <1>2, LinkFacts DEF LiveGraph
    <3> QED
      BY <1>1, <1>6, <3>1
  <2>3. ASSUME NEW k \in nodes'
        PROVE  /\ \A c \in Cmds : <<c, k>> \in edges' => k \in Outputs[c] \cup delete'
               /\ \A f \in Files : <<f, k>> \in edges' => k \in Cmds
    BY <1>1, <1>2, <1>6, <1>7 DEF LiveGraph
  <2>4. ASSUME NEW f \in delete', NEW k \in nodes' PROVE <<f, k>> \notin edges'
    <3>1. f \in Files
      BY <1>1, <1>2, TransientFacts DEF LiveGraph, TransientFiles
    <3>2. f \notin From(n)
      BY <1>7, <3>1
    <3>3. f # n => <<f, k>> \notin edges
      BY <1>1, <1>2 DEF LiveGraph
    <3> QED
      BY <1>6, <3>2, <3>3
  <2>5. delete' \cap (skip' \cup processing') = {}
    BY <1>1, <1>2, <1>3 DEF LiveGraph
  <2>6. /\ nodes' \subseteq Nodes /\ skip' \subseteq nodes'
        /\ processing' \cup delete' \subseteq nodes' \cap TransientFiles
    BY <1>1, <1>2 DEF LiveGraph
  <2>7. ASSUME NEW c \in Running'
        PROVE  c \in nodes' /\ Outputs[c] \cap skip' = {} /\ \A m \in nodes' : <<m, c>> \notin edges'
    <3>1. c \in Running /\ c \in Cmds /\ c # n
      BY <1>4, LinkFacts DEF Running
    <3>2. c \in nodes /\ Outputs[c] \cap skip = {} /\ \A m \in nodes : <<m, c>> \notin edges
      BY <1>2, <3>1 DEF LiveGraph
    <3> QED
      BY <1>1, <1>6, <3>1, <3>2
  <2>8. ASSUME targets' = {}, NEW c \in Transient \cap nodes' PROVE Outputs[c] \subseteq processing'
    <3>1. c \in nodes \cap Cmds /\ Outputs[c] \subseteq processing
      BY <1>1, <1>2, <2>8, GraphAssumption DEF LiveGraph
    <3>2. n \notin Outputs[c]
      BY <1>1, <1>2, <3>1 DEF LiveGraph
    <3> QED
      BY <1>1, <3>1, <3>2
  <2> QED
    BY <1>6, <1>8, <2>1, <2>2, <2>3, <2>4, <2>5, <2>6, <2>7, <2>8 DEF LiveGraph
<1>10. ASSUME NEW c \in Transient, NEW f \in Outputs[c] PROVE Found(f, c)'
  <2>1. Found(f, c) /\ c \in Cmds /\ c # n
    BY TransientFacts, LinkFacts DEF TransientInv
  <2>2. CASE f = n
    <3>1. c \notin nodes /\ (fs[f] # Gone => f \in tlist)
      BY <1>1, <2>2, WriterIsThrough
    <3> QED
      BY <1>1, <2>1, <2>2, <3>1 DEF Found, Listed
  <2>3. CASE f # n
    BY <1>1, <2>1, <2>3 DEF Found, Listed
  <2> QED
    BY <2>2, <2>3
<1>11. ListTypes'
  <2>1. modify' \subseteq Nodes
    BY <1>1, LinkFacts DEF TransientInv
  <2> QED
    BY <1>1, <2>1 DEF ListTypes, TransientInv
<1> QED
  BY <1>1, <1>9, <1>10, <1>11, DuringUpdate

(* The second visit deletes it. *)
LEMMA TransientSecondVisit ==
    ASSUME TransientInv, NEW n \in Files, DeleteTransient(n) PROVE TransientInv'
<1>1. /\ phase = "update" /\ n \in nodes /\ n \in delete
      /\ \A m \in nodes : <<m, n>> \notin edges
      /\ modify' = modify \ {n}
      /\ UNCHANGED <<saved, phase, targets, processing, job>>
  BY DEF DeleteTransient, Ready, args
<1>2. LiveGraph /\ DOMAIN fs = Files
  BY <1>1 DEF TransientInv
<1>3. Running' = Running /\ n \notin Running /\ n \notin processing
  BY <1>1, <1>2, LinkFacts DEF Running, LiveGraph
<1>4. CASE fs[n] # Gone
  <2>1. /\ fs' = [fs EXCEPT ![n] = Gone] /\ touched' = touched \ {n} /\ placed' = placed \ {n}
        /\ tlist' = tlist \ {n} /\ delete' = delete \ {n} /\ skip' = skip \ {n} /\ Pop(n)
    BY <1>4 DEF DeleteTransient
  <2>2. \A k \in skip' : <<n, k>> \notin normal
    BY <1>1, <1>2, <2>1 DEF LiveGraph
  <2>3. LiveGraph'
    BY <1>1, <1>2, <1>3, <2>1, <2>2, PoppedLive
  <2>4. ASSUME NEW c \in Transient, NEW f \in Outputs[c] PROVE Found(f, c)'
    <3>1. Found(f, c) /\ c \in Cmds /\ c # n /\ f \in Files
      BY TransientFacts, LinkFacts DEF TransientInv
    <3>2. CASE f = n
      <4>1. fs'[f] = Gone
        BY <1>2, <2>1, <3>2
      <4> QED
        BY <4>1 DEF Found
    <3>3. CASE f # n
      <4>1. fs'[f] = fs[f] /\ nodes' = nodes \ {n}
        BY <1>2, <2>1, <3>1, <3>3 DEF Pop
      <4> QED
        BY <1>1, <2>1, <3>1, <3>3, <4>1 DEF Found, Listed
    <3> QED
      BY <3>2, <3>3
  <2>5. DOMAIN fs' = Files
    BY <1>2, <2>1
  <2>6. ListTypes'
    BY <1>1, <2>1, <2>5 DEF ListTypes, TransientInv
  <2> QED
    BY <1>1, <2>3, <2>4, <2>6, DuringUpdate
<1>5. CASE fs[n] = Gone
  <2>1. UNCHANGED <<fs, touched, placed, tlist, delete, nodes, edges, normal, skip>>
    BY <1>5 DEF DeleteTransient
  <2>2. LiveGraph'
    BY <1>1, <1>2, <1>3, <2>1 DEF LiveGraph
  <2>3. ASSUME NEW c \in Transient, NEW f \in Outputs[c] PROVE Found(f, c)'
    <3>1. Found(f, c) /\ c \in Cmds /\ c # n
      BY TransientFacts, LinkFacts DEF TransientInv
    <3> QED
      BY <1>1, <1>5, <2>1, <3>1 DEF Found, Listed
  <2>4. ListTypes'
    BY <1>1, <2>1 DEF ListTypes, TransientInv
  <2> QED
    BY <1>1, <2>2, <2>3, <2>4, DuringUpdate
<1> QED
  BY <1>4, <1>5

(* Without ^o no command is skipped: something before it unskips it.       *)
LEMMA TransientSkip == ASSUME TransientInv, NEW n \in Cmds, SkipCmd(n) PROVE FALSE
<1>1. phase = "update" /\ n \in nodes /\ n \in skip /\ \A m \in nodes : <<m, n>> \notin edges
  BY DEF SkipCmd, Ready
<1> QED
  BY <1>1, ReadyIsNotSkipped DEF TransientInv

(* A command that starts unlinks its outputs.                              *)
LEMMA TransientStart ==
    ASSUME Compare = {}, TransientInv, NEW n \in Cmds, StartCmd(n) PROVE TransientInv'
<1>1. /\ phase = "update" /\ n \in nodes /\ skip' = skip \ OldOutputs(n)
      /\ \A m \in nodes : <<m, n>> \notin edges
      /\ fs' = [f \in Files |-> IF f \in OldOutputs(n) THEN Gone ELSE fs[f]]
      /\ job' = [job EXCEPT ![n] = Written(n, fs)]
      /\ UNCHANGED <<touched, modify, tlist, saved, phase, targets, nodes, edges, normal, processing,
                     delete, placed>>
  BY DEF StartCmd, Ready, UnlinkOutputs, db, args
<1>2. LiveGraph
  BY <1>1 DEF TransientInv
<1>3. Running' \subseteq Running \cup {n}
  BY <1>1 DEF Running, TransientInv
<1>4. Outputs[n] \cap skip' = {}
  <2> SUFFICES ASSUME NEW f \in Outputs[n], f \in skip' PROVE FALSE
    OBVIOUS
  <2>1. f \in From(n)
    BY <1>1, <1>2 DEF From, LiveGraph
  <2>2. f \notin delete
    BY <1>1, <1>2 DEF LiveGraph
  <2> QED
    BY <1>1, <2>1, <2>2 DEF OldOutputs
<1>5. LiveGraph'
  <2>1. \A c \in Running' :
            c \in nodes' /\ Outputs[c] \cap skip' = {} /\ \A m \in nodes' : <<m, c>> \notin edges'
    BY <1>1, <1>2, <1>3, <1>4 DEF LiveGraph
  <2>2. skip' \subseteq skip
    BY <1>1
  <2> QED
    BY <1>1, <1>2, <2>1, <2>2 DEF LiveGraph
<1>6. ASSUME NEW c \in Transient, NEW f \in Outputs[c] PROVE Found(f, c)'
  <2>1. Found(f, c) /\ f \in Files
    BY TransientFacts DEF TransientInv
  <2>2. fs'[f] = Gone \/ fs'[f] = fs[f]
    BY <1>1, <2>1
  <2> QED
    BY <1>1, <2>1, <2>2 DEF Found, Listed
<1>7. ListTypes'
  <2>1. DOMAIN fs' = Files /\ DOMAIN job' = Cmds
    BY <1>1 DEF TransientInv
  <2> QED
    BY <1>1, <2>1 DEF ListTypes, TransientInv
<1> QED
  BY <1>1, <1>5, <1>6, <1>7, DuringUpdate

(* A ^t command that succeeds puts its output in the transient list.       *)
LEMMA TransientEnd ==
    ASSUME Compare = {}, TransientInv, NEW n \in Cmds, EndCmd(n) PROVE TransientInv'
<1> DEFINE next == NextCmds(n, skip)
<1>1. /\ n \in Running /\ job[n] # Gone
      /\ WriteFiles(n, [f \in Outputs[n] |-> job[n]], {}) /\ Through(n, skip, MarkTransientOutputs(n))
      /\ job' = [job EXCEPT ![n] = NoJob]
      /\ UNCHANGED <<saved, phase, targets, processing, delete>>
  BY DEF EndCmd, args
<1>2. /\ fs' = [f \in Files |-> IF f \in Outputs[n] THEN job[n] ELSE fs[f]]
      /\ touched' = touched \ Outputs[n] /\ placed' = placed \cup Outputs[n]
      /\ modify' = (modify \cup (next \cap Cmds)) \ {n} /\ skip' = (skip \ next) \ {n}
      /\ tlist' = MarkTransientOutputs(n) \ {n} /\ Pop(n)
  BY <1>1 DEF WriteFiles, Through
<1> HIDE DEF next
<1>3. phase = "update" /\ LiveGraph /\ DOMAIN job = Cmds
  BY <1>1 DEF TransientInv
<1>4. n \in nodes /\ Outputs[n] \cap skip = {} /\ \A m \in nodes : <<m, n>> \notin edges
  BY <1>1, <1>3 DEF LiveGraph
<1>5. Running' \subseteq Running \ {n}
  BY <1>1, <1>3 DEF Running
<1>6. n \notin processing \cup delete /\ n \notin Files /\ n \in Nodes
  BY <1>3, TransientFacts, LinkFacts DEF LiveGraph, TransientFiles
<1>7. LiveGraph'
  <2>1. \A k \in skip : <<n, k>> \notin normal
    BY <1>3, <1>4 DEF LiveGraph
  <2> QED
    BY <1>1, <1>2, <1>3, <1>4, <1>5, <1>6, <2>1, PoppedLive
<1>8. tlist \ {n} \subseteq tlist' /\ \A f \in Outputs[n] : n \in Transient => f \in tlist'
  BY <1>2, <1>6, LinkFacts DEF MarkTransientOutputs
<1>9. ASSUME NEW c \in Transient, NEW f \in Outputs[c] PROVE Found(f, c)'
  <2>1. Found(f, c) /\ c \in Cmds /\ f \in Files /\ nodes' = nodes \ {n}
    BY <1>2, TransientFacts DEF TransientInv, Pop
  <2>2. CASE c = n
    <3>1. f \in tlist' /\ f \in placed'
      BY <1>2, <1>8, <2>2
    <3>2. targets = {} => f \in processing
      BY <1>3, <1>4, <2>2 DEF LiveGraph
    <3> QED
      BY <1>1, <1>3, <3>1, <3>2 DEF Found, Listed
  <2>3. CASE c # n
    <3>1. f \notin Outputs[n]
      BY <2>1, <2>3, OneWriter
    <3>2. fs'[f] = fs[f] /\ (f \in touched => f \in touched') /\ (f \in placed => f \in placed')
      BY <1>2, <2>1, <3>1
    <3>3. (f \in tlist => f \in tlist') /\ (c \in tlist => c \in tlist')
      BY <1>6, <1>8, <2>1, <2>3
    <3>4. (f \in modify => f \in modify') /\ (c \in modify => c \in modify')
      BY <1>2, <1>6, <2>1, <2>3
    <3> QED
      BY <1>1, <1>3, <2>1, <2>3, <3>2, <3>3, <3>4 DEF Found, Listed
  <2> QED
    BY <2>2, <2>3
<1>10. ListTypes'
  <2>1. modify' \subseteq Nodes
    BY <1>2, LinkFacts DEF TransientInv
  <2>2. tlist' \subseteq Transient \cup TransientFiles
    BY <1>2 DEF TransientInv, MarkTransientOutputs, TransientFiles
  <2>3. placed' \subseteq Files /\ touched' \subseteq Files /\ targets' \subseteq Files
    BY <1>1, <1>2, LinkFacts DEF TransientInv
  <2>4. DOMAIN fs' = Files /\ DOMAIN job' = Cmds
    BY <1>1, <1>2, <1>3
  <2> QED
    BY <1>1, <2>1, <2>2, <2>3, <2>4 DEF ListTypes, TransientInv
<1> QED
  BY <1>1, <1>3, <1>7, <1>9, <1>10, DuringUpdate

(* A command leaves the graph as it is when it fails. *)
LEMMA FailedLive ==
    ASSUME LiveGraph, NEW n, Running' \subseteq Running,
           UNCHANGED <<targets, nodes, edges, normal, skip, processing, delete>>
    PROVE  LiveGraph'
  BY DEF LiveGraph

(* A ^t command that fails is not to leave its output.                     *)
LEMMA TransientFail ==
    ASSUME Compare = {}, TransientInv, FailedLeaveNothing', NEW n \in Cmds,
           NEW left \in [Outputs[n] -> Values \cup {Gone, Bad}], FailCmd(n, left)
    PROVE  TransientInv'
<1>1. /\ n \in Running /\ failed' = failed \cup {n} /\ job' = [job EXCEPT ![n] = NoJob]
      /\ WriteFiles(n, left, RestoreOutputs(n)) /\ RestoreOutputs(n) = {}
      /\ UNCHANGED <<modify, tlist, saved, phase, targets, nodes, edges, normal, skip, processing, delete>>
  BY DEF FailCmd, RestoreOutputs, db, args, graph
<1>2. /\ fs' = [f \in Files |-> IF f \in Outputs[n] THEN left[f] ELSE fs[f]]
      /\ touched' = touched \ Outputs[n] /\ placed \subseteq placed' /\ placed' \subseteq placed \cup Outputs[n]
  BY <1>1 DEF WriteFiles
<1>3. phase = "update" /\ LiveGraph /\ DOMAIN job = Cmds
  BY <1>1 DEF TransientInv
<1>4. LiveGraph'
  <2>1. Running' \subseteq Running
    BY <1>1, <1>3 DEF Running
  <2> QED
    BY <1>1, <1>3, <2>1, FailedLive
<1>5. ASSUME NEW c \in Transient, NEW f \in Outputs[c] PROVE Found(f, c)'
  <2>1. Found(f, c) /\ c \in Cmds /\ f \in Files
    BY TransientFacts DEF TransientInv
  <2>2. CASE c = n
    <3>1. fs'[f] = Gone
      BY <1>1, <2>2 DEF FailedLeaveNothing
    <3> QED
      BY <3>1 DEF Found
  <2>3. CASE c # n
    <3>1. f \notin Outputs[n]
      BY <2>1, <2>3, OneWriter
    <3>2. fs'[f] = fs[f] /\ (f \in touched => f \in touched') /\ (f \in placed => f \in placed')
      BY <1>2, <2>1, <3>1
    <3> QED
      BY <1>1, <1>3, <2>1, <3>2 DEF Found, Listed
  <2> QED
    BY <2>2, <2>3
<1>6. ListTypes'
  <2>1. placed' \subseteq Files /\ touched' \subseteq Files
    BY <1>2, LinkFacts DEF TransientInv
  <2>2. DOMAIN fs' = Files /\ DOMAIN job' = Cmds
    BY <1>1, <1>2, <1>3
  <2> QED
    BY <1>1, <2>1, <2>2 DEF ListTypes, TransientInv
<1> QED
  BY <1>1, <1>3, <1>4, <1>5, <1>6, DuringUpdate

(* A command that could not be run leaves nothing.                         *)
LEMMA TransientExecError ==
    ASSUME TransientInv, NEW n \in Cmds, ExecError(n) PROVE TransientInv'
<1>1. /\ n \in Running /\ job' = [job EXCEPT ![n] = NoJob]
      /\ UNCHANGED <<fs, touched, modify, tlist, saved, phase, targets, nodes, edges, normal, skip,
                     processing, delete, placed>>
  BY DEF ExecError, disk, db, args, graph
<1>2. phase = "update" /\ LiveGraph /\ DOMAIN job = Cmds
  BY <1>1 DEF TransientInv
<1>3. LiveGraph'
  <2>1. Running' \subseteq Running
    BY <1>1, <1>2 DEF Running
  <2> QED
    BY <1>1, <1>2, <2>1, FailedLive
<1>4. ASSUME NEW c \in Transient, NEW f \in Outputs[c] PROVE Found(f, c)'
  BY <1>1 DEF TransientInv, Found, Listed
<1>5. ListTypes'
  BY <1>1, <1>2 DEF ListTypes, TransientInv
<1> QED
  BY <1>1, <1>2, <1>3, <1>4, <1>5, DuringUpdate

(* A signal changes no file.                                               *)
LEMMA TransientInterrupt == ASSUME TransientInv, Interrupt PROVE TransientInv'
<1>1. /\ phase = "update"
      /\ UNCHANGED <<fs, touched, modify, tlist, saved, phase, targets, nodes, edges, normal, skip,
                     processing, delete, placed, job>>
  BY DEF Interrupt, disk, db, args, graph
<1>2. Running' = Running
  BY <1>1 DEF Running
<1>3. LiveGraph'
  <2>1. LiveGraph /\ Running' \subseteq Running
    BY <1>1, <1>2 DEF TransientInv
  <2> QED
    BY <1>1, <2>1, FailedLive
<1>4. ASSUME NEW c \in Transient, NEW f \in Outputs[c] PROVE Found(f, c)'
  BY <1>1 DEF TransientInv, Found, Listed
<1>5. ListTypes'
  BY <1>1 DEF ListTypes, TransientInv
<1> QED
  BY <1>1, <1>3, <1>4, <1>5, DuringUpdate

(* At the end of an update that succeeds the graph is empty, and with it   *)
(* what was to be deleted.                                                 *)
LEMMA TransientEndUpdate == ASSUME TransientInv, EndUpdate PROVE TransientInv'
<1>1. /\ phase = "update" /\ phase' = "idle" /\ Running = {}
      /\ result' = "ok" => nodes = {}
      /\ placed' = {} /\ UNCHANGED <<fs, touched, modify, tlist, targets, job>>
      /\ saved' = [modify |-> modify, tlist |-> tlist]
  BY DEF EndUpdate, disk
<1>2. Running' = {}
  BY <1>1 DEF Running
<1>3. ASSUME NEW c \in Transient, NEW f \in Outputs[c] PROVE Found(f, c)'
  BY <1>1 DEF TransientInv, Found, Listed
<1>4. TransientFilesGone'
  <2> SUFFICES ASSUME result' = "ok", targets' = {}, NEW f \in TransientFiles PROVE fs'[f] = Gone
    BY DEF TransientFilesGone, Succeeded
  <2>1. PICK c \in Transient : f \in Outputs[c]
    BY DEF TransientFiles
  <2>2. Found(f, c) /\ LiveGraph
    BY <1>1, <2>1 DEF TransientInv
  <2> QED
    BY <1>1, <2>2 DEF Found, LiveGraph
<1>5. ListTypes'
  BY <1>1 DEF ListTypes, TransientInv
<1> QED
  BY <1>1, <1>2, <1>3, <1>4, <1>5, OutsideUpdate

(* A kill goes back to the lists of the last commit; what was written since *)
(* has another mtime.                                                      *)
LEMMA TransientKill ==
    ASSUME TransientInv, NEW W \in SUBSET Generated, Kill(W) PROVE TransientInv'
<1>1. /\ phase = "update" /\ phase' = "idle" /\ result' = "fail"
      /\ fs' = [f \in Files |-> IF f \in W THEN Bad ELSE fs[f]]
      /\ touched' = touched \cup placed \cup W
      /\ modify' = saved.modify /\ tlist' = saved.tlist
      /\ job' = [c \in Cmds |-> NoJob] /\ placed' = {} /\ UNCHANGED <<saved, targets>>
  BY DEF Kill
<1>2. Running' = {}
  BY <1>1 DEF Running
<1>3. ASSUME NEW c \in Transient, NEW f \in Outputs[c] PROVE Found(f, c)'
  <2>1. Found(f, c) /\ f \in Files
    BY TransientFacts DEF TransientInv
  <2>2. CASE f \in W
    BY <1>1, <2>2 DEF Found
  <2>3. CASE f \notin W
    <3>1. fs'[f] = fs[f]
      BY <1>1, <2>1, <2>3
    <3> QED
      BY <1>1, <2>1, <3>1 DEF Found, Listed
  <2> QED
    BY <2>2, <2>3
<1>4. TransientFilesGone'
  BY <1>1 DEF TransientFilesGone, Succeeded
<1>5. ListTypes'
  <2>1. W \subseteq Files
    BY LinkFacts DEF Generated
  <2> QED
    BY <1>1, <2>1 DEF ListTypes, TransientInv
<1> QED
  BY <1>1, <1>2, <1>3, <1>4, <1>5, OutsideUpdate

(* Every step keeps the invariant.                                         *)
LEMMA TransientStep ==
    ASSUME Compare = {}, TransientsAreRead, TransientInv, FailedLeaveNothing', [Next]_vars
    PROVE  TransientInv'
<1>1. ASSUME NEW f \in Files, VisitFile(f) \/ VisitTransient(f) \/ DeleteTransient(f) PROVE TransientInv'
  BY <1>1, TransientVisitFile, TransientFirstVisit, TransientSecondVisit
<1>2. ASSUME NEW f \in Files, NEW v \in Values, Edit(f, v) PROVE TransientInv'
  BY <1>2, TransientEdit
<1>3. ASSUME NEW f \in Files, Meddle(f) PROVE TransientInv'
  BY <1>3, TransientMeddle
<1>4. ASSUME NEW c \in Cmds, SkipCmd(c) \/ StartCmd(c) \/ EndCmd(c) PROVE TransientInv'
  BY <1>4, TransientSkip, TransientStart, TransientEnd
<1>5. ASSUME NEW c \in Cmds, ExecError(c) PROVE TransientInv'
  BY <1>5, TransientExecError
<1>6. ASSUME NEW c \in Cmds, NEW left \in [Outputs[c] -> Values \cup {Gone, Bad}], FailCmd(c, left) PROVE TransientInv'
  BY <1>6, TransientFail
<1>7. ASSUME NEW W \in SUBSET Generated, Kill(W) PROVE TransientInv'
  BY <1>7, TransientKill
<1>8. Scan \/ ProcessUpdateNodes \/ Interrupt \/ EndUpdate => TransientInv'
  BY TransientScan, TransientBegin, TransientInterrupt, TransientEndUpdate
<1>9. UNCHANGED vars => TransientInv'
  <2> SUFFICES ASSUME UNCHANGED vars PROVE TransientInv'
    OBVIOUS
  <2> USE DEF vars
  <2>1. Running' = Running
    BY DEF Running
  <2>2. LiveGraph => LiveGraph'
    BY <2>1 DEF LiveGraph
  <2>3. \A c \in Transient : \A f \in Outputs[c] : Found(f, c) => Found(f, c)'
    BY DEF Found, Listed
  <2>4. TransientFilesGone => TransientFilesGone'
    BY DEF TransientFilesGone, Succeeded
  <2> QED
    BY <2>1, <2>2, <2>3, <2>4 DEF TransientInv
<1> QED
  BY <1>1, <1>2, <1>3, <1>4, <1>5, <1>6, <1>7, <1>8, <1>9 DEF Next, Step, Fault

(* In projects without ^o in which transient files are read, a transient   *)
(* file that exists is always in a list from which process_update_nodes()  *)
(* will find it, or is going to be deleted in this update (graph.c:468,    *)
(* updater.c:2152); as long as no ^t command fails and leaves its output.  *)
THEOREM TransientInvariance ==
    ASSUME Compare = {}, TransientsAreRead PROVE Spec /\ []FailedLeaveNothing => []TransientInv
<1>1. Init => TransientInv
  BY TransientInit
<1>2. TransientInv /\ FailedLeaveNothing' /\ [Next]_vars => TransientInv'
  BY TransientStep
<1> QED
  BY <1>1, <1>2, PTL DEF Spec

(* Then an update of everything that succeeds leaves no transient file,    *)
(* whatever was edited, meddled with, killed, interrupted or updated in    *)
(* part before.                                                            *)
THEOREM NoTransientStays ==
    ASSUME Compare = {}, TransientsAreRead PROVE Spec /\ []FailedLeaveNothing => []TransientFilesGone
<1>1. TransientInv => TransientFilesGone
  BY DEF TransientInv
<1> QED
  BY <1>1, TransientInvariance, PTL

=============================================================================
