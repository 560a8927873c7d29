-------------------------- MODULE InputLinksProofs --------------------------
(***************************************************************************)
(* Machine-checked proofs about updates that succeed, whatever was edited, *)
(* declared, failed or was killed before, in any project without           *)
(* allow_read: no command is left out of date; and, where commands read    *)
(* what they declare and ^o commands come first, what each one read would  *)
(* be accepted today, and comes before it along the declarations alone.    *)
(***************************************************************************)
EXTENDS InputLinksInv, TLAPS

-----------------------------------------------------------------------------
(***************************************************************************)
(* The links.                                                              *)
(***************************************************************************)
LEMMA OutLinksAre ==
    /\ \A c, f : <<c, f>> \in OutLinks <=> c \in Cmds /\ f \in Outputs[c]
    /\ OutLinks \subseteq Cmds \X Generated
    /\ Generated \subseteq Files
    /\ \A c \in Cmds : Outputs[c] \subseteq Generated
    /\ \A f \in Generated : \E c \in Cmds : f \in Outputs[c]
    /\ Cmds \cap Files = {}
BY LinksAssumption DEF OutLinks, Generated

LEMMA StickyLinksAre ==
    ASSUME Shapes
    PROVE  /\ \A f, c : <<f, c>> \in StickyLinks <=> c \in Cmds /\ f \in rule[c].sticky
           /\ \A c \in Cmds : /\ rule[c].sticky \subseteq Files
                              /\ rule[c].reads \subseteq Files
                              /\ rule[c].sticky \cap Outputs[c] = {}
<1>1. \A c \in Cmds : rule[c] \in [sticky : SUBSET (Files \ Outputs[c]), reads : SUBSET Files,
                                    writes : SUBSET Files]
  BY LinksAssumption DEF Shapes
<1> QED
  BY <1>1 DEF StickyLinks

(* A file is written by one command. *)
LEMMA OneProducer ==
    ASSUME NEW c \in Cmds, NEW d \in Cmds, NEW f \in Outputs[c], f \in Outputs[d]
    PROVE  c = d
BY LinksAssumption

(* Reached() is the least set that no edge leaves. *)
LEMMA ReachedIsLeast ==
    ASSUME NEW S \in SUBSET Nodes, NEW E, NEW C \in SUBSET Nodes, S \subseteq C, Closed(C, E)
    PROVE  Reached(S, E) \subseteq C
<1>1. C = S \cup (C \ S) /\ C \ S \in SUBSET (Nodes \ S)
  OBVIOUS
<1>2. C \in {S \cup T : T \in SUBSET (Nodes \ S)}
  BY <1>1
<1> QED
  BY <1>2 DEF Reached

LEMMA ReachedIsClosed ==
    ASSUME NEW S \in SUBSET Nodes, NEW E \in SUBSET (Nodes \X Nodes)
    PROVE  /\ S \subseteq Reached(S, E) /\ Reached(S, E) \subseteq Nodes
           /\ \A n, m : <<n, m>> \in E /\ n \in Reached(S, E) => m \in Reached(S, E)
<1>1. S \subseteq Reached(S, E) /\ Reached(S, E) \subseteq Nodes
  BY DEF Reached
<1>2. ASSUME NEW n, NEW m, <<n, m>> \in E, n \in Reached(S, E) PROVE m \in Reached(S, E)
  <2>1. m \in Nodes /\ <<n, m>>[1] = n /\ <<n, m>>[2] = m
    BY <1>2
  <2>2. ASSUME NEW C \in {S \cup T : T \in SUBSET (Nodes \ S)}, Closed(C, E) PROVE m \in C
    <3>1. n \in C
      BY <1>2, <2>2 DEF Reached
    <3> QED
      BY <1>2, <2>1, <2>2, <3>1 DEF Closed
  <2> QED
    BY <2>1, <2>2 DEF Reached
<1> QED
  BY <1>1, <1>2

(* What ActualLinks() makes of the links. *)
LEMMA ActualLinksAre ==
    ASSUME Shapes, NEW c \in Cmds, Reads(c) \subseteq Files
    PROVE  /\ ActualLinks(c) \subseteq Files \X Cmds
           /\ \A f \in Files, d \in Cmds \ {c} : <<f, d>> \in ActualLinks(c) <=> <<f, d>> \in links
           /\ \A f \in Files : <<f, c>> \in ActualLinks(c) <=>
                  f \in Reads(c) /\ (<<f, c>> \in links \/ f \notin MissingInputs(c))
<1>1. links \subseteq Files \X Cmds
  BY DEF Shapes
<1>2. \A f, d : <<f, d>>[1] = f /\ <<f, d>>[2] = d
  OBVIOUS
<1> QED
  BY <1>1, <1>2 DEF ActualLinks

(* The inputs that are accepted are out of reach of what is still to be made. *)
LEMMA Accepted ==
    ASSUME Shapes, \A d \in Cmds : Allowed[d] = {},
           NEW c \in Cmds, NEW C \in SUBSET Made, Barred(C, c), Reads(c) \subseteq Files,
           NEW f \in Reads(c), f \notin MissingInputs(c)
    PROVE  f \notin C
<1> SUFFICES ASSUME f \in C PROVE FALSE
  OBVIOUS
<1>1. f \in Generated /\ f \notin rule[c].sticky /\ C \subseteq Nodes
  BY OutLinksAre, LinksAssumption DEF Made, Barred, Nodes
<1>2. Reached({f}, links \cup OutLinks) \subseteq C
  BY <1>1, ReachedIsLeast DEF Barred
<1>3. ~Connected(f, c)
  BY <1>2 DEF Connected, Barred
<1> QED
  BY <1>1, <1>3 DEF MissingInputs

-----------------------------------------------------------------------------
(***************************************************************************)
(* Between two updates.                                                    *)
(***************************************************************************)
LEMMA EditStep ==
    ASSUME IndInv, NEW f \in Files, NEW v \in Values, Edit(f, v)
    PROVE  IndInv'
<1> USE DEF IndInv
<1>1. phase = "idle" /\ phase' = "idle" /\ DOMAIN fs = Files
  BY DEF Edit, Shapes
<1>2. /\ fs'[f] = v /\ \A g \in Files \ {f} : fs'[g] = fs[g]
      /\ DOMAIN fs' = Files /\ touched' = touched \cup {f}
      /\ result' = "none" /\ f \in Sources
      /\ UNCHANGED <<rule, links, modify, job, placed, seen, masked>>
  BY <1>1 DEF Edit
<1>3. Shapes'
  BY <1>1, <1>2 DEF Shapes, Running
<1>4. LinksAreReads(links, modify)'
  BY <1>2 DEF LinksAreReads
<1>5. Noticed(modify, touched \cup modify)'
  <2> SUFFICES ASSUME ~masked', NEW c \in Cmds \ modify', NEW g \in Files, Stale(c, g)'
               PROVE  g \in touched' \cup modify' \/ Lost(g)' \/ Remade(g, modify)'
    BY DEF Noticed
  <2>1. CASE g = f
    BY <1>2, <2>1
  <2>2. CASE g # f
    <3>1. fs'[g] = fs[g] /\ Stale(c, g)
      BY <1>2, <2>2 DEF Stale
    <3> QED
      BY <1>1, <1>2, <3>1 DEF Noticed, Lost, Remade
  <2> QED
    BY <2>1, <2>2
<1> QED
  BY <1>1, <1>2, <1>3, <1>4, <1>5 DEF SeenIsCurrent, Succeeded

LEMMA WriteInputsStep ==
    ASSUME IndInv, NEW c \in Cmds, NEW r \in Rules[c], WriteInputs(c, r)
    PROVE  IndInv'
<1> USE DEF IndInv
<1> DEFINE removed == RmSticky(c, rule[c].sticky, r.sticky)
           script  == r.reads # rule[c].reads \/ r.writes # rule[c].writes
<1>1. phase = "idle" /\ phase' = "idle" /\ result' = "none"
  BY DEF WriteInputs
<1>2. /\ rule' = [rule EXCEPT ![c] = r]
      /\ links' = links \ removed
      /\ modify' = IF removed # {} \/ script THEN modify \cup {c} ELSE modify
      /\ UNCHANGED <<fs, touched, job, placed, seen, masked>>
  BY DEF WriteInputs, disk
<1>3. rule'[c] = r /\ \A d \in Cmds \ {c} : rule'[d] = rule[d]
  BY <1>2 DEF Shapes
<1>4. Shapes'
  BY <1>1, <1>2, <1>3 DEF Shapes, Running
<1>5. modify \subseteq modify' /\ modify' \subseteq Nodes
  BY <1>1, <1>2 DEF Nodes
<1>6. \A g, d : <<g, d>> \in removed => d = c
  BY DEF RmSticky
<1>7. LinksAreReads(links, modify)'
  <2> SUFFICES ASSUME NEW d \in Cmds \ modify'
               PROVE  /\ DOMAIN seen'[d] = rule'[d].reads \ Outputs[d]
                      /\ \A f \in Files : <<f, d>> \in links' <=> f \in DOMAIN seen'[d]
    BY DEF LinksAreReads
  <2>1. CASE d = c
    <3>1. removed = {} /\ ~script
      BY <1>2, <2>1
    <3> QED
      BY <1>2, <1>3, <1>5, <2>1, <3>1 DEF LinksAreReads
  <2>2. CASE d # c
    <3>1. rule'[d] = rule[d] /\ \A f \in Files : <<f, d>> \in links' <=> <<f, d>> \in links
      BY <1>2, <1>3, <1>6, <2>2
    <3> QED
      BY <1>2, <1>5, <3>1 DEF LinksAreReads
  <2> QED
    BY <2>1, <2>2
<1>8. Noticed(modify, touched \cup modify)'
  BY <1>1, <1>2, <1>5 DEF Noticed, Stale, Lost, Remade
<1> QED
  BY <1>1, <1>4, <1>5, <1>7, <1>8 DEF SeenIsCurrent, Succeeded

LEMMA ScanStep ==
    ASSUME IndInv, Scan
    PROVE  IndInv'
<1> USE DEF IndInv
<1> DEFINE missing == {f \in Generated : fs[f] = Gone}
           makers  == {c \in Cmds : Outputs[c] \cap (touched \cup missing) # {}}
<1>1. phase = "idle" /\ phase' = "scanned" /\ Running = {}
  BY DEF Scan, Shapes
<1>2. /\ modify' = (modify \ missing) \cup touched \cup makers
      /\ touched' = {} /\ saved' = [links |-> links', modify |-> modify']
      /\ UNCHANGED <<fs, rule, links, job, placed, seen, masked>>
  BY DEF Scan
<1>3. Shapes'
  BY <1>1, <1>2 DEF Shapes, Running
<1>4. \A c \in Cmds : c \in modify => c \in modify'
  BY <1>2, OutLinksAre
<1>5. LinksAreReads(links, modify)'
  BY <1>2, <1>4 DEF LinksAreReads
<1>6. modify' \subseteq Nodes
  BY <1>1, <1>2 DEF Shapes, Nodes
<1>7. ASSUME ~masked', NEW c \in Cmds \ modify', NEW f \in Files, Stale(c, f)'
      PROVE  f \in modify' \/ Unskips(f, modify)'
  <2>1. Stale(c, f) /\ c \notin modify
    BY <1>2, <1>4, <1>7 DEF Stale
  <2>2. f \in touched \cup modify \/ Lost(f) \/ Remade(f, modify)
    BY <1>1, <1>2, <1>7, <2>1 DEF Noticed
  <2>3. Lost(f) => Unskips(f, modify)'
    <3> SUFFICES ASSUME Lost(f) PROVE Unskips(f, modify)'
      OBVIOUS
    <3>1. PICK d \in Cmds : f \in Outputs[d]
      BY OutLinksAre DEF Lost
    <3>2. d \in makers
      BY <3>1 DEF Lost
    <3> QED
      BY <1>2, <3>1, <3>2 DEF Unskips, Lost
  <2>4. Remade(f, modify) => Unskips(f, modify)'
    BY <1>4 DEF Remade, Unskips
  <2>5. f \in touched \cup modify => f \in modify' \/ Lost(f)
    BY <1>2 DEF Lost
  <2> QED
    BY <2>2, <2>3, <2>4, <2>5
<1>8. ScannedInv'
  BY <1>2, <1>6, <1>7 DEF ScannedInv
<1> QED
  BY <1>1, <1>3, <1>5, <1>8 DEF SeenIsCurrent, Succeeded

LEMMA BuildGraphStep ==
    ASSUME IndInv, BuildGraph
    PROVE  IndInv'
<1> USE DEF IndInv
<1> DEFINE L == links \cup OutLinks
           N == Reached(modify, L)
           Within(E) == {e \in E : e[1] \in N /\ e[2] \in N}
<1>1. phase = "scanned" /\ phase' = "update" /\ Running = {} /\ ScannedInv
  BY DEF BuildGraph, Shapes
<1>2. /\ nodes' = N /\ normal' = Within(L) /\ edges' = Within(L \cup StickyLinks)
      /\ skip' = N \ modify
      /\ UNCHANGED <<fs, touched, rule, links, modify, saved, job, placed, seen, masked>>
  BY DEF BuildGraph, disk
<1>3. Shapes' /\ Running' = {}
  BY <1>1, <1>2 DEF Shapes, Running
<1>4. L \subseteq Nodes \X Nodes /\ StickyLinks \subseteq Nodes \X Nodes
  <2>1. L \subseteq Nodes \X Nodes
    BY OutLinksAre DEF Shapes, Nodes
  <2>2. StickyLinks \subseteq Nodes \X Nodes
    BY StickyLinksAre DEF StickyLinks, Nodes
  <2> QED
    BY <2>1, <2>2
<1>5. /\ modify \subseteq N /\ N \subseteq Nodes
      /\ \A n, m : <<n, m>> \in L /\ n \in N => m \in N
  BY <1>1, <1>4, ReachedIsClosed DEF ScannedInv
<1>6. /\ \A n, m : <<n, m>> \in normal' <=> <<n, m>> \in L /\ n \in N /\ m \in N
      /\ \A n, m : <<n, m>> \in edges' <=> <<n, m>> \in L \cup StickyLinks /\ n \in N /\ m \in N
      /\ normal' \subseteq L /\ edges' \subseteq N \X N
  BY <1>2, <1>4
<1>7. GraphInv'
  <2>1. touched' = {} /\ modify' \subseteq nodes' /\ nodes' \subseteq Nodes
    BY <1>1, <1>2, <1>5 DEF ScannedInv
  <2>2. normal' \subseteq edges' /\ edges' \subseteq nodes' \X nodes'
    BY <1>2, <1>6
  <2>3. normal' \subseteq (Files \X Cmds) \cup OutLinks
    BY <1>6 DEF Shapes
  <2>4. \A d \in Cmds \cap nodes' : \A f \in Outputs[d] : <<d, f>> \in normal'
    BY <1>2, <1>5, <1>6, OutLinksAre
  <2>5. \A f \in Generated \cap nodes', c \in Cmds : <<f, c>> \in links' => <<f, c>> \in normal'
    BY <1>2, <1>5, <1>6
  <2>6. \A c \in Cmds \cap nodes' : \A f \in rule'[c].sticky \cap nodes' : <<f, c>> \in edges'
    BY <1>2, <1>6, StickyLinksAre
  <2>7. /\ \A c \in Cmds \cap nodes' : c \in skip' <=> c \notin modify'
        /\ modify' \cap skip' = {}
    BY <1>2
  <2> QED
    BY <2>1, <2>2, <2>3, <2>4, <2>5, <2>6, <2>7 DEF GraphInv
<1>8. Ahead'
  <2> SUFFICES ASSUME ~masked', NEW c \in Cmds \ modify', NEW f \in Files, Stale(c, f)'
               PROVE  <<f, c>> \in normal' /\ (f \in modify' \/ Unskips(f, modify)')
    BY DEF Ahead
  <2>1. Stale(c, f) /\ f \in DOMAIN seen[c]
    BY <1>2 DEF Stale
  <2>2. f \in modify \/ Unskips(f, modify)
    BY <1>1, <1>2, <2>1 DEF ScannedInv
  <2>3. f \in N
    BY <1>5, <2>2, OutLinksAre DEF Unskips
  <2>4. <<f, c>> \in links
    BY <1>2, <2>1 DEF LinksAreReads
  <2> QED
    BY <1>2, <1>5, <1>6, <2>2, <2>3, <2>4 DEF Unskips
<1>9. /\ LinksAreReads(links, modify)' /\ LinksAreReads(saved.links, saved.modify)'
      /\ saved'.links \subseteq Files \X Cmds /\ saved'.modify \subseteq Nodes
  BY <1>1, <1>2 DEF LinksAreReads, ScannedInv, Shapes
<1>10. Noticed(saved.modify, saved.modify \cup placed)'
  BY <1>1, <1>2, OutLinksAre DEF Noticed, ScannedInv, Stale, Lost, Remade, Unskips
<1> QED
  BY <1>1, <1>2, <1>3, <1>7, <1>8, <1>9, <1>10
     DEF UpdateInv, RunningInv, Kept, SeenIsCurrent, Succeeded

LEMMA EndUpdateStep ==
    ASSUME IndInv, EndUpdate
    PROVE  IndInv'
<1> USE DEF IndInv
<1>1. phase = "update" /\ phase' = "idle" /\ Running = {} /\ UpdateInv
  BY DEF EndUpdate
<1>2. /\ (result' = "ok" => nodes = {}) /\ placed' = {}
      /\ UNCHANGED <<fs, touched, rule, links, modify, job, seen, masked>>
  BY DEF EndUpdate, disk
<1>3. Shapes'
  BY <1>1, <1>2 DEF Shapes, Running, UpdateInv, GraphInv
<1>4. LinksAreReads(links, modify)'
  BY <1>2 DEF LinksAreReads
<1>5. Noticed(modify, touched \cup modify)'
  BY <1>1, <1>2, OutLinksAre DEF Noticed, UpdateInv, Ahead, Stale, Lost, Remade, Unskips
<1>6. modify' \subseteq Nodes
  BY <1>1, <1>2 DEF UpdateInv, GraphInv
<1>7. SeenIsCurrent'
  <2> SUFFICES ASSUME result' = "ok", ~masked', NEW c \in Cmds, NEW f \in DOMAIN seen'[c]
               PROVE  seen'[c][f] = fs'[f]
    BY DEF SeenIsCurrent, Succeeded
  <2>1. modify = {} /\ normal = {}
    BY <1>1, <1>2 DEF UpdateInv, GraphInv
  <2>2. ~Stale(c, f) /\ f \in DOMAIN seen[c]
    BY <1>1, <1>2, <2>1 DEF UpdateInv, Ahead, Shapes
  <2> QED
    BY <1>2, <2>2 DEF Stale
<1> QED
  BY <1>1, <1>3, <1>4, <1>5, <1>6, <1>7

LEMMA KillStep ==
    ASSUME IndInv, Kill
    PROVE  IndInv'
<1> USE DEF IndInv
<1>1. phase = "update" /\ phase' = "idle" /\ UpdateInv
  BY DEF Kill
<1>2. /\ links' = saved.links /\ modify' = saved.modify
      /\ touched' = {f \in placed : fs[f] # Gone}
      /\ job' = [c \in Cmds |-> NoJob] /\ result' = "fail" /\ placed' = {}
      /\ UNCHANGED <<fs, rule, seen, masked>>
  BY <1>1 DEF Kill, UpdateInv, GraphInv
<1>3. Shapes'
  BY <1>1, <1>2, OutLinksAre DEF Shapes, Running, UpdateInv
<1>4. LinksAreReads(links, modify)'
  BY <1>1, <1>2 DEF LinksAreReads, UpdateInv
<1>5. Noticed(modify, touched \cup modify)' /\ modify' \subseteq Nodes
  BY <1>1, <1>2 DEF Noticed, UpdateInv, Stale, Lost, Remade, Shapes
<1> QED
  BY <1>1, <1>2, <1>3, <1>4, <1>5 DEF SeenIsCurrent, Succeeded

-----------------------------------------------------------------------------
(***************************************************************************)
(* The graph, when a node is popped.                                       *)
(***************************************************************************)
LEMMA GraphPop ==
    ASSUME Shapes, GraphInv, NEW n \in nodes, \A m \in nodes : <<m, n>> \notin edges, Pop(n),
           NEW skipped \in SUBSET skip, skipped \cap Cmds = skip \cap Cmds,
           NEW next \in SUBSET (nodes \cap Cmds),
           modify' = (modify \cup next) \ {n}, skip' = (skipped \ next) \ {n},
           touched' = {}, rule' = rule,
           \A f \in Generated \cap nodes, c \in Cmds :
               <<f, c>> \in links' => f = n \/ <<f, c>> \in links
    PROVE  GraphInv'
<1> USE DEF GraphInv
<1>1. nodes' = nodes \ {n}
  BY DEF Pop
<1>2. /\ edges' \subseteq edges /\ normal' \subseteq normal
      /\ \A a, b : <<a, b>> \in edges' <=> <<a, b>> \in edges /\ a # n
      /\ \A a, b : <<a, b>> \in normal' <=> <<a, b>> \in normal /\ a # n
  BY DEF Pop
<1>3. normal' \subseteq edges'
  BY <1>2 DEF Pop
<1>4. edges' \subseteq nodes' \X nodes'
  BY <1>1, <1>2
<1>5. \A d \in Cmds \cap nodes' : \A f \in Outputs[d] : <<d, f>> \in normal'
  BY <1>1, <1>2
<1>6. \A f \in Generated \cap nodes', c \in Cmds : <<f, c>> \in links' => <<f, c>> \in normal'
  BY <1>1, <1>2
<1>7. \A c \in Cmds \cap nodes' : \A f \in rule'[c].sticky \cap nodes' : <<f, c>> \in edges'
  BY <1>1, <1>2
<1>8. \A c \in Cmds \cap nodes' : c \in skip' <=> c \notin modify'
  BY <1>1
<1>9. modify' \cap skip' = {} /\ modify' \subseteq nodes' /\ nodes' \subseteq Nodes
  BY <1>1
<1> QED
  BY <1>2, <1>3, <1>4, <1>5, <1>6, <1>7, <1>8, <1>9

(* modify_outputs() of a file, and of the outputs of a command *)
LEMMA ModifyOutputsAre ==
    ASSUME GraphInv
    PROVE  /\ \A f \in Files : ModifyOutputs(f) \subseteq nodes \cap Cmds
           /\ \A f \in Files : \A c : <<f, c>> \in normal => c \in ModifyOutputs(f)
           /\ \A d \in Cmds : ModifyOutputs(d) \subseteq Outputs[d]
           /\ \A d \in Cmds \cap nodes : Outputs[d] \subseteq ModifyOutputs(d)
           /\ \A d \in Cmds \cap nodes : Outputs[d] \subseteq nodes \cap Generated
<1>1. \A n, m : <<n, m>> \in normal =>
          /\ n \in nodes /\ m \in nodes
          /\ (n \in Files /\ m \in Cmds) \/ (n \in Cmds /\ m \in Outputs[n])
  BY OutLinksAre DEF GraphInv
<1>2. \A d \in Cmds \cap nodes : \A f \in Outputs[d] : <<d, f>> \in normal /\ f \in Generated
  BY OutLinksAre DEF GraphInv
<1>3. \A n : n \notin Files \/ n \notin Cmds
  BY OutLinksAre
<1> QED
  BY <1>1, <1>2, <1>3 DEF ModifyOutputs

(* A command goes on while others start and end. *)
LEMMA GoesOn ==
    ASSUME Shapes, GraphInv, NEW x \in Running, RunningAt(x),
           x \in nodes' \cap modify', nodes' \subseteq nodes, edges' \subseteq edges,
           skip' \subseteq skip, rule' = rule, job'[x] = job[x],
           NEW n \in Made \cap nodes, \A l \in links' : l \in links \/ l[2] = n,
           \A f \in Files : fs'[f] = fs[f] \/ (f \in nodes \cap Generated /\ f \notin Outputs[x])
    PROVE  RunningAt(x)'
<1> USE DEF RunningAt
<1>1. PICK C \in SUBSET Made : Barred(C, x) /\ \A f \in Reads(x) \ C : job[x].seen[f] = fs[f]
  OBVIOUS
<1>2. x \in Cmds /\ Outputs[x] \subseteq Files /\ Reads(x)' = Reads(x) /\ Reads(x) \subseteq Files
  BY OutLinksAre, StickyLinksAre DEF Running, Reads
<1>3. Barred(C, x)'
  <2>1. n \in C
    BY <1>1 DEF Barred
  <2>2. Closed(C, links' \cup OutLinks)
    BY <1>1, <2>1 DEF Barred, Closed
  <2> QED
    BY <1>1, <2>2 DEF Barred
<1>4. \A f \in Reads(x) \ C : job'[x].seen[f] = fs'[f]
  <2> TAKE f \in Reads(x) \ C
  <2>1. f \notin nodes \cap Made
    BY <1>1 DEF Barred
  <2> QED
    BY <1>1, <1>2, <2>1 DEF Made
<1>5. \E D \in SUBSET Made : Barred(D, x)' /\ \A f \in Reads(x)' \ D : job'[x].seen[f] = fs'[f]
  BY <1>2, <1>3, <1>4
<1>6. \A f \in Outputs[x] : fs'[f] = Gone
  BY <1>2
<1>7. Reads(x)' = rule'[x].reads \ Outputs[x]
  BY <1>2
<1>8. \A m \in nodes' : <<m, x>> \notin edges'
  OBVIOUS
<1>9. x \notin Compare => Outputs[x] \cap skip' = {}
  OBVIOUS
<1> QED
  BY <1>5, <1>6, <1>7, <1>8, <1>9 DEF Made

LEMMA VisitFileStep ==
    ASSUME IndInv, NEW f \in Files, VisitFile(f)
    PROVE  IndInv'
<1> USE DEF IndInv
<1> DEFINE next == IF f \in skip THEN {} ELSE ModifyOutputs(f)
<1>1. /\ phase = "update" /\ phase' = "update" /\ UpdateInv
      /\ f \in nodes /\ \A m \in nodes : <<m, f>> \notin edges
      /\ modify' = (modify \cup next) \ {f} /\ skip' = (skip \ next) \ {f} /\ Pop(f)
      /\ UNCHANGED <<fs, touched, rule, links, saved, job, placed, seen, masked>>
  BY DEF VisitFile, Ready, disk
<1>2. GraphInv /\ RunningInv /\ Ahead /\ Kept(modify, modify) /\ f \notin Cmds
  BY <1>1, OutLinksAre DEF UpdateInv
<1>3. next \in SUBSET (nodes \cap Cmds)
  BY <1>2, ModifyOutputsAre
<1>4. Shapes' /\ Running' = Running
  BY <1>1 DEF Shapes, Running
<1>5. GraphInv'
  <2>1. touched' = {} /\ skip \in SUBSET skip
    BY <1>1, <1>2 DEF GraphInv
  <2> QED
    BY <1>1, <1>2, <1>3, <2>1, GraphPop
<1>6. nodes' = nodes \ {f} /\ \A a, b : <<a, b>> \in normal' <=> <<a, b>> \in normal /\ a # f
  BY <1>1 DEF Pop
<1>7. RunningInv'
  <2> SUFFICES ASSUME NEW x \in Running PROVE RunningAt(x)'
    BY <1>4 DEF RunningInv
  <2>1. RunningAt(x) /\ x \in Cmds /\ x \in nodes \cap modify
    BY <1>2 DEF RunningInv, RunningAt, Running
  <2>2. x \in nodes' \cap modify' /\ x \in Made
    BY <1>1, <1>2, <1>6, <2>1 DEF Made
  <2>3. nodes' \subseteq nodes /\ edges' \subseteq edges /\ skip' \subseteq skip
    BY <1>1 DEF Pop
  <2> QED
    BY <1>1, <1>2, <2>1, <2>2, <2>3, GoesOn
<1>8. \A c \in Cmds : c \in modify => c \in modify'
  BY <1>1, <1>2
<1>9. Ahead'
  <2> SUFFICES ASSUME ~masked', NEW c \in Cmds \ modify', NEW g \in Files, Stale(c, g)'
               PROVE  <<g, c>> \in normal' /\ (g \in modify' \/ Unskips(g, modify)')
    BY DEF Ahead
  <2>1. Stale(c, g) /\ c \notin modify
    BY <1>1, <1>8 DEF Stale
  <2>2. <<g, c>> \in normal /\ (g \in modify \/ Unskips(g, modify))
    BY <1>1, <1>2, <2>1 DEF Ahead
  <2>3. CASE g = f
    <3>1. CASE f \in modify
      BY <1>1, <1>2, <2>2, <2>3, <3>1, ModifyOutputsAre DEF GraphInv
    <3>2. CASE Unskips(f, modify)
      BY <1>1, <1>2, <3>2 DEF GraphInv, Unskips
    <3> QED
      BY <2>2, <2>3, <3>1, <3>2
  <2>4. CASE g # f
    BY <1>1, <1>6, <1>8, <2>2, <2>4 DEF Unskips
  <2> QED
    BY <2>3, <2>4
<1>10. Kept(modify, modify)'
  <2> SUFFICES ASSUME ~masked', NEW d \in Running \cap Compare, NEW c \in Cmds \ modify',
                      NEW g \in Outputs[d] \ modify', g \in DOMAIN seen[c]
               PROVE  job[d].old[g] \in {Gone, seen[c][g]}
    BY <1>1, <1>4 DEF Kept
  <2>1. g \notin modify
    <3>1. <<d, g>> \in normal /\ d \in nodes
      BY <1>2 DEF RunningInv, RunningAt, GraphInv, Running
    <3> QED
      BY <1>1, <1>2, <3>1 DEF GraphInv
  <2> QED
    BY <1>1, <1>2, <1>8, <2>1 DEF Kept
<1>11. LinksAreReads(links, modify)'
  BY <1>1, <1>8 DEF LinksAreReads
<1>12. /\ Kept(saved.modify, saved.modify \cup placed)'
       /\ saved'.links \subseteq Files \X Cmds /\ saved'.modify \subseteq Nodes
       /\ LinksAreReads(saved.links, saved.modify)'
       /\ Noticed(saved.modify, saved.modify \cup placed)'
  BY <1>1, <1>4 DEF UpdateInv, Kept, LinksAreReads, Noticed, Stale, Lost, Remade
<1> QED
  BY <1>1, <1>4, <1>5, <1>7, <1>9, <1>10, <1>11, <1>12 DEF UpdateInv, SeenIsCurrent, Succeeded

LEMMA SkipCmdStep ==
    ASSUME IndInv, NEW d \in Cmds, SkipCmd(d)
    PROVE  IndInv'
<1> USE DEF IndInv
<1> DEFINE next == UNION {ModifyOutputs(f) : f \in (ModifyOutputs(d) \ skip)}
<1>1. /\ phase = "update" /\ phase' = "update" /\ UpdateInv
      /\ d \in nodes /\ d \in skip /\ \A m \in nodes : <<m, d>> \notin edges
      /\ modify' = (modify \cup next) \ {d} /\ skip' = (skip \ next) \ {d} /\ Pop(d)
      /\ UNCHANGED <<fs, touched, rule, links, saved, job, placed, seen, masked>>
  BY DEF SkipCmd, Ready, Through, disk
<1>2. GraphInv /\ RunningInv /\ Ahead /\ Kept(modify, modify) /\ d \notin Files
  BY <1>1, OutLinksAre DEF UpdateInv
<1>3. next \in SUBSET (nodes \cap Cmds)
  <2>1. ModifyOutputs(d) \subseteq Files
    BY <1>2, ModifyOutputsAre, OutLinksAre
  <2> QED
    BY <1>2, <2>1, ModifyOutputsAre
<1>4. Shapes' /\ Running' = Running /\ d \notin modify
  BY <1>1, <1>2 DEF Shapes, Running, GraphInv
<1>5. GraphInv'
  <2>1. touched' = {} /\ skip \in SUBSET skip
    BY <1>1, <1>2 DEF GraphInv
  <2> QED
    BY <1>1, <1>2, <1>3, <2>1, GraphPop
<1>6. nodes' = nodes \ {d} /\ \A a, b : <<a, b>> \in normal' <=> <<a, b>> \in normal /\ a # d
  BY <1>1 DEF Pop
<1>7. modify \subseteq modify'
  BY <1>1, <1>4
<1>8. RunningInv'
  <2> SUFFICES ASSUME NEW x \in Running PROVE RunningAt(x)'
    BY <1>4 DEF RunningInv
  <2>1. RunningAt(x) /\ x \in Cmds /\ x \in nodes \cap modify
    BY <1>2 DEF RunningInv, RunningAt, Running
  <2>2. x \in nodes' \cap modify' /\ x \in Made
    BY <1>4, <1>6, <1>7, <2>1 DEF Made
  <2>3. nodes' \subseteq nodes /\ edges' \subseteq edges /\ skip' \subseteq skip
    BY <1>1 DEF Pop
  <2> QED
    BY <1>1, <1>2, <2>1, <2>2, <2>3, GoesOn
<1>9. Ahead'
  <2> SUFFICES ASSUME ~masked', NEW c \in Cmds \ modify', NEW g \in Files, Stale(c, g)'
               PROVE  <<g, c>> \in normal' /\ (g \in modify' \/ Unskips(g, modify)')
    BY DEF Ahead
  <2>1. Stale(c, g) /\ c \notin modify
    BY <1>1, <1>7 DEF Stale
  <2>2. <<g, c>> \in normal /\ (g \in modify \/ Unskips(g, modify))
    BY <1>1, <1>2, <2>1 DEF Ahead
  <2> QED
    BY <1>1, <1>2, <1>6, <1>7, <2>2 DEF Unskips
<1>10. Kept(modify, modify)' /\ LinksAreReads(links, modify)'
  BY <1>1, <1>2, <1>4, <1>7 DEF Kept, LinksAreReads
<1>12. /\ Kept(saved.modify, saved.modify \cup placed)'
       /\ saved'.links \subseteq Files \X Cmds /\ saved'.modify \subseteq Nodes
       /\ LinksAreReads(saved.links, saved.modify)'
       /\ Noticed(saved.modify, saved.modify \cup placed)'
  BY <1>1, <1>4 DEF UpdateInv, Kept, LinksAreReads, Noticed, Stale, Lost, Remade
<1> QED
  BY <1>1, <1>4, <1>5, <1>8, <1>9, <1>10, <1>12 DEF UpdateInv, SeenIsCurrent, Succeeded

LEMMA StartCmdStep ==
    ASSUME IndInv, NEW d \in Cmds, StartCmd(d)
    PROVE  IndInv'
<1> USE DEF IndInv
<1>1. /\ phase = "update" /\ phase' = "update" /\ UpdateInv
      /\ d \in nodes /\ d \notin skip /\ \A m \in nodes : <<m, d>> \notin edges
      /\ job' = [job EXCEPT ![d] = [seen |-> Restrict(fs, rule[d].reads \ Outputs[d]),
                                    old  |-> Restrict(fs, Outputs[d])]]
      /\ fs' = [f \in Files |-> IF f \in Outputs[d] THEN Gone ELSE fs[f]]
      /\ skip' = IF d \in Compare THEN skip ELSE skip \ Outputs[d]
      /\ UNCHANGED <<touched, rule, links, modify, saved, nodes, edges, normal, placed, seen,
                     masked>>
  BY DEF StartCmd, Ready
<1>2. /\ GraphInv /\ RunningInv /\ Ahead /\ Kept(modify, modify)
      /\ Kept(saved.modify, saved.modify \cup placed)
      /\ Noticed(saved.modify, saved.modify \cup placed)
      /\ LinksAreReads(saved.links, saved.modify)
      /\ d \notin Files /\ d \in modify
  BY <1>1, OutLinksAre DEF UpdateInv, GraphInv
<1>3. /\ job'[d].seen = [f \in rule[d].reads \ Outputs[d] |-> fs[f]]
      /\ job'[d].old = [f \in Outputs[d] |-> fs[f]]
      /\ \A c \in Cmds \ {d} : job'[c] = job[c]
      /\ DOMAIN job' = Cmds
  BY <1>1 DEF Shapes, Restrict
<1>4. Shapes' /\ Running' \subseteq Running \cup {d}
  BY <1>1, <1>3 DEF Shapes, Running
<1>5. GraphInv'
  <2>1. \A c \in Cmds : c \in skip' <=> c \in skip
    BY <1>1, OutLinksAre
  <2> QED
    BY <1>1, <1>2, <2>1 DEF GraphInv
<1>6. /\ \A f \in Files : f \notin Outputs[d] => fs'[f] = fs[f]
      /\ \A f \in Outputs[d] : fs'[f] = Gone /\ f \in nodes \cap Generated /\ f \in Files
  BY <1>1, <1>2, OutLinksAre, ModifyOutputsAre
<1>7. RunningAt(d)'
  <2>0. PICK C \in SUBSET Made : C = nodes \cap Made
    OBVIOUS
  <2>1. ASSUME NEW e \in links \cup OutLinks, e[1] \in C PROVE e[2] \in C
    <3>1. PICK n, m : e = <<n, m>>
      BY OutLinksAre DEF Shapes
    <3>2. CASE e \in links
      <4>1. n \in Files /\ m \in Cmds /\ n \in nodes /\ n \in Generated
        BY <2>0, <2>1, <3>1, <3>2, OutLinksAre DEF Shapes, Made
      <4> QED
        BY <1>2, <2>0, <3>1, <3>2, <4>1 DEF GraphInv, Made
    <3>3. CASE e \in OutLinks
      <4>1. n \in Cmds /\ m \in Outputs[n] /\ n \in nodes
        BY <2>0, <2>1, <3>1, <3>3, OutLinksAre
      <4> QED
        BY <1>2, <2>0, <3>1, <4>1, ModifyOutputsAre DEF Made
    <3> QED
      BY <2>1, <3>2, <3>3
  <2>2. C \cap rule[d].sticky = {}
    BY <1>1, <1>2, <2>0 DEF GraphInv
  <2>3. Barred(C, d)'
    BY <1>1, <2>0, <2>1, <2>2 DEF Barred, Closed, Made
  <2>4. Reads(d)' = rule'[d].reads \ Outputs[d]
    BY <1>1, <1>3 DEF Reads
  <2>5. \A f \in Reads(d)' \ C : job'[d].seen[f] = fs'[f]
    BY <1>1, <1>3, <1>6, <2>4, StickyLinksAre
  <2>6. \E D \in SUBSET Made : Barred(D, d)' /\ \A f \in Reads(d)' \ D : job'[d].seen[f] = fs'[f]
    BY <2>3, <2>5
  <2> QED
    BY <1>1, <1>2, <1>6, <2>4, <2>6 DEF RunningAt, Made
<1>8. RunningInv'
  <2> SUFFICES ASSUME NEW x \in Running, x # d PROVE RunningAt(x)'
    BY <1>4, <1>7 DEF RunningInv
  <2>1. RunningAt(x) /\ x \in Cmds /\ x \in nodes \cap modify /\ job'[x] = job[x]
    BY <1>2, <1>3 DEF RunningInv, RunningAt, Running
  <2>2. x \in nodes' \cap modify' /\ x \in Made
    BY <1>1, <2>1 DEF Made
  <2>3. nodes' \subseteq nodes /\ edges' \subseteq edges /\ skip' \subseteq skip
    BY <1>1
  <2>4. \A f \in Files : fs'[f] = fs[f] \/ (f \in nodes \cap Generated /\ f \notin Outputs[x])
    BY <1>6, <2>1, OneProducer
  <2> QED
    BY <1>1, <1>2, <2>1, <2>2, <2>3, <2>4, GoesOn
<1>9. Ahead'
  <2> SUFFICES ASSUME ~masked', NEW c \in Cmds \ modify', NEW g \in Files, Stale(c, g)'
               PROVE  <<g, c>> \in normal' /\ (g \in modify' \/ Unskips(g, modify)')
    BY DEF Ahead
  <2>1. CASE g \in Outputs[d]
    <3>1. <<g, c>> \in links
      BY <1>1 DEF LinksAreReads, Stale
    <3>2. <<g, c>> \in normal
      BY <1>2, <1>6, <2>1, <3>1 DEF GraphInv
    <3> QED
      BY <1>1, <1>2, <1>6, <2>1, <3>2 DEF Unskips
  <2>2. CASE g \notin Outputs[d]
    <3>1. Stale(c, g) /\ fs'[g] = fs[g]
      BY <1>1, <1>6, <2>2 DEF Stale
    <3> QED
      BY <1>1, <1>2, <3>1 DEF Ahead, Unskips
  <2> QED
    BY <2>1, <2>2
<1>10. Kept(modify, modify)'
  <2> SUFFICES ASSUME ~masked', NEW e \in Running' \cap Compare, NEW c \in Cmds \ modify,
                      NEW g \in Outputs[e] \ modify, g \in DOMAIN seen[c]
               PROVE  job'[e].old[g] \in {Gone, seen[c][g]}
    BY <1>1 DEF Kept
  <2>1. CASE e = d
    <3>1. job'[e].old[g] = fs[g] /\ g \in Files
      BY <1>3, <1>6, <2>1
    <3>2. CASE Stale(c, g)
      <4>1. Unskips(g, modify)
        BY <1>1, <1>2, <3>1, <3>2 DEF Ahead
      <4> QED
        BY <2>1, <3>1, <4>1, OneProducer DEF Unskips
    <3> QED
      BY <3>1, <3>2 DEF Stale
  <2>2. CASE e # d
    <3>1. e \in Running /\ job'[e] = job[e]
      BY <1>3, <1>4, <2>2 DEF Running
    <3> QED
      BY <1>1, <1>2, <3>1 DEF Kept
  <2> QED
    BY <2>1, <2>2
<1>11. Kept(saved.modify, saved.modify \cup placed)'
  <2> SUFFICES ASSUME ~masked', NEW e \in Running' \cap Compare, NEW c \in Cmds \ saved.modify,
                      NEW g \in Outputs[e] \ (saved.modify \cup placed), g \in DOMAIN seen[c]
               PROVE  job'[e].old[g] \in {Gone, seen[c][g]}
    BY <1>1 DEF Kept
  <2>1. CASE e = d
    <3>1. job'[e].old[g] = fs[g] /\ g \in Files
      BY <1>3, <1>6, <2>1
    <3>2. CASE Stale(c, g)
      <4>1. Lost(g) \/ Remade(g, saved.modify)
        BY <1>1, <1>2, <3>1, <3>2 DEF Noticed
      <4> QED
        BY <2>1, <3>1, <4>1, OneProducer DEF Lost, Remade
    <3> QED
      BY <3>1, <3>2 DEF Stale
  <2>2. CASE e # d
    <3>1. e \in Running /\ job'[e] = job[e]
      BY <1>3, <1>4, <2>2 DEF Running
    <3> QED
      BY <1>1, <1>2, <3>1 DEF Kept
  <2> QED
    BY <2>1, <2>2
<1>12. Noticed(saved.modify, saved.modify \cup placed)'
  <2> SUFFICES ASSUME ~masked', NEW c \in Cmds \ saved.modify, NEW g \in Files, Stale(c, g)'
               PROVE  g \in saved.modify \cup placed \/ Lost(g)' \/ Remade(g, saved.modify)
    BY <1>1 DEF Noticed, Remade
  <2>1. CASE g \in Outputs[d]
    BY <1>6, <2>1 DEF Lost
  <2>2. CASE g \notin Outputs[d]
    <3>1. Stale(c, g) /\ fs'[g] = fs[g]
      BY <1>1, <1>6, <2>2 DEF Stale
    <3> QED
      BY <1>1, <1>2, <3>1 DEF Noticed, Lost
  <2> QED
    BY <2>1, <2>2
<1>13. LinksAreReads(links, modify)' /\ LinksAreReads(saved.links, saved.modify)'
  BY <1>1, <1>2 DEF LinksAreReads
<1>14. saved'.links \subseteq Files \X Cmds /\ saved'.modify \subseteq Nodes
  BY <1>1 DEF UpdateInv
<1> QED
  BY <1>1, <1>4, <1>5, <1>8, <1>9, <1>10, <1>11, <1>12, <1>13, <1>14
     DEF UpdateInv, SeenIsCurrent, Succeeded

-----------------------------------------------------------------------------
(***************************************************************************)
(* The end of a command.                                                   *)
(***************************************************************************)
(* What a running command read and is accepted has not changed. *)
LEMMA AcceptedIsCurrent ==
    ASSUME Shapes, \A d \in Cmds : Allowed[d] = {}, NEW c \in Cmds, RunningAt(c)
    PROVE  /\ Reads(c) = rule[c].reads \ Outputs[c] /\ Reads(c) \subseteq Files
           /\ \A f \in Reads(c) \ MissingInputs(c) : /\ job[c].seen[f] = fs[f]
                                                     /\ f \notin Generated \cap nodes
<1>1. Reads(c) = rule[c].reads \ Outputs[c] /\ Reads(c) \subseteq Files
  BY StickyLinksAre DEF RunningAt
<1>2. PICK C \in SUBSET Made : Barred(C, c) /\ \A f \in Reads(c) \ C : job[c].seen[f] = fs[f]
  BY DEF RunningAt
<1>3. \A f \in Reads(c) \ MissingInputs(c) : f \notin C
  BY <1>1, <1>2, Accepted
<1> QED
  BY <1>1, <1>2, <1>3 DEF Barred, Made

LEMMA EndCmdStep ==
    ASSUME IndInv, \A d \in Cmds : Allowed[d] = {}, NEW c \in Cmds, NEW v \in Values, EndCmd(c, v)
    PROVE  IndInv'
<1> USE DEF IndInv
<1> DEFINE skipped == skip \ Unskipped(c, v)
           next    == UNION {ModifyOutputs(f) : f \in (ModifyOutputs(c) \ skipped)}
<1>1. /\ c \in Running /\ WriteFilesOK(c) /\ links' = ActualLinks(c) /\ fs' = Moved(c, v)
      /\ touched' = touched \ Placed(c) /\ placed' = placed \cup Placed(c)
      /\ modify' = (modify \cup next) \ {c} /\ skip' = (skipped \ next) \ {c} /\ Pop(c)
      /\ seen' = [seen EXCEPT ![c] = job[c].seen] /\ job' = [job EXCEPT ![c] = NoJob]
      /\ UNCHANGED <<rule, saved, phase, masked>>
  BY DEF EndCmd, Through
<1>2. phase = "update" /\ UpdateInv
  BY <1>1 DEF Shapes
<1>3. /\ GraphInv /\ RunningInv /\ Ahead /\ Kept(modify, modify)
      /\ Kept(saved.modify, saved.modify \cup placed)
      /\ Noticed(saved.modify, saved.modify \cup placed)
      /\ LinksAreReads(saved.links, saved.modify)
      /\ c \notin Files
  BY <1>2, OutLinksAre DEF UpdateInv
<1>4. RunningAt(c) /\ c \in nodes /\ c \in modify /\ \A m \in nodes : <<m, c>> \notin edges
  BY <1>1, <1>3 DEF RunningInv, RunningAt
<1>5. /\ Reads(c) = rule[c].reads \ Outputs[c] /\ Reads(c) \subseteq Files
      /\ MissingInputs(c) = {}
      /\ \A f \in Reads(c) : job[c].seen[f] = fs[f] /\ f \notin Generated \cap nodes
  BY <1>1, <1>4, AcceptedIsCurrent DEF WriteFilesOK
<1>6. Placed(c) = Outputs[c]
  BY <1>1 DEF WriteFilesOK, MissingOutputs, Placed
<1>7. /\ \A f \in Files : f \notin Outputs[c] => fs'[f] = fs[f]
      /\ \A f \in Outputs[c] : fs'[f] = v /\ f \in nodes \cap Generated /\ f \in Files
      /\ DOMAIN fs' = Files /\ v # Gone
  BY <1>1, <1>3, <1>4, <1>6, OutLinksAre, ModifyOutputsAre, LinksAssumption DEF Moved
<1>8. /\ seen'[c] = job[c].seen /\ DOMAIN seen'[c] = Reads(c)
      /\ \A d \in Cmds \ {c} : seen'[d] = seen[d] /\ job'[d] = job[d]
      /\ DOMAIN seen' = Cmds /\ DOMAIN job' = Cmds /\ job'[c] = NoJob
  BY <1>1 DEF Shapes, Reads
<1>9. /\ links' \subseteq Files \X Cmds
      /\ \A f \in Files, d \in Cmds \ {c} : <<f, d>> \in links' <=> <<f, d>> \in links
      /\ \A f \in Files : <<f, c>> \in links' <=> f \in Reads(c)
  BY <1>1, <1>5, ActualLinksAre
<1>10. Shapes' /\ Running' = Running \ {c} /\ touched' = {}
  BY <1>1, <1>2, <1>3, <1>5, <1>6, <1>7, <1>8, <1>9, OutLinksAre DEF Shapes, Running, GraphInv
<1>11. next \in SUBSET (nodes \cap Cmds)
  <2>1. ModifyOutputs(c) \subseteq Files
    BY <1>3, ModifyOutputsAre, OutLinksAre
  <2> QED
    BY <1>3, <2>1, ModifyOutputsAre
<1>12. GraphInv'
  <2>1. skipped \in SUBSET skip /\ skipped \cap Cmds = skip \cap Cmds
    BY OutLinksAre DEF Unskipped
  <2>2. \A f \in Generated \cap nodes, d \in Cmds :
            <<f, d>> \in links' => f = c \/ <<f, d>> \in links
    BY <1>5, <1>9, OutLinksAre
  <2> QED
    BY <1>1, <1>3, <1>4, <1>10, <1>11, <2>1, <2>2, GraphPop
<1>13. nodes' = nodes \ {c} /\ \A a, b : <<a, b>> \in normal' <=> <<a, b>> \in normal /\ a # c
  BY <1>1 DEF Pop
<1>14. RunningInv'
  <2> SUFFICES ASSUME NEW x \in Running, x # c PROVE RunningAt(x)'
    BY <1>10 DEF RunningInv
  <2>1. RunningAt(x) /\ x \in Cmds /\ x \in nodes \cap modify /\ job'[x] = job[x]
    BY <1>3, <1>8 DEF RunningInv, RunningAt, Running
  <2>2. x \in nodes' \cap modify' /\ c \in Made \cap nodes
    BY <1>1, <1>4, <1>13, <2>1 DEF Made
  <2>3. nodes' \subseteq nodes /\ edges' \subseteq edges /\ skip' \subseteq skip
    BY <1>1 DEF Pop
  <2>4. \A f \in Files : fs'[f] = fs[f] \/ (f \in nodes \cap Generated /\ f \notin Outputs[x])
    BY <1>7, <2>1, OneProducer
  <2>5. \A l \in links' : l \in links \/ l[2] = c
    BY <1>1 DEF ActualLinks
  <2> QED
    BY <1>1, <1>3, <2>1, <2>2, <2>3, <2>4, <2>5, GoesOn
<1>15. Ahead'
  <2> SUFFICES ASSUME ~masked', NEW d \in Cmds \ modify', NEW g \in Files, Stale(d, g)'
               PROVE  <<g, d>> \in normal' /\ (g \in modify' \/ Unskips(g, modify)')
    BY DEF Ahead
  <2>1. d # c
    BY <1>5, <1>7, <1>8 DEF Stale
  <2>2. d \notin modify /\ seen'[d] = seen[d] /\ ~masked
    BY <1>1, <1>8, <2>1
  <2>3. CASE g \in Outputs[c]
    <3>1. <<g, d>> \in links
      BY <2>2 DEF LinksAreReads, Stale
    <3>2. d \in ModifyOutputs(g) /\ g \in ModifyOutputs(c)
      BY <1>3, <1>4, <1>7, <2>3, <3>1, ModifyOutputsAre DEF GraphInv
    <3>3. g \in skip /\ g \notin Unskipped(c, v)
      BY <1>1, <2>1, <3>2
    <3>4. c \in Compare /\ g \notin modify
      BY <1>3, <1>4, <2>3, <3>3 DEF RunningAt, GraphInv
    <3>5. job[c].old[g] = v
      BY <2>3, <3>3, <3>4 DEF Unskipped
    <3>6. job[c].old[g] \in {Gone, seen[d][g]}
      BY <1>1, <1>3, <2>2, <2>3, <3>4 DEF Kept, Stale
    <3> QED
      BY <1>7, <2>2, <2>3, <3>5, <3>6 DEF Stale
  <2>4. CASE g \notin Outputs[c]
    <3>1. Stale(d, g) /\ fs'[g] = fs[g]
      BY <1>7, <2>2, <2>4 DEF Stale
    <3>2. <<g, d>> \in normal /\ (g \in modify \/ Unskips(g, modify))
      BY <1>3, <2>2, <3>1 DEF Ahead
    <3>3. g \in modify => g \in modify'
      BY <1>1, <1>3
    <3>4. Unskips(g, modify) => Unskips(g, modify)'
      BY <1>1, <2>4, <3>1 DEF Unskips
    <3> QED
      BY <1>3, <1>13, <3>2, <3>3, <3>4
  <2> QED
    BY <2>3, <2>4
<1>16. ASSUME NEW e \in Running', NEW x \in Cmds, NEW g \in Outputs[e], g \in DOMAIN seen'[x]
       PROVE  x # c /\ seen'[x] = seen[x] /\ e \in Running /\ job'[e] = job[e] /\ g # c
  <2>1. e \in Running /\ e # c /\ e \in Cmds
    BY <1>10 DEF Running
  <2>2. g \in nodes \cap Generated /\ g \in Files
    BY <1>3, <2>1, ModifyOutputsAre, OutLinksAre DEF RunningInv, RunningAt
  <2> QED
    BY <1>3, <1>5, <1>8, <1>16, <2>1, <2>2
<1>17. Kept(modify, modify)'
  <2> SUFFICES ASSUME ~masked', NEW e \in Running' \cap Compare, NEW x \in Cmds \ modify',
                      NEW g \in Outputs[e] \ modify', g \in DOMAIN seen'[x]
               PROVE  job'[e].old[g] \in {Gone, seen'[x][g]}
    BY DEF Kept
  <2> QED
    BY <1>1, <1>3, <1>16 DEF Kept
<1>18. Kept(saved.modify, saved.modify \cup placed)'
  <2> SUFFICES ASSUME ~masked', NEW e \in Running' \cap Compare, NEW x \in Cmds \ saved.modify,
                      NEW g \in Outputs[e] \ (saved.modify \cup placed'), g \in DOMAIN seen'[x]
               PROVE  job'[e].old[g] \in {Gone, seen'[x][g]}
    BY <1>1 DEF Kept
  <2> QED
    BY <1>1, <1>3, <1>16 DEF Kept
<1>19. Noticed(saved.modify, saved.modify \cup placed)'
  <2> SUFFICES ASSUME ~masked', NEW x \in Cmds \ saved.modify, NEW g \in Files, Stale(x, g)'
               PROVE  g \in saved.modify \cup placed' \/ Lost(g)' \/ Remade(g, saved.modify)
    BY <1>1 DEF Noticed, Remade
  <2>1. CASE g \in Outputs[c]
    BY <1>1, <1>6, <2>1
  <2>2. CASE g \notin Outputs[c]
    <3>1. x # c /\ fs'[g] = fs[g]
      BY <1>5, <1>7, <1>8, <2>2 DEF Stale
    <3>2. Stale(x, g)
      BY <1>8, <3>1 DEF Stale
    <3> QED
      BY <1>1, <1>3, <3>1, <3>2 DEF Noticed, Lost
  <2> QED
    BY <2>1, <2>2
<1>20. LinksAreReads(links, modify)'
  BY <1>1, <1>5, <1>8, <1>9 DEF LinksAreReads
<1>21. LinksAreReads(saved.links, saved.modify)'
  BY <1>1, <1>3, <1>5, <1>8 DEF LinksAreReads
<1>22. saved'.links \subseteq Files \X Cmds /\ saved'.modify \subseteq Nodes
  BY <1>1, <1>2 DEF UpdateInv
<1> QED
  BY <1>1, <1>2, <1>10, <1>12, <1>14, <1>15, <1>17, <1>18, <1>19, <1>20, <1>21, <1>22
     DEF UpdateInv, SeenIsCurrent, Succeeded

LEMMA FailCmdStep ==
    ASSUME IndInv, \A d \in Cmds : Allowed[d] = {}, NEW c \in Cmds, NEW v, NEW exit,
           FailCmd(c, v, exit)
    PROVE  IndInv'
<1> USE DEF IndInv
<1>1. /\ c \in Running
      /\ links' = links \/ links' = ActualLinks(c)
      /\ fs' = [f \in Files |-> IF f \in Restored(c) THEN job[c].old[f] ELSE Moved(c, v)[f]]
      /\ touched' = touched \ (Placed(c) \cup Restored(c))
      /\ placed' = placed \cup (Placed(c) \ Restored(c))
      /\ masked' = (masked \/ (c \in Compare /\ v # Gone /\ \E f \in Placed(c) \ Restored(c) :
                                   \E d \in Cmds : f \in DOMAIN seen[d]))
      /\ job' = [job EXCEPT ![c] = NoJob]
      /\ UNCHANGED <<rule, modify, saved, phase, nodes, edges, normal, skip, seen>>
  BY DEF FailCmd, graph
<1>2. phase = "update" /\ UpdateInv
  BY <1>1 DEF Shapes
<1>3. /\ GraphInv /\ RunningInv /\ Ahead /\ Kept(modify, modify)
      /\ Kept(saved.modify, saved.modify \cup placed)
      /\ Noticed(saved.modify, saved.modify \cup placed)
      /\ LinksAreReads(saved.links, saved.modify)
      /\ c \notin Files
  BY <1>2, OutLinksAre DEF UpdateInv
<1>4. RunningAt(c) /\ c \in nodes /\ c \in modify
  BY <1>1, <1>3 DEF RunningInv, RunningAt
<1>5. /\ Reads(c) \subseteq Files
      /\ \A f \in Reads(c) \ MissingInputs(c) : f \notin Generated \cap nodes
  BY <1>4, AcceptedIsCurrent
<1>6. Placed(c) \subseteq Outputs[c] /\ Restored(c) \subseteq Outputs[c]
  BY DEF Placed, Restored
<1>7. /\ \A f \in Files : f \notin Outputs[c] => fs'[f] = fs[f]
      /\ \A f \in Outputs[c] : f \in nodes \cap Generated /\ f \in Files
      /\ \A f \in Restored(c) : /\ fs'[f] = job[c].old[f] /\ job[c].old[f] # Gone
                                /\ c \in Compare
      /\ \A f \in Placed(c) \ Restored(c) : fs'[f] = v
      /\ \A f \in Outputs[c] \ (Placed(c) \cup Restored(c)) : fs'[f] = Gone
      /\ DOMAIN fs' = Files
  <2>1. \A f \in Outputs[c] : f \in nodes \cap Generated /\ f \in Files /\ fs[f] = Gone
    BY <1>3, <1>4, OutLinksAre, ModifyOutputsAre DEF RunningAt
  <2>2. \A f \in Restored(c) : job[c].old[f] # Gone /\ c \in Compare
    BY DEF Restored
  <2> QED
    BY <1>1, <1>6, <2>1, <2>2 DEF Moved
<1>8. (\A d \in Cmds \ {c} : job'[d] = job[d]) /\ DOMAIN job' = Cmds /\ job'[c] = NoJob
  BY <1>1 DEF Shapes
<1>9. /\ links' \subseteq Files \X Cmds
      /\ \A f \in Files, d \in Cmds \ {c} : <<f, d>> \in links' <=> <<f, d>> \in links
      /\ \A f \in Files : <<f, c>> \in links' =>
             <<f, c>> \in links \/ f \in Reads(c) \ MissingInputs(c)
  BY <1>1, <1>5, ActualLinksAre DEF Shapes
<1>10. Shapes' /\ Running' = Running \ {c} /\ touched' = {}
  BY <1>1, <1>2, <1>3, <1>6, <1>7, <1>8, <1>9 DEF Shapes, Running, GraphInv
<1>11. GraphInv'
  <2>1. \A f \in Generated \cap nodes, d \in Cmds : <<f, d>> \in links' => <<f, d>> \in normal
    BY <1>3, <1>5, <1>9, OutLinksAre DEF GraphInv
  <2> QED
    BY <1>1, <1>3, <1>10, <2>1 DEF GraphInv
<1>12. RunningInv'
  <2> SUFFICES ASSUME NEW x \in Running, x # c PROVE RunningAt(x)'
    BY <1>10 DEF RunningInv
  <2>1. RunningAt(x) /\ x \in Cmds /\ x \in nodes \cap modify /\ job'[x] = job[x]
    BY <1>3, <1>8 DEF RunningInv, RunningAt, Running
  <2>2. x \in nodes' \cap modify' /\ c \in Made \cap nodes
    BY <1>1, <1>4, <2>1 DEF Made
  <2>3. nodes' \subseteq nodes /\ edges' \subseteq edges /\ skip' \subseteq skip
    BY <1>1
  <2>4. \A f \in Files : fs'[f] = fs[f] \/ (f \in nodes \cap Generated /\ f \notin Outputs[x])
    BY <1>7, <2>1, OneProducer
  <2>5. \A l \in links' : l \in links \/ l[2] = c
    BY <1>1 DEF ActualLinks
  <2> QED
    BY <1>1, <1>3, <2>1, <2>2, <2>3, <2>4, <2>5, GoesOn
<1>13. Ahead'
  <2> SUFFICES ASSUME ~masked', NEW d \in Cmds \ modify, NEW g \in Files, Stale(d, g)'
               PROVE  <<g, d>> \in normal /\ (g \in modify \/ Unskips(g, modify)')
    BY <1>1 DEF Ahead
  <2>1. ~masked /\ g \in DOMAIN seen[d] /\ seen[d][g] # fs'[g]
    BY <1>1 DEF Stale
  <2>2. CASE g \in Outputs[c]
    <3>1. <<g, d>> \in normal
      BY <1>3, <1>7, <2>1, <2>2 DEF LinksAreReads, GraphInv
    <3>2. c \notin Compare \/ fs'[g] = Gone => Unskips(g, modify)'
      BY <1>1, <1>4, <2>2 DEF Unskips
    <3>3. ASSUME c \in Compare, g \in Restored(c) PROVE g \in modify
      BY <1>1, <1>3, <1>7, <2>1, <2>2, <3>3 DEF Kept
    <3>4. ASSUME c \in Compare, g \notin Restored(c) PROVE fs'[g] = Gone
      BY <1>1, <1>7, <2>1, <2>2, <3>4
    <3> QED
      BY <3>1, <3>2, <3>3, <3>4
  <2>3. CASE g \notin Outputs[c]
    <3>1. Stale(d, g) /\ fs'[g] = fs[g]
      BY <1>7, <2>1, <2>3 DEF Stale
    <3> QED
      BY <1>1, <1>3, <2>1, <3>1 DEF Ahead, Unskips
  <2> QED
    BY <2>2, <2>3
<1>14. \A e \in Running' : e \in Running /\ job'[e] = job[e]
  BY <1>8, <1>10 DEF Running
<1>15. Kept(modify, modify)' /\ Kept(saved.modify, saved.modify \cup placed)'
  <2>1. /\ modify' = modify /\ saved' = saved /\ seen' = seen /\ placed \subseteq placed'
        /\ masked => masked'
    BY <1>1
  <2>2. Kept(modify, modify)'
    BY <1>3, <1>14, <2>1 DEF Kept
  <2>3. Kept(saved.modify, saved.modify \cup placed)'
    BY <1>3, <1>14, <2>1 DEF Kept
  <2> QED
    BY <2>2, <2>3
<1>16. Noticed(saved.modify, saved.modify \cup placed)'
  <2> SUFFICES ASSUME ~masked', NEW x \in Cmds \ saved.modify, NEW g \in Files, Stale(x, g)'
               PROVE  g \in saved.modify \cup placed' \/ Lost(g)' \/ Remade(g, saved.modify)
    BY <1>1 DEF Noticed, Remade
  <2>1. ~masked /\ g \in DOMAIN seen[x] /\ seen[x][g] # fs'[g]
    BY <1>1 DEF Stale
  <2>2. CASE g \in Restored(c)
    BY <1>1, <1>3, <1>6, <1>7, <2>1, <2>2 DEF Kept
  <2>3. CASE g \in Placed(c) \ Restored(c)
    BY <1>1, <2>3
  <2>4. CASE g \in Outputs[c] \ (Placed(c) \cup Restored(c))
    BY <1>7, <2>4 DEF Lost
  <2>5. CASE g \notin Outputs[c]
    <3>1. Stale(x, g) /\ fs'[g] = fs[g]
      BY <1>7, <2>1, <2>5 DEF Stale
    <3> QED
      BY <1>1, <1>3, <2>1, <3>1 DEF Noticed, Lost
  <2> QED
    BY <2>2, <2>3, <2>4, <2>5
<1>17. LinksAreReads(links, modify)' /\ LinksAreReads(saved.links, saved.modify)'
  BY <1>1, <1>3, <1>4, <1>9 DEF LinksAreReads
<1>18. saved'.links \subseteq Files \X Cmds /\ saved'.modify \subseteq Nodes
  BY <1>1, <1>2 DEF UpdateInv
<1> QED
  BY <1>1, <1>2, <1>10, <1>11, <1>12, <1>13, <1>15, <1>16, <1>17, <1>18
     DEF UpdateInv, SeenIsCurrent, Succeeded

(* A command that could not be run stays flagged, with its files missing. *)
LEMMA ExecErrorStep ==
    ASSUME IndInv, NEW c \in Cmds, ExecError(c)
    PROVE  IndInv'
<1> USE DEF IndInv
<1>1. /\ c \in Running /\ job' = [job EXCEPT ![c] = NoJob]
      /\ UNCHANGED <<fs, touched, rule, links, modify, saved, phase, nodes, edges, normal, skip,
                     placed, result, seen, masked>>
  BY DEF ExecError, disk, graph
<1>2. phase = "update" /\ UpdateInv
  BY <1>1 DEF Shapes
<1>3. DOMAIN job' = Cmds /\ Running' \subseteq Running /\ \A d \in Running' : job'[d] = job[d]
  BY <1>1 DEF Shapes, Running
<1>4. Shapes'
  BY <1>1, <1>2, <1>3 DEF Shapes
<1>5. GraphInv' /\ Ahead' /\ LinksAreReads(links, modify)' /\ LinksAreReads(saved.links, saved.modify)'
      /\ Noticed(saved.modify, saved.modify \cup placed)'
  BY <1>1, <1>2 DEF UpdateInv, GraphInv, Ahead, LinksAreReads, Noticed, Stale, Unskips, Lost, Remade
<1>6. RunningInv'
  <2> SUFFICES ASSUME NEW x \in Running' PROVE RunningAt(x)'
    BY DEF RunningInv
  <2>1. RunningAt(x) /\ Reads(x)' = Reads(x) /\ job'[x] = job[x]
    BY <1>2, <1>3 DEF UpdateInv, RunningInv, Reads
  <2>2. PICK C \in SUBSET Made : Barred(C, x) /\ \A f \in Reads(x) \ C : job[x].seen[f] = fs[f]
    BY <2>1 DEF RunningAt
  <2>3. Barred(C, x)'
    BY <1>1, <2>2 DEF Barred, Closed
  <2> QED
    BY <1>1, <2>1, <2>2, <2>3 DEF RunningAt
<1>7. Kept(modify, modify)' /\ Kept(saved.modify, saved.modify \cup placed)'
  <2>1. UNCHANGED <<masked, modify, saved, placed, seen>>
    BY <1>1
  <2> QED
    BY <1>2, <1>3, <2>1 DEF UpdateInv, Kept
<1> QED
  BY <1>1, <1>2, <1>4, <1>5, <1>6, <1>7 DEF UpdateInv, SeenIsCurrent, Succeeded

-----------------------------------------------------------------------------
LEMMA InitIndInv ==
    ASSUME Init
    PROVE  IndInv
<1>1. DOMAIN fs = Files /\ DOMAIN job = Cmds /\ DOMAIN seen = Cmds /\ Running = {}
  BY DEF Init, Running
<1>2. DOMAIN rule = Cmds /\ \A c \in Cmds : rule[c] \in Rules[c] /\ DOMAIN seen[c] = {}
  BY DEF Init
<1>3. touched = {} /\ placed = {} /\ links = {}
  BY DEF Init
<1>4. Shapes
  BY <1>1, <1>2, <1>3 DEF Shapes
<1> QED
  BY <1>4 DEF Init, IndInv, LinksAreReads, Noticed, Nodes, SeenIsCurrent, Succeeded

LEMMA NextIndInv ==
    ASSUME \A d \in Cmds : Allowed[d] = {}, IndInv, [Next]_vars
    PROVE  IndInv'
<1>1. CASE User
  BY <1>1, EditStep, WriteInputsStep DEF User
<1>2. CASE Update
  BY <1>2, ScanStep, BuildGraphStep, VisitFileStep, SkipCmdStep, StartCmdStep, EndCmdStep,
     FailCmdStep, ExecErrorStep, EndUpdateStep DEF Update
<1>3. CASE Kill
  BY <1>3, KillStep
<1>4. CASE UNCHANGED vars
  <2> USE <1>4 DEF vars
  <2>1. Shapes' <=> Shapes
    BY DEF Shapes, Running
  <2>2. LinksAreReads(links, modify)' <=> LinksAreReads(links, modify)
    BY DEF LinksAreReads
  <2>3. Noticed(modify, touched \cup modify)' <=> Noticed(modify, touched \cup modify)
    BY DEF Noticed, Stale, Lost, Remade
  <2>4. ScannedInv' <=> ScannedInv
    BY DEF ScannedInv, Stale, Unskips
  <2>5. (GraphInv' <=> GraphInv) /\ Running' = Running
    BY DEF GraphInv, Running
  <2>6. RunningInv' <=> RunningInv
    BY <2>5 DEF RunningInv, RunningAt, Reads, Barred
  <2>7. Ahead' <=> Ahead
    BY DEF Ahead, Stale, Unskips
  <2>8. UpdateInv' <=> UpdateInv
    BY <2>5, <2>6, <2>7 DEF UpdateInv, Kept, LinksAreReads, Noticed, Stale, Lost, Remade
  <2>9. SeenIsCurrent' <=> SeenIsCurrent
    BY DEF SeenIsCurrent, Succeeded
  <2> QED
    BY <2>1, <2>2, <2>3, <2>4, <2>8, <2>9 DEF IndInv
<1> QED
  BY <1>1, <1>2, <1>3, <1>4 DEF Next

(* The inductive invariant of the updates of a project without allow_read. *)
THEOREM Invariance ==
    ASSUME \A d \in Cmds : Allowed[d] = {}
    PROVE  Spec => []IndInv
<1>1. Init => IndInv
  BY InitIndInv
<1>2. IndInv /\ [Next]_vars => IndInv'
  BY NextIndInv
<1> QED
  BY <1>1, <1>2, PTL DEF Spec

(* An update that succeeds leaves no command that last ran on something    *)
(* else than what the files it read contain now.                           *)
THEOREM UpToDate ==
    ASSUME \A d \in Cmds : Allowed[d] = {}
    PROVE  Spec => []SeenIsCurrent
<1>1. IndInv => SeenIsCurrent
  BY DEF IndInv
<1> QED
  BY <1>1, Invariance, PTL

-----------------------------------------------------------------------------
(***************************************************************************)
(* What was accepted, and the order of the declarations.                   *)
(***************************************************************************)
(* What is made: commands and generated files. *)
LEMMA MadeAre ==
    /\ Made \subseteq Nodes /\ Cmds \subseteq Made /\ Generated \subseteq Made
    /\ Made \cap Files = Generated
BY OutLinksAre DEF Nodes, Made

(* The links of the database are edges between nodes, and what is made     *)
(* leads to what is made only.                                             *)
LEMMA EdgesAre ==
    ASSUME NEW L \in SUBSET (Files \X Cmds)
    PROVE  /\ L \cup OutLinks \subseteq Nodes \X Nodes
           /\ \A n, m : <<n, m>> \in L \cup OutLinks => m \in Made
           /\ \A n, m : <<n, m>> \in L => n \in Files /\ m \in Cmds
           /\ Made \subseteq Nodes /\ Made \cap Files = Generated
<1>1. OutLinks \subseteq Cmds \X Generated /\ Generated \subseteq Files /\ Cmds \cap Files = {}
  BY OutLinksAre
<1> QED
  BY <1>1 DEF Nodes, Made

(* Whatever follows a command in Relay is in Relay. *)
LEMMA RelayIsClosed ==
    ASSUME CompareFirst, NEW L \in SUBSET (Files \X Cmds), LinksOfRules(L)
    PROVE  /\ Relay \subseteq Made
           /\ \A c \in Cmds : c \in Relay <=> c \notin Compare /\ ReadsGenerated(c)
           /\ \A c \in Cmds \cap Relay : Outputs[c] \subseteq Relay
           /\ \A g \in Generated : \A c : <<g, c>> \in L => ReadsGenerated(c) /\ g \notin Outputs[c]
           /\ \A d \in Cmds : ReadsGenerated(d) =>
                  \A g \in Outputs[d] : \A c : <<g, c>> \in L => c \in Relay
           /\ \A n, m : <<n, m>> \in L \cup OutLinks /\ n \in Relay => m \in Relay
<1> DEFINE Movers == {d \in Cmds \ Compare : ReadsGenerated(d)}
<1>1. \A n : n \in Relay <=> \E c \in Movers : n = c \/ n \in Outputs[c]
  BY DEF Relay
<1>2. \A c \in Cmds : c \in Relay <=> c \in Movers
  BY <1>1, OutLinksAre
<1>3. Relay \subseteq Made
  BY <1>1, OutLinksAre DEF Made
<1>4. ASSUME NEW g \in Generated, NEW c, <<g, c>> \in L
      PROVE  \E r \in Rules[c] : g \in FromOthers(c, r) /\ c \in Cmds
  <2>1. <<g, c>>[1] = g /\ <<g, c>>[2] = c /\ c \in Cmds
    BY <1>4
  <2> QED
    BY <1>4, <2>1 DEF LinksOfRules, FromOthers
<1>5. ASSUME NEW g \in Generated, NEW c, <<g, c>> \in L
      PROVE  ReadsGenerated(c) /\ g \notin Outputs[c]
  BY <1>4, <1>5 DEF ReadsGenerated, FromOthers
<1>6. ASSUME NEW d \in Cmds, NEW g \in Outputs[d], NEW c, <<g, c>> \in L, ReadsGenerated(d)
      PROVE  c \in Relay
  <2>1. g \in Generated
    BY OutLinksAre
  <2>2. PICK r \in Rules[c] : g \in FromOthers(c, r) /\ c \in Cmds
    BY <1>4, <1>6, <2>1
  <2>3. g \in r.reads \cap Outputs[d] /\ c # d
    BY <2>2 DEF FromOthers
  <2>4. c \notin Compare
    BY <1>6, <2>2, <2>3 DEF CompareFirst
  <2> QED
    BY <1>2, <1>5, <1>6, <2>1, <2>2, <2>4
<1>7. ASSUME NEW n, NEW m, <<n, m>> \in L \cup OutLinks, n \in Relay
      PROVE  m \in Relay
  <2>1. PICK c \in Movers : n = c \/ n \in Outputs[c]
    BY <1>1, <1>7
  <2>2. CASE <<n, m>> \in L
    <3>1. n \in Outputs[c]
      BY <2>1, <2>2, OutLinksAre
    <3> QED
      BY <1>6, <2>1, <2>2, <3>1
  <2>3. CASE <<n, m>> \in OutLinks
    <3>1. n = c /\ m \in Outputs[c]
      BY <2>1, <2>3, OutLinksAre
    <3> QED
      BY <1>1, <2>1, <3>1
  <2> QED
    BY <1>7, <2>2, <2>3
<1> QED
  BY <1>1, <1>2, <1>3, <1>5, <1>6, <1>7

(* What is due follows what is flagged, in Relay. *)
LEMMA DueIs ==
    ASSUME CompareFirst, NEW L \in SUBSET (Files \X Cmds), LinksOfRules(L), NEW M
    PROVE  /\ M \cap Relay \subseteq Due(L, M) /\ Due(L, M) \subseteq Relay
           /\ \A n, m : <<n, m>> \in L \cup OutLinks /\ n \in Due(L, M) => m \in Due(L, M)
           /\ \A C \in SUBSET Nodes : M \cap Relay \subseteq C /\ Closed(C, L \cup OutLinks)
                  => Due(L, M) \subseteq C
<1>1. L \cup OutLinks \subseteq Nodes \X Nodes /\ Relay \subseteq Nodes
  BY EdgesAre, RelayIsClosed
<1>2. M \cap Relay \in SUBSET Nodes
  BY <1>1
<1>3. \A C \in SUBSET Nodes : M \cap Relay \subseteq C /\ Closed(C, L \cup OutLinks)
          => Due(L, M) \subseteq C
  BY <1>2, ReachedIsLeast DEF Due
<1>4. Closed(Relay, L \cup OutLinks)
  BY <1>1, RelayIsClosed DEF Closed
<1> QED
  BY <1>1, <1>2, <1>3, <1>4, ReachedIsClosed DEF Due

(* A command that read what it did not declare read all that it declared. *)
LEMMA DeclaredAreRead ==
    ASSUME Shapes, DeclaredIsRead, NEW L, NEW M, LinksAreReads(L, M),
           NEW c \in Cmds \ M, NEW f \in GeneratedReads(c) \ rule[c].sticky,
           NEW s \in rule[c].sticky \cap Generated
    PROVE  s \in DOMAIN seen[c] /\ <<s, c>> \in L
<1>1. DOMAIN seen[c] = rule[c].reads \ Outputs[c]
  BY DEF LinksAreReads
<1>2. f \in FromOthers(c, rule[c])
  BY <1>1 DEF GeneratedReads, FromOthers
<1>3. s \in rule[c].reads /\ s \notin Outputs[c] /\ s \in Files
  BY <1>2, StickyLinksAre DEF DeclaredIsRead, Shapes
<1> QED
  BY <1>1, <1>3 DEF LinksAreReads

(* A set that no edge leaves. *)
LEMMA ClosedIs ==
    ASSUME NEW L \in SUBSET (Files \X Cmds), NEW C,
           \A n \in C : \A m : <<n, m>> \in L \cup OutLinks => m \in C
    PROVE  Closed(C, L \cup OutLinks)
<1> SUFFICES ASSUME NEW e \in L \cup OutLinks, e[1] \in C PROVE e[2] \in C
  BY DEF Closed
<1>1. PICK n, m : e = <<n, m>>
  BY OutLinksAre
<1> QED
  BY <1>1

(* Flags move on along the links that are there: who is due stays due, or *)
(* is flagged.                                                            *)
LEMMA StaysChecked ==
    ASSUME NEW L, NEW M, NEW N, Checked(L, M),
           \A c \in Cmds : c \in M \cup Due(L, M) => c \in N \cup Due(L, N)
    PROVE  Checked(L, N)
BY DEF Checked

(* With more flags more is due. *)
LEMMA MoreIsDue ==
    ASSUME CompareFirst, NEW L \in SUBSET (Files \X Cmds), LinksOfRules(L), NEW M, NEW N,
           M \cap Relay \subseteq Due(L, N)
    PROVE  Due(L, M) \subseteq Due(L, N)
<1>1. Due(L, N) \in SUBSET Nodes
  BY DueIs, RelayIsClosed, EdgesAre
<1>2. Closed(Due(L, N), L \cup OutLinks)
  BY DueIs, ClosedIs
<1>3. \A C \in SUBSET Nodes : M \cap Relay \subseteq C /\ Closed(C, L \cup OutLinks)
          => Due(L, M) \subseteq C
  BY DueIs
<1> QED
  BY <1>1, <1>2, <1>3

(* What a file leads to, when links go: it still leads to it, or it is in  *)
(* a set K to which the links led that are gone.                           *)
LEMMA StillLeads ==
    ASSUME NEW L \in SUBSET (Files \X Cmds), NEW N \in SUBSET (Files \X Cmds),
           NEW f \in Generated, NEW K \in SUBSET Nodes,
           \A n \in K : \A m : <<n, m>> \in L \cup OutLinks => m \in K,
           \A g \in Generated, c \in Cmds : <<g, c>> \in L \ N => c \in K
    PROVE  Reached({f}, L \cup OutLinks) \subseteq Reached({f}, N \cup OutLinks) \cup K
<1> DEFINE R == Reached({f}, N \cup OutLinks)
<1>1. f \in Nodes /\ f \in Made /\ f \in Files
  BY OutLinksAre DEF Nodes, Made
<1>2. /\ f \in R /\ R \subseteq Nodes
      /\ \A n, m : <<n, m>> \in N \cup OutLinks /\ n \in R => m \in R
  <2>1. {f} \in SUBSET Nodes /\ N \cup OutLinks \in SUBSET (Nodes \X Nodes)
    BY <1>1, EdgesAre
  <2> QED
    BY <2>1, ReachedIsClosed
<1>3. R \subseteq Made
  <2>1. Closed(Made, N \cup OutLinks)
    BY EdgesAre, ClosedIs
  <2> QED
    BY <1>1, <2>1, EdgesAre, ReachedIsLeast
<1> HIDE DEF R
<1>4. ASSUME NEW n \in R \cup K, NEW m, <<n, m>> \in L \cup OutLinks PROVE m \in R \cup K
  <2>1. CASE n \in K
    BY <1>4, <2>1 DEF R
  <2>2. CASE n \in R /\ <<n, m>> \in N \cup OutLinks
    BY <1>2, <2>2
  <2>3. CASE n \in R /\ <<n, m>> \in L \ N
    <3>1. n \in Generated /\ m \in Cmds
      BY <1>3, <2>3, EdgesAre, MadeAre
    <3> QED
      BY <2>3, <3>1
  <2> QED
    BY <1>4, <2>1, <2>2, <2>3
<1>5. Reached({f}, L \cup OutLinks) \subseteq R \cup K
  <2>1. Closed(R \cup K, L \cup OutLinks)
    BY <1>4, ClosedIs
  <2> QED
    BY <1>1, <1>2, <2>1, ReachedIsLeast
<1> QED
  BY <1>5 DEF R

(* The links of a flagged command change: whoever relied on one that goes *)
(* is due.                                                                *)
LEMMA LinksChange ==
    ASSUME CompareFirst, DeclaredIsRead, Shapes,
           NEW L \in SUBSET (Files \X Cmds), LinksOfRules(L),
           NEW N \in SUBSET (Files \X Cmds), LinksOfRules(N),
           NEW M, NEW c \in Cmds, LinksAreReads(L, M), Checked(L, M),
           \A g \in Files, d \in Cmds \ {c} : <<g, d>> \in N <=> <<g, d>> \in L,
           \A g \in Generated : <<g, c>> \in L \ N => c \notin Compare
    PROVE  Checked(N, M \cup {c})
<1> DEFINE P == M \cup {c}
           D == Due(N, P)
<1>1. /\ D \subseteq Relay /\ D \subseteq Nodes /\ D \subseteq Made /\ P \cap Relay \subseteq D
      /\ \A n, m : <<n, m>> \in N \cup OutLinks /\ n \in D => m \in D
  <2>1. /\ D \subseteq Relay /\ P \cap Relay \subseteq D
        /\ \A n, m : <<n, m>> \in N \cup OutLinks /\ n \in D => m \in D
    BY DueIs
  <2>2. Relay \subseteq Made /\ Made \subseteq Nodes
    BY RelayIsClosed, EdgesAre
  <2> QED
    BY <2>1, <2>2
<1>2. ASSUME NEW g \in Generated, NEW d \in Cmds, <<g, d>> \in L \ N PROVE d \in D
  <2>1. d = c /\ c \notin Compare /\ ReadsGenerated(c)
    BY <1>2, RelayIsClosed, OutLinksAre
  <2> QED
    BY <1>1, <2>1, RelayIsClosed
<1>3. ASSUME NEW n \in D, NEW m, <<n, m>> \in L \cup OutLinks PROVE m \in D
  <2>1. CASE <<n, m>> \in L \ N
    <3>1. n \in Generated /\ m \in Cmds
      BY <1>1, <2>1, EdgesAre, MadeAre
    <3> QED
      BY <1>2, <2>1, <3>1
  <2> QED
    BY <1>1, <1>3, <2>1
<1>4. Due(L, M) \subseteq D
  <2>1. Closed(D, L \cup OutLinks)
    BY <1>3, ClosedIs
  <2>2. \A C \in SUBSET Nodes : M \cap Relay \subseteq C /\ Closed(C, L \cup OutLinks)
            => Due(L, M) \subseteq C
    BY DueIs
  <2>3. D \in SUBSET Nodes /\ M \cap Relay \subseteq D
    BY <1>1
  <2> QED
    BY <2>1, <2>2, <2>3
<1>5. ASSUME NEW b \in Cmds \ (P \cup D), NEW f \in GeneratedReads(b) \ rule[b].sticky
      PROVE  (Reached({f}, N \cup OutLinks) \ {f}) \cap rule[b].sticky # {}
  <2>1. (Reached({f}, L \cup OutLinks) \ {f}) \cap rule[b].sticky # {}
    BY <1>4, <1>5 DEF Checked
  <2>2. D \cap rule[b].sticky = {}
    <3> SUFFICES ASSUME NEW s \in D, s \in rule[b].sticky PROVE FALSE
      OBVIOUS
    <3>1. s \in Files /\ s \in Generated
      BY <1>1, StickyLinksAre, MadeAre
    <3>2. <<s, b>> \in L
      BY <1>5, <3>1, DeclaredAreRead
    <3> QED
      BY <1>3, <1>5, <3>2
  <2>3. f \in Generated
    BY DEF GeneratedReads
  <2>4. Reached({f}, L \cup OutLinks) \subseteq Reached({f}, N \cup OutLinks) \cup D
    <3>1. D \in SUBSET Nodes /\ \A n \in D : \A m : <<n, m>> \in L \cup OutLinks => m \in D
      BY <1>1, <1>3
    <3>2. \A g \in Generated, d \in Cmds : <<g, d>> \in L \ N => d \in D
      BY <1>2
    <3> HIDE DEF D
    <3> QED
      BY <2>3, <3>1, <3>2, StillLeads
  <2> QED
    BY <2>1, <2>2, <2>4
<1> QED
  BY <1>5 DEF Checked

(* What a node leads to stays in a set that no edge leaves. *)
LEMMA ReachedIsInside ==
    ASSUME NEW E \in SUBSET (Nodes \X Nodes), NEW C \in SUBSET Nodes, NEW g \in C,
           \A n \in C : \A m : <<n, m>> \in E => m \in C
    PROVE  Reached({g}, E) \subseteq C
<1>1. Closed(C, E)
  <2> SUFFICES ASSUME NEW e \in E, e[1] \in C PROVE e[2] \in C
    BY DEF Closed
  <2>1. PICK n, m : e = <<n, m>>
    OBVIOUS
  <2> QED
    BY <2>1
<1>2. {g} \in SUBSET Nodes /\ {g} \subseteq C
  OBVIOUS
<1> QED
  BY <1>1, <1>2, ReachedIsLeast

(* Commands that declare nothing but their outputs have no loop. *)
LEMMA OutputsHaveNoLoop == NoLoop(OutLinks)
<1> SUFFICES ASSUME NEW B \in SUBSET Nodes, B # {}
             PROVE  \E n \in B : \A m \in B : <<m, n>> \notin OutLinks
  BY DEF NoLoop
<1>1. CASE \E n \in B : n \in Cmds
  BY <1>1, OutLinksAre
<1>2. CASE \A n \in B : n \notin Cmds
  BY <1>2, OutLinksAre
<1> QED
  BY <1>1, <1>2

(* Taking links away closes no loop. *)
LEMMA FewerHaveNoLoop ==
    ASSUME NEW E, NEW F \in SUBSET E, NoLoop(E)
    PROVE  NoLoop(F)
BY DEF NoLoop

(* Links to c from outside of what c leads to close no loop. *)
LEMMA NoNewLoop ==
    ASSUME NEW E, NoLoop(E), NEW c, NEW C \in SUBSET Nodes, c \in C, Closed(C, E),
           NEW F, \A n, m : <<n, m>> \in F => <<n, m>> \in E \/ (m = c /\ n \notin C)
    PROVE  NoLoop(F)
<1> SUFFICES ASSUME NEW B \in SUBSET Nodes, B # {}
             PROVE  \E n \in B : \A m \in B : <<m, n>> \notin F
  BY DEF NoLoop
<1>1. \A n \in C : \A m : <<n, m>> \in E => m \in C
  <2> SUFFICES ASSUME NEW n \in C, NEW m, <<n, m>> \in E PROVE m \in C
    OBVIOUS
  <2>1. <<n, m>>[1] = n /\ <<n, m>>[2] = m
    OBVIOUS
  <2> QED
    BY <2>1 DEF Closed
<1>2. CASE B \subseteq C
  <2>1. PICK n \in B : \A m \in B : <<m, n>> \notin E
    BY DEF NoLoop
  <2> QED
    BY <1>2, <2>1
<1>3. CASE ~(B \subseteq C)
  <2>1. PICK n \in B \ C : \A m \in B \ C : <<m, n>> \notin E
    <3>1. B \ C \in SUBSET Nodes /\ B \ C # {}
      BY <1>3
    <3> QED
      BY <3>1 DEF NoLoop
  <2>2. \A m \in B : <<m, n>> \notin F
    BY <1>1, <2>1
  <2> QED
    BY <2>2
<1> QED
  BY <1>2, <1>3

(* No set of commands is reached from itself by a link of each. *)
LEMMA FirstOfAll ==
    ASSUME NEW L \in SUBSET (Files \X Cmds), NoLoop(L \cup OutLinks),
           NEW B \in SUBSET Cmds, B # {}
    PROVE  \E c \in B : \A s \in Reached(B, L \cup OutLinks) : <<s, c>> \notin L
<1> DEFINE R == Reached(B, L \cup OutLinks)
<1>1. B \in SUBSET Nodes /\ L \cup OutLinks \in SUBSET (Nodes \X Nodes)
  BY EdgesAre DEF Nodes
<1>2. B \subseteq R /\ R \subseteq Nodes
      /\ \A n, m : <<n, m>> \in L \cup OutLinks /\ n \in R => m \in R
  BY <1>1, ReachedIsClosed
<1>3. PICK n \in R : \A m \in R : <<m, n>> \notin L \cup OutLinks
  BY <1>2 DEF NoLoop
<1>4. CASE n \in B
  BY <1>3, <1>4
<1>5. CASE n \notin B
  <2>1. R \ {n} \in SUBSET Nodes /\ B \subseteq R \ {n}
    BY <1>2, <1>5
  <2>2. Closed(R \ {n}, L \cup OutLinks)
    BY <1>2, <1>3, ClosedIs
  <2>3. R \subseteq R \ {n}
    BY <1>1, <2>1, <2>2, ReachedIsLeast
  <2> QED
    BY <1>3, <2>3
<1> QED
  BY <1>4, <1>5

-----------------------------------------------------------------------------
(* At the end of an update that succeeds nothing is flagged, so nothing is *)
(* due, and every command is accepted.                                     *)
LEMMA AcceptedAtSuccess ==
    ASSUME AcceptInv
    PROVE  StillAccepted
<1> SUFFICES ASSUME ~lost, Succeeded, NEW c \in Cmds,
                    NEW f \in GeneratedReads(c) \ rule[c].sticky
             PROVE  Connected(f, c)
  BY DEF StillAccepted, DependentsAreChecked
<1>1. modify = {} /\ Checked(links, modify)
  BY DEF AcceptInv
<1>2. modify \cap Relay = {} /\ {} \in SUBSET Nodes
  BY <1>1
<1>3. Due(links, modify) = {}
  BY <1>2, ReachedIsLeast DEF Due, Closed
<1> QED
  BY <1>1, <1>3 DEF Checked, Connected

(* A file that is read and not declared leads to a declared one along      *)
(* links, and each of these is declared or leads to a declared file again; *)
(* as the links have no loop, that comes to an end.                        *)
LEMMA OrderAtSuccess ==
    ASSUME \A d \in Cmds : Allowed[d] = {}, DeclaredIsRead, IndInv, AcceptInv
    PROVE  DeclaredOrder
<1> SUFFICES ASSUME Succeeded, ~lost, NEW c \in Cmds, NEW f \in GeneratedReads(c)
             PROVE  c \in Reached({f}, StickyLinks \cup OutLinks)
  BY DEF DeclaredOrder
<1> DEFINE E == links \cup OutLinks
           D == StickyLinks \cup OutLinks
           Bad == {b \in Cmds : \E g \in GeneratedReads(b) : b \notin Reached({g}, D)}
<1>1. /\ modify = {} /\ links \in SUBSET (Files \X Cmds) /\ NoLoop(E)
      /\ LinksAreReads(links, modify) /\ Shapes
  BY DEF IndInv, AcceptInv, Shapes
<1>2. \A b \in Cmds : \A g \in GeneratedReads(b) \ rule[b].sticky : Connected(g, b)
  BY AcceptedAtSuccess DEF StillAccepted, DependentsAreChecked
<1>3. D \in SUBSET (Nodes \X Nodes)
  <2>1. StickyLinks \subseteq Files \X Cmds
    BY <1>1, StickyLinksAre DEF StickyLinks
  <2> QED
    BY <2>1, EdgesAre
<1>4. ASSUME NEW g \in Generated
      PROVE  /\ g \in Reached({g}, D) /\ Reached({g}, D) \in SUBSET Nodes
             /\ \A n, m : <<n, m>> \in D /\ n \in Reached({g}, D) => m \in Reached({g}, D)
  <2>1. {g} \in SUBSET Nodes
    BY OutLinksAre DEF Nodes
  <2> QED
    BY <1>3, <2>1, ReachedIsClosed
<1>5. \A b \in Cmds : GeneratedReads(b) \subseteq Generated
  BY DEF GeneratedReads
<1>6. Bad # {} => \E b \in Bad : \A s \in Reached(Bad, E) : <<s, b>> \notin links
  BY <1>1, FirstOfAll
<1>7. ASSUME NEW b \in Bad PROVE \E s \in Reached(Bad, E) : <<s, b>> \in links
  <2>1. PICK g \in GeneratedReads(b) : b \notin Reached({g}, D)
    OBVIOUS
  <2>2. b \in Cmds /\ g \in Generated
    BY <1>5
  <2> DEFINE X == Reached({g}, D)
             R == Reached(Bad, E)
  <2>3. g \in X /\ X \in SUBSET Nodes /\ \A n, m : <<n, m>> \in D /\ n \in X => m \in X
    BY <1>4, <2>2
  <2>4. Bad \subseteq R /\ R \subseteq Nodes /\ \A n, m : <<n, m>> \in E /\ n \in R => m \in R
    <3>1. Bad \in SUBSET Nodes /\ E \in SUBSET (Nodes \X Nodes)
      BY <1>1, EdgesAre DEF Nodes
    <3> QED
      BY <3>1, ReachedIsClosed
  <2>5. X \subseteq Made
    <3>1. Closed(Made, D)
      <4> SUFFICES ASSUME NEW e \in D, e[1] \in Made PROVE e[2] \in Made
        BY DEF Closed
      <4>1. CASE e \in StickyLinks
        BY <4>1, MadeAre DEF StickyLinks
      <4>2. CASE e \in OutLinks
        BY <4>2, MadeAre, OutLinksAre
      <4> QED
        BY <4>1, <4>2
    <3> QED
      BY <2>2, <3>1, MadeAre, ReachedIsLeast
  <2>6. g \notin rule[b].sticky
    BY <1>1, <2>1, <2>2, <2>3, StickyLinksAre
  <2>7. PICK s \in Reached({g}, E) : s \in rule[b].sticky
    BY <1>2, <2>1, <2>2, <2>6 DEF Connected
  <2>8. s \notin X
    BY <1>1, <2>1, <2>2, <2>3, <2>7, StickyLinksAre
  <2>9. ASSUME NEW n \in X \cup R, NEW m, <<n, m>> \in E PROVE m \in X \cup R
    <3>1. CASE n \in R
      BY <2>4, <2>9, <3>1
    <3>2. CASE n \in X /\ <<n, m>> \in OutLinks
      BY <2>3, <3>2
    <3>3. CASE n \in X /\ <<n, m>> \in links
      <4>1. n \in Generated /\ m \in Cmds
        BY <1>1, <2>5, <3>3, MadeAre
      <4>2. n \in DOMAIN seen[m]
        BY <1>1, <3>3, <4>1, OutLinksAre DEF LinksAreReads
      <4>3. n \in GeneratedReads(m)
        BY <4>1, <4>2 DEF GeneratedReads
      <4>4. CASE m \in Bad
        BY <2>4, <4>4
      <4>5. CASE m \in Reached({n}, D)
        <5> HIDE DEF X, D
        <5>1. Reached({n}, D) \subseteq X
          BY <1>3, <2>3, <3>3, ReachedIsInside
        <5> QED
          BY <4>5, <5>1
      <4> QED
        BY <4>1, <4>3, <4>4, <4>5
    <3> QED
      BY <2>9, <3>1, <3>2, <3>3
  <2>10. Reached({g}, E) \subseteq X \cup R
    <3> HIDE DEF X, R, E
    <3>1. X \cup R \in SUBSET Nodes /\ g \in X \cup R
      BY <2>3, <2>4
    <3>2. E \in SUBSET (Nodes \X Nodes)
      BY <1>1, EdgesAre DEF E
    <3> QED
      BY <2>9, <3>1, <3>2, ReachedIsInside
  <2>11. Reached({g}, E) \subseteq Made
    <3>1. E \in SUBSET (Nodes \X Nodes) /\ Made \in SUBSET Nodes /\ g \in Made
      BY <1>1, <2>2, EdgesAre, MadeAre
    <3>2. \A n \in Made : \A m : <<n, m>> \in E => m \in Made
      BY <1>1, EdgesAre
    <3> HIDE DEF E
    <3> QED
      BY <3>1, <3>2, ReachedIsInside
  <2>12. s \in R /\ s \in Generated
    <3>1. s \in Files
      BY <1>1, <2>2, <2>7, StickyLinksAre
    <3> QED
      BY <2>5, <2>7, <2>8, <2>10, <2>11, <3>1, MadeAre
  <2> QED
    BY <1>1, <2>1, <2>2, <2>6, <2>7, <2>12, DeclaredAreRead
<1>8. Bad = {}
  BY <1>6, <1>7
<1> QED
  BY <1>8

-----------------------------------------------------------------------------
(* The links stay, and so does who is due or flagged. *)
LEMMA LinksStay ==
    ASSUME AcceptInv, UNCHANGED <<links, rule, seen, lost>>, NEW N, N = modify',
           \A c \in Cmds : c \in modify \cup Due(links, modify) => c \in N \cup Due(links, N),
           Succeeded' => N = {},
           phase' = "update" => phase = "update" /\ saved' = saved
    PROVE  AcceptInv'
<1>1. /\ NoLoop(links \cup OutLinks) /\ LinksOfRules(links)
      /\ ~lost => Checked(links, modify)
      /\ phase = "update" =>
             /\ NoLoop(saved.links \cup OutLinks) /\ LinksOfRules(saved.links)
             /\ ~lost => Checked(saved.links, saved.modify)
  BY DEF AcceptInv
<1>2. ~lost => Checked(links, N)
  BY <1>1, StaysChecked
<1>3. NoLoop(links \cup OutLinks)' /\ LinksOfRules(links)'
  BY <1>1 DEF NoLoop, LinksOfRules
<1>4. (~lost => Checked(links, modify))'
  BY <1>2 DEF Checked, GeneratedReads, Due
<1>5. ASSUME phase' = "update"
      PROVE  /\ NoLoop(saved.links \cup OutLinks)' /\ LinksOfRules(saved.links)'
             /\ (~lost => Checked(saved.links, saved.modify))'
  BY <1>1, <1>5 DEF NoLoop, LinksOfRules, Checked, GeneratedReads, Due
<1> QED
  BY <1>3, <1>4, <1>5 DEF AcceptInv

(* An edit changes neither links nor flags. *)
LEMMA EditKeepsAccept ==
    ASSUME CompareFirst, IndInv, AcceptInv, NEW f \in Files, NEW v \in Values, Edit(f, v)
    PROVE  AcceptInv'
<1>1. UNCHANGED <<links, rule, seen, lost, modify>> /\ phase' = "idle" /\ result' = "none"
  BY DEF Edit
<1> QED
  BY <1>1, LinksStay DEF Succeeded

(* The scan takes a missing file off the list, but flags the command that  *)
(* makes it.                                                               *)
LEMMA ScanKeepsAccept ==
    ASSUME CompareFirst, IndInv, AcceptInv, Scan
    PROVE  AcceptInv'
<1> DEFINE missing == {f \in Generated : fs[f] = Gone}
           makers  == {c \in Cmds : Outputs[c] \cap (touched \cup missing) # {}}
<1>1. /\ phase' = "scanned" /\ UNCHANGED <<links, rule, seen, lost>>
      /\ modify' = (modify \ missing) \cup touched \cup makers
  BY DEF Scan
<1>2. PICK N : N = modify'
  OBVIOUS
<1>3. \A c \in Cmds : c \in modify => c \in N
  BY <1>1, <1>2, OutLinksAre
<1>4. links \in SUBSET (Files \X Cmds) /\ LinksOfRules(links)
  BY DEF IndInv, Shapes, AcceptInv
<1>5. /\ N \cap Relay \subseteq Due(links, N)
      /\ \A n, m : <<n, m>> \in links \cup OutLinks /\ n \in Due(links, N) => m \in Due(links, N)
  BY <1>4, DueIs
<1>6. modify \cap Relay \subseteq Due(links, N)
  <2> SUFFICES ASSUME NEW n \in modify \cap Relay, n \notin N PROVE n \in Due(links, N)
    BY <1>5
  <2>1. n \in missing
    BY <1>1, <1>2
  <2>2. PICK d \in Cmds : n \in Outputs[d] /\ d \notin Compare /\ ReadsGenerated(d)
    BY <2>1, OutLinksAre DEF Relay
  <2>3. d \in N \cap Relay
    BY <1>1, <1>2, <1>4, <2>1, <2>2, RelayIsClosed
  <2> QED
    BY <1>5, <2>2, <2>3, OutLinksAre
<1>7. Due(links, modify) \subseteq Due(links, N)
  BY <1>4, <1>6, MoreIsDue
<1> HIDE DEF missing, makers
<1> QED
  BY <1>1, <1>2, <1>3, <1>7, LinksStay DEF Succeeded

(* The graph is built from the database of the last commit. *)
LEMMA BuildGraphKeepsAccept ==
    ASSUME IndInv, AcceptInv, BuildGraph
    PROVE  AcceptInv'
<1>1. /\ phase = "scanned" /\ phase' = "update"
      /\ UNCHANGED <<links, rule, seen, lost, modify, saved>>
  BY DEF BuildGraph
<1>2. saved = [links |-> links, modify |-> modify]
  BY <1>1 DEF IndInv, ScannedInv
<1>3. /\ NoLoop(links \cup OutLinks) /\ LinksOfRules(links)
      /\ ~lost => Checked(links, modify)
  BY DEF AcceptInv
<1>4. /\ NoLoop(links \cup OutLinks)' /\ LinksOfRules(links)'
      /\ (~lost => Checked(links, modify))'
  BY <1>1, <1>3 DEF NoLoop, LinksOfRules, Checked, GeneratedReads, Due
<1>5. saved.links = links /\ saved.modify = modify
  BY <1>2
<1>6. /\ NoLoop(saved.links \cup OutLinks)' /\ LinksOfRules(saved.links)'
      /\ (~lost => Checked(saved.links, saved.modify))'
  BY <1>1, <1>3, <1>5 DEF NoLoop, LinksOfRules, Checked, GeneratedReads, Due
<1> QED
  BY <1>1, <1>4, <1>6 DEF AcceptInv, Succeeded

(* Flags only come in, and commands are not taken off the list. *)
LEMMA FlagsStay ==
    ASSUME CompareFirst, IndInv, AcceptInv, UNCHANGED <<links, rule, seen, lost, saved>>,
           modify \subseteq modify', phase' = phase, phase = "update"
    PROVE  AcceptInv'
<1>1. PICK N : N = modify'
  OBVIOUS
<1>2. links \in SUBSET (Files \X Cmds) /\ LinksOfRules(links)
  BY DEF IndInv, Shapes, AcceptInv
<1>3. N \cap Relay \subseteq Due(links, N)
  BY <1>2, DueIs
<1>4. modify \cap Relay \subseteq Due(links, N)
  BY <1>1, <1>3
<1>5. Due(links, modify) \subseteq Due(links, N)
  BY <1>2, <1>4, MoreIsDue
<1> QED
  BY <1>1, <1>5, LinksStay DEF Succeeded

(* A command that is skipped was not flagged. *)
LEMMA SkipCmdKeepsAccept ==
    ASSUME CompareFirst, IndInv, AcceptInv, NEW d \in Cmds, SkipCmd(d)
    PROVE  AcceptInv'
<1>1. /\ phase = "update" /\ phase' = phase /\ d \in nodes /\ d \in skip
      /\ UNCHANGED <<links, rule, seen, lost, saved>>
      /\ modify \ {d} \subseteq modify'
  BY DEF SkipCmd, Ready, Through
<1>2. d \notin modify
  BY <1>1 DEF IndInv, UpdateInv, GraphInv
<1> QED
  BY <1>1, <1>2, FlagsStay

(* A command keeps its flag and its links while it runs. *)
LEMMA StartCmdKeepsAccept ==
    ASSUME CompareFirst, IndInv, AcceptInv, NEW d \in Cmds, StartCmd(d)
    PROVE  AcceptInv'
<1>1. /\ phase = "update" /\ phase' = phase
      /\ UNCHANGED <<links, rule, seen, lost, saved, modify>>
  BY DEF StartCmd, Ready
<1> QED
  BY <1>1, FlagsStay

(* ... and when it cannot be run. *)
LEMMA ExecErrorKeepsAccept ==
    ASSUME CompareFirst, IndInv, AcceptInv, NEW d \in Cmds, ExecError(d)
    PROVE  AcceptInv'
<1>1. d \in Running /\ phase' = phase /\ UNCHANGED <<links, rule, seen, lost, saved, modify>>
  BY DEF ExecError
<1>2. phase = "update"
  BY <1>1 DEF IndInv, Shapes
<1> QED
  BY <1>1, <1>2, FlagsStay

(* A flagged file hands its flag to all that read it. *)
LEMMA VisitFileKeepsAccept ==
    ASSUME CompareFirst, IndInv, AcceptInv, NEW f \in Files, VisitFile(f)
    PROVE  AcceptInv'
<1>1. /\ phase = "update" /\ phase' = phase /\ GraphInv /\ f \in nodes
      /\ UNCHANGED <<links, rule, seen, lost, saved>>
      /\ modify \ {f} \subseteq modify'
      /\ f \notin skip => ModifyOutputs(f) \ {f} \subseteq modify'
  BY DEF VisitFile, Ready, IndInv, UpdateInv
<1>2. PICK N : N = modify'
  OBVIOUS
<1>3. links \in SUBSET (Files \X Cmds) /\ LinksOfRules(links)
  BY DEF IndInv, Shapes, AcceptInv
<1>4. /\ N \cap Relay \subseteq Due(links, N) /\ Due(links, N) \subseteq Relay
      /\ \A n, m : <<n, m>> \in links \cup OutLinks /\ n \in Due(links, N) => m \in Due(links, N)
  BY <1>3, DueIs
<1>5. f \notin Cmds
  BY OutLinksAre
<1>6. CASE f \in modify \cap Relay
  <2>1. f \in Generated /\ f \notin skip
    BY <1>1, <1>3, <1>6, RelayIsClosed, MadeAre DEF GraphInv
  <2>2. ASSUME NEW m, <<f, m>> \in links \cup OutLinks PROVE m \in Due(links, N)
    <3>1. <<f, m>> \in links /\ m \in Cmds
      BY <1>3, <1>5, <2>2, EdgesAre, OutLinksAre
    <3>2. m \in ModifyOutputs(f)
      BY <1>1, <2>1, <3>1, ModifyOutputsAre DEF GraphInv
    <3>3. m \in N /\ m \in Relay
      BY <1>1, <1>2, <1>3, <1>5, <1>6, <2>1, <2>2, <3>1, <3>2, RelayIsClosed
    <3> QED
      BY <1>4, <3>3
  <2> DEFINE K == Due(links, N) \cup {f}
  <2>3. K \in SUBSET Nodes /\ modify \cap Relay \subseteq K
    <3>1. Due(links, N) \subseteq Nodes
      BY <1>3, <1>4, RelayIsClosed, MadeAre
    <3> QED
      BY <1>1, <1>2, <1>4, <3>1 DEF Nodes
  <2>4. Closed(K, links \cup OutLinks)
    BY <1>3, <1>4, <2>2, ClosedIs
  <2>5. \A C \in SUBSET Nodes : modify \cap Relay \subseteq C /\ Closed(C, links \cup OutLinks)
            => Due(links, modify) \subseteq C
    BY <1>3, DueIs
  <2>6. Due(links, modify) \subseteq K
    BY <2>3, <2>4, <2>5
  <2> QED
    BY <1>1, <1>2, <1>5, <2>6, LinksStay DEF Succeeded
<1>7. CASE f \notin modify \cap Relay
  <2>1. modify \cap Relay \subseteq Due(links, N)
    BY <1>1, <1>2, <1>4, <1>7
  <2>2. Due(links, modify) \subseteq Due(links, N)
    BY <1>3, <2>1, MoreIsDue
  <2> QED
    BY <1>1, <1>2, <1>5, <2>2, LinksStay DEF Succeeded
<1> QED
  BY <1>6, <1>7

(* A success has visited every node of the graph, so that no flag is left. *)
LEMMA EndUpdateKeepsAccept ==
    ASSUME IndInv, AcceptInv, EndUpdate
    PROVE  AcceptInv'
<1>1. /\ phase = "update" /\ phase' = "idle" /\ UNCHANGED <<links, rule, seen, lost, modify>>
      /\ result' = "ok" => nodes = {}
  BY DEF EndUpdate
<1>2. Succeeded' => modify = {}
  BY <1>1 DEF Succeeded, IndInv, UpdateInv, GraphInv
<1> QED
  BY <1>1, <1>2, LinksStay

(* A kill goes back to the links and the flags of the last commit. *)
LEMMA KillKeepsAccept ==
    ASSUME IndInv, AcceptInv, Kill
    PROVE  AcceptInv'
<1>1. /\ phase = "update" /\ phase' = "idle" /\ result' = "fail"
      /\ links' = saved.links /\ modify' = saved.modify /\ UNCHANGED <<rule, seen, lost>>
  BY DEF Kill
<1>2. /\ NoLoop(saved.links \cup OutLinks) /\ LinksOfRules(saved.links)
      /\ ~lost => Checked(saved.links, saved.modify)
  BY <1>1 DEF AcceptInv
<1>3. /\ NoLoop(links \cup OutLinks)' /\ LinksOfRules(links)'
      /\ (~lost => Checked(links, modify))'
  BY <1>1, <1>2 DEF NoLoop, LinksOfRules, Checked, GeneratedReads, Due
<1> QED
  BY <1>1, <1>3 DEF AcceptInv, Succeeded

(* rm_sticky() flags the command when a link goes; when none goes, what it *)
(* relied on is still declared.                                            *)
LEMMA WriteInputsKeepsAccept ==
    ASSUME CompareFirst, DeclaredIsRead, IndInv, AcceptInv,
           NEW c \in Cmds, NEW r \in Rules[c], WriteInputs(c, r)
    PROVE  AcceptInv'
<1> DEFINE removed == RmSticky(c, rule[c].sticky, r.sticky)
           script  == r.reads # rule[c].reads \/ r.writes # rule[c].writes
<1>1. /\ phase' = "idle" /\ result' = "none" /\ rule' = [rule EXCEPT ![c] = r]
      /\ links' = links \ removed /\ seen' = seen
      /\ modify' = IF removed # {} \/ script THEN modify \cup {c} ELSE modify
      /\ lost' = (lost \/ (c \in Compare /\ removed \cap (Generated \X {c}) # {}))
  BY DEF WriteInputs
<1>2. rule'[c] = r /\ \A d \in Cmds \ {c} : rule'[d] = rule[d]
  BY <1>1 DEF IndInv, Shapes
<1>3. \A g, d : <<g, d>> \in removed <=>
          <<g, d>> \in links /\ d = c /\ g \in rule[c].sticky \ r.sticky
  BY DEF RmSticky
<1>4. /\ Shapes /\ links \in SUBSET (Files \X Cmds) /\ NoLoop(links \cup OutLinks)
      /\ LinksOfRules(links) /\ LinksAreReads(links, modify)
      /\ ~lost => Checked(links, modify)
  BY DEF IndInv, Shapes, AcceptInv
<1>5. PICK L, M : L = links' /\ M = modify'
  OBVIOUS
<1>6. L \in SUBSET (Files \X Cmds) /\ LinksOfRules(L) /\ NoLoop(L \cup OutLinks)
  <2>1. L \subseteq links
    BY <1>1, <1>5
  <2>2. NoLoop(L \cup OutLinks)
    BY <1>4, <2>1, FewerHaveNoLoop
  <2> QED
    BY <1>4, <2>1, <2>2 DEF LinksOfRules
<1>7. ASSUME ~lost', NEW b \in Cmds \ (M \cup Due(L, M)),
             NEW f \in GeneratedReads(b) \ rule'[b].sticky
      PROVE  (Reached({f}, L \cup OutLinks) \ {f}) \cap rule'[b].sticky # {}
  <2>1. ~lost /\ Checked(links, modify)
    BY <1>1, <1>4, <1>7
  <2>2. CASE removed # {} \/ script
    <3>1. M = modify \cup {c} /\ b # c /\ rule'[b] = rule[b]
      BY <1>1, <1>2, <1>5, <1>7, <2>2
    <3>2. \A g \in Files, d \in Cmds \ {c} : <<g, d>> \in L <=> <<g, d>> \in links
      BY <1>1, <1>3, <1>5
    <3>3. \A g \in Generated : <<g, c>> \in links \ L => c \notin Compare
      <4> SUFFICES ASSUME NEW g \in Generated, <<g, c>> \in links \ L, c \in Compare PROVE FALSE
        OBVIOUS
      <4>1. <<g, c>> \in removed
        BY <1>1, <1>5
      <4>2. <<g, c>> \in removed \cap (Generated \X {c})
        BY <4>1
      <4> HIDE DEF removed
      <4> QED
        BY <1>1, <1>7, <4>2
    <3>4. Checked(L, modify \cup {c})
      BY <1>4, <1>6, <2>1, <3>2, <3>3, LinksChange
    <3> QED
      BY <1>7, <3>1, <3>4 DEF Checked
  <2>3. CASE removed = {} /\ ~script
    <3>1. L = links /\ M = modify
      BY <1>1, <1>5, <2>3
    <3>2. CASE b # c
      BY <1>2, <1>7, <2>1, <3>1, <3>2 DEF Checked
    <3>3. CASE b = c
      <4>1. f \in Generated /\ f \in DOMAIN seen[c] /\ f \in Files
        BY <3>3, OutLinksAre DEF GeneratedReads
      <4>2. f \notin rule[c].sticky
        BY <1>2, <1>3, <1>4, <1>7, <2>3, <3>1, <3>3, <4>1 DEF LinksAreReads
      <4>3. PICK s \in Reached({f}, links \cup OutLinks) \ {f} : s \in rule[c].sticky
        BY <1>7, <2>1, <3>1, <3>3, <4>2 DEF Checked
      <4>4. s \in Generated
        <5>1. Reached({f}, links \cup OutLinks) \subseteq Made
          BY <1>4, <4>1, EdgesAre, MadeAre, ReachedIsInside
        <5> QED
          BY <1>4, <4>3, <5>1, StickyLinksAre, MadeAre
      <4>5. <<s, c>> \in links
        BY <1>4, <1>7, <3>1, <3>3, <4>2, <4>3, <4>4, DeclaredAreRead
      <4>6. s \in r.sticky
        BY <1>3, <2>3, <4>3, <4>5
      <4> QED
        BY <1>2, <3>1, <3>3, <4>3, <4>6
    <3> QED
      BY <3>2, <3>3
  <2> QED
    BY <2>2, <2>3
<1>8. (~lost => Checked(links, modify))'
  BY <1>1, <1>5, <1>7 DEF Checked, GeneratedReads, Due
<1>9. NoLoop(links \cup OutLinks)' /\ LinksOfRules(links)'
  BY <1>5, <1>6 DEF NoLoop, LinksOfRules
<1> QED
  BY <1>1, <1>8, <1>9 DEF AcceptInv, Succeeded

(* What write_files() makes of the links of a command keeps them in line  *)
(* with the rules, and closes no loop.                                    *)
LEMMA ActualLinksKeep ==
    ASSUME \A d \in Cmds : Allowed[d] = {}, Shapes, LinksOfRules(links),
           NoLoop(links \cup OutLinks), NEW c \in Cmds, RunningAt(c),
           NEW L, L = links \/ L = ActualLinks(c)
    PROVE  /\ L \in SUBSET (Files \X Cmds) /\ LinksOfRules(L) /\ NoLoop(L \cup OutLinks)
           /\ \A g \in Files, d \in Cmds \ {c} : <<g, d>> \in L <=> <<g, d>> \in links
<1>1. CASE L = links
  BY <1>1 DEF Shapes
<1>2. CASE L = ActualLinks(c)
  <2>1. /\ Reads(c) = rule[c].reads \ Outputs[c] /\ Reads(c) \subseteq Files
        /\ rule[c] \in Rules[c] /\ c \in nodes /\ links \in SUBSET (Files \X Cmds)
    BY StickyLinksAre DEF RunningAt, Shapes
  <2>2. /\ L \in SUBSET (Files \X Cmds)
        /\ \A g \in Files, d \in Cmds \ {c} : <<g, d>> \in L <=> <<g, d>> \in links
        /\ \A g \in Files : <<g, c>> \in L => /\ g \in Reads(c)
                                              /\ <<g, c>> \in links \/ g \notin MissingInputs(c)
    BY <1>2, <2>1, ActualLinksAre
  <2>3. LinksOfRules(L)
    <3> SUFFICES ASSUME NEW g \in Files, NEW d \in Cmds, <<g, d>> \in L
                 PROVE  \E r \in Rules[d] : g \in r.reads \ Outputs[d]
      BY <2>2 DEF LinksOfRules
    <3>1. CASE d = c
      BY <2>1, <2>2, <3>1
    <3>2. CASE d # c
      <4>1. <<g, d>> \in links /\ <<g, d>>[1] = g /\ <<g, d>>[2] = d
        BY <2>2, <3>2
      <4> QED
        BY <4>1 DEF LinksOfRules
    <3> QED
      BY <3>1, <3>2
  <2>4. PICK C \in SUBSET Made : Barred(C, c)
    BY DEF RunningAt
  <2>5. /\ C \in SUBSET Nodes /\ c \in C /\ Closed(C, links \cup OutLinks)
    BY <2>1, <2>4, MadeAre DEF Barred
  <2>6. \A g \in Reads(c) \ MissingInputs(c) : g \notin C
    BY <2>1, <2>4, Accepted
  <2>7. ASSUME NEW n, NEW m, <<n, m>> \in L \cup OutLinks
        PROVE  <<n, m>> \in links \cup OutLinks \/ (m = c /\ n \notin C)
    <3>1. CASE <<n, m>> \in OutLinks
      BY <3>1
    <3>2. CASE <<n, m>> \in L
      <4>1. n \in Files /\ m \in Cmds
        BY <2>2, <3>2
      <4> QED
        BY <2>2, <2>6, <3>2, <4>1
    <3> QED
      BY <2>7, <3>1, <3>2
  <2>8. NoLoop(L \cup OutLinks)
    BY <2>5, <2>7, NoNewLoop
  <2> QED
    BY <2>2, <2>3, <2>8
<1> QED
  BY <1>1, <1>2

(* A command that fails keeps its flag; an ^o command that loses a link to  *)
(* a generated file is left out by `lost`.                                 *)
LEMMA FailCmdKeepsAccept ==
    ASSUME \A d \in Cmds : Allowed[d] = {}, CompareFirst, DeclaredIsRead, IndInv, AcceptInv,
           NEW c \in Cmds, NEW v, NEW exit, FailCmd(c, v, exit)
    PROVE  AcceptInv'
<1>1. /\ c \in Running
      /\ links' = IF exit = "signal" THEN links ELSE ActualLinks(c)
      /\ lost' = (lost \/ (c \in Compare /\ exit # "signal" /\ ImportantLinkRemoved(c)))
      /\ UNCHANGED <<rule, modify, saved, phase, result, seen>>
  BY DEF FailCmd
<1>2. phase = "update" /\ UpdateInv
  BY <1>1 DEF IndInv, Shapes
<1>3. RunningAt(c) /\ c \in modify
  BY <1>1, <1>2 DEF UpdateInv, RunningInv, RunningAt
<1>4. /\ Shapes /\ links \in SUBSET (Files \X Cmds) /\ NoLoop(links \cup OutLinks)
      /\ LinksOfRules(links) /\ LinksAreReads(links, modify)
      /\ ~lost => Checked(links, modify)
  BY DEF IndInv, Shapes, AcceptInv
<1>5. PICK L : L = links'
  OBVIOUS
<1>6. /\ L \in SUBSET (Files \X Cmds) /\ LinksOfRules(L) /\ NoLoop(L \cup OutLinks)
      /\ \A g \in Files, d \in Cmds \ {c} : <<g, d>> \in L <=> <<g, d>> \in links
  <2>1. L = links \/ L = ActualLinks(c)
    BY <1>1, <1>5
  <2> QED
    BY <1>3, <1>4, <2>1, ActualLinksKeep
<1>7. ASSUME ~lost' PROVE Checked(L, modify)
  <2>1. \A g \in Generated : <<g, c>> \in links \ L => c \notin Compare
    <3> SUFFICES ASSUME NEW g \in Generated, <<g, c>> \in links, <<g, c>> \notin L
                 PROVE  c \notin Compare
      OBVIOUS
    <3>1. exit # "signal" /\ L = ActualLinks(c)
      BY <1>1, <1>5
    <3>2. g \notin Reads(c)
      BY <3>1 DEF ActualLinks
    <3> QED
      BY <1>1, <1>7, <3>1, <3>2 DEF ImportantLinkRemoved
  <2>2. Checked(links, modify)
    BY <1>1, <1>4, <1>7
  <2>3. Checked(L, modify \cup {c})
    BY <1>4, <1>6, <2>1, <2>2, LinksChange
  <2>4. modify \cup {c} = modify
    BY <1>3
  <2> QED
    BY <2>3, <2>4
<1>8. (~lost => Checked(links, modify))'
  BY <1>1, <1>5, <1>7 DEF Checked, GeneratedReads, Due
<1>9. NoLoop(links \cup OutLinks)' /\ LinksOfRules(links)'
  BY <1>5, <1>6 DEF NoLoop, LinksOfRules
<1>10. /\ NoLoop(saved.links \cup OutLinks)' /\ LinksOfRules(saved.links)'
       /\ (~lost => Checked(saved.links, saved.modify))'
  BY <1>1, <1>2 DEF AcceptInv, NoLoop, LinksOfRules, Checked, GeneratedReads, Due
<1> QED
  BY <1>1, <1>2, <1>8, <1>9, <1>10 DEF AcceptInv, Succeeded

(* A command that succeeds and loses such a link unskips its outputs, so   *)
(* that all who read them are flagged; and it was accepted itself.         *)
LEMMA EndCmdKeepsAccept ==
    ASSUME \A d \in Cmds : Allowed[d] = {}, CompareFirst, DeclaredIsRead, IndInv, AcceptInv,
           NEW c \in Cmds, NEW v \in Values, EndCmd(c, v)
    PROVE  AcceptInv'
<1> DEFINE skipped == skip \ Unskipped(c, v)
           next    == UNION {ModifyOutputs(f) : f \in (ModifyOutputs(c) \ skipped)}
<1>1. /\ c \in Running /\ WriteFilesOK(c) /\ links' = ActualLinks(c)
      /\ modify' = (modify \cup next) \ {c} /\ seen' = [seen EXCEPT ![c] = job[c].seen]
      /\ UNCHANGED <<rule, saved, phase, result, lost>>
  BY DEF EndCmd, Through
<1>2. phase = "update" /\ UpdateInv /\ phase' = "update"
  BY <1>1 DEF IndInv, Shapes
<1>3. GraphInv /\ RunningAt(c) /\ c \in modify /\ c \in nodes /\ c \notin Files
  BY <1>1, <1>2, OutLinksAre DEF UpdateInv, RunningInv, RunningAt
<1>4. /\ Shapes /\ links \in SUBSET (Files \X Cmds) /\ NoLoop(links \cup OutLinks)
      /\ LinksOfRules(links) /\ LinksAreReads(links, modify)
      /\ ~lost => Checked(links, modify)
  BY DEF IndInv, Shapes, AcceptInv
<1>5. PICK L, M : L = links' /\ M = modify'
  OBVIOUS
<1>6. /\ L \in SUBSET (Files \X Cmds) /\ LinksOfRules(L) /\ NoLoop(L \cup OutLinks)
      /\ \A g \in Files, d \in Cmds \ {c} : <<g, d>> \in L <=> <<g, d>> \in links
  BY <1>1, <1>3, <1>4, <1>5, ActualLinksKeep
<1>7. /\ Reads(c) = rule[c].reads \ Outputs[c] /\ Reads(c) \subseteq Files
      /\ MissingInputs(c) = {}
      /\ \A g \in Files : <<g, c>> \in L <=> g \in Reads(c)
  BY <1>1, <1>3, <1>4, <1>5, AcceptedIsCurrent, ActualLinksAre DEF WriteFilesOK
<1>8. /\ seen'[c] = job[c].seen /\ DOMAIN seen'[c] = Reads(c)
      /\ \A d \in Cmds \ {c} : seen'[d] = seen[d]
  BY <1>1, <1>4 DEF Shapes, Reads
<1> DEFINE D == Due(L, M)
           K == D \cup {c} \cup Outputs[c]
<1>9. /\ M \cap Relay \subseteq D /\ D \subseteq Relay /\ Relay \subseteq Made
      /\ \A n, m : <<n, m>> \in L \cup OutLinks /\ n \in D => m \in D
  <2>1. Relay \subseteq Made
    BY <1>4, RelayIsClosed
  <2> QED
    BY <1>6, <2>1, DueIs
<1>10. ASSUME NEW g \in Generated, NEW d \in Cmds, <<g, d>> \in links \ L
       PROVE  d = c /\ ReadsGenerated(c) /\ ImportantLinkRemoved(c)
  BY <1>4, <1>6, <1>7, <1>10, OutLinksAre, RelayIsClosed DEF ImportantLinkRemoved
\* The outputs of a command that another may have relied on are unskipped.
<1>11. ASSUME c \notin Compare \/ ImportantLinkRemoved(c) PROVE Outputs[c] \cap skipped = {}
  BY <1>3, <1>11 DEF Unskipped, RunningAt
<1>12. ASSUME Outputs[c] \cap skipped = {}, NEW g \in Outputs[c], NEW b, <<g, b>> \in links
       PROVE  b \in M /\ b \in Cmds /\ b # c
  <2>1. g \in Generated /\ g \in Files /\ b \in Cmds /\ g \in ModifyOutputs(c) /\ g \in nodes
    BY <1>3, <1>4, <1>12, OutLinksAre, ModifyOutputsAre
  <2>2. b \in ModifyOutputs(g)
    BY <1>3, <1>12, <2>1, ModifyOutputsAre DEF GraphInv
  <2>3. b # c
    BY <1>4, <1>12, <2>1, RelayIsClosed
  <2> QED
    BY <1>1, <1>5, <1>12, <2>1, <2>2, <2>3
<1>13. ASSUME ReadsGenerated(c), Outputs[c] \cap skipped = {}
       PROVE  /\ \A n \in K : \A m : <<n, m>> \in links \cup OutLinks => m \in K
              /\ \A g \in Outputs[c] : \A b : <<g, b>> \in links => b \in M
  <2>1. ASSUME NEW g \in Outputs[c], NEW b, <<g, b>> \in links PROVE b \in D /\ b \in M
    <3>1. b \in M /\ b \in Relay
      BY <1>4, <1>12, <1>13, <2>1, RelayIsClosed
    <3> QED
      BY <1>9, <3>1
  <2>2. ASSUME NEW n \in D, NEW m, <<n, m>> \in links PROVE m \in K
    <3>1. n \in Generated /\ m \in Cmds
      BY <1>4, <1>9, <2>2, MadeAre
    <3>2. CASE <<n, m>> \in L
      BY <1>9, <2>2, <3>2
    <3>3. CASE <<n, m>> \notin L
      BY <1>10, <2>2, <3>1, <3>3
    <3> QED
      BY <3>2, <3>3
  <2>3. ASSUME NEW m, <<c, m>> \in links \cup OutLinks PROVE m \in K
    BY <1>3, <1>4, <2>3, OutLinksAre
  <2>4. ASSUME NEW n \in Outputs[c], NEW m, <<n, m>> \in links \cup OutLinks PROVE m \in K
    BY <2>1, <2>4, OutLinksAre
  <2>5. ASSUME NEW n \in D, NEW m, <<n, m>> \in OutLinks PROVE m \in K
    BY <1>9, <2>5
  <2> QED
    BY <2>1, <2>2, <2>3, <2>4, <2>5
<1>14. K \in SUBSET Nodes /\ D \in SUBSET Nodes
  BY <1>9, MadeAre, OutLinksAre DEF Nodes
<1>15. \A b \in Cmds : b \in modify \cup Due(links, modify) => b = c \/ b \in M \cup D
  <2>1. \A b \in Cmds : b \in modify => b = c \/ b \in M
    BY <1>1, <1>5
  <2>2. modify \cap Relay \subseteq K
    BY <1>1, <1>5, <1>9
  <2>3. \A C \in SUBSET Nodes : modify \cap Relay \subseteq C /\ Closed(C, links \cup OutLinks)
            => Due(links, modify) \subseteq C
    BY <1>4, DueIs
  <2>4. CASE c \in Relay
    <3>1. ReadsGenerated(c) /\ Outputs[c] \cap skipped = {}
      BY <1>4, <1>11, <2>4, RelayIsClosed
    <3>2. \A n \in K : \A m : <<n, m>> \in links \cup OutLinks => m \in K
      BY <1>13, <3>1
    <3>3. Closed(K, links \cup OutLinks)
      <4> HIDE DEF K
      <4> QED
        BY <1>4, <3>2, ClosedIs
    <3>4. Due(links, modify) \subseteq K
      BY <1>14, <2>2, <2>3, <3>3
    <3> QED
      BY <2>1, <3>4, OutLinksAre
  <2>5. CASE c \notin Relay
    <3>1. modify \cap Relay \subseteq D
      BY <1>1, <1>5, <1>9, <2>5
    <3>2. ASSUME NEW n \in D, NEW m, <<n, m>> \in links \cup OutLinks PROVE m \in D
      <4>1. n \in Relay /\ m \in Relay
        BY <1>4, <1>9, <3>2, RelayIsClosed
      <4>2. CASE <<n, m>> \in L \cup OutLinks
        BY <1>9, <4>2
      <4>3. CASE <<n, m>> \in links \ L
        <5>1. n \in Generated /\ m \in Cmds
          BY <1>4, <1>9, <4>1, <4>3, MadeAre
        <5> QED
          BY <1>10, <2>5, <4>1, <4>3, <5>1
      <4> QED
        BY <3>2, <4>2, <4>3
    <3>3. Closed(D, links \cup OutLinks)
      <4> HIDE DEF D
      <4> QED
        BY <1>4, <3>2, ClosedIs
    <3>4. Due(links, modify) \subseteq D
      BY <1>14, <2>3, <3>1, <3>3
    <3> QED
      BY <2>1, <3>4
  <2> QED
    BY <2>4, <2>5
\* What the command itself read is accepted, and stays so.
<1>16. ASSUME NEW f \in (Reads(c) \cap Generated) \ rule[c].sticky
       PROVE  (Reached({f}, L \cup OutLinks) \ {f}) \cap rule[c].sticky # {}
  <2> DEFINE R == Reached({f}, L \cup OutLinks)
  <2>1. (Reached({f}, links \cup OutLinks) \ {f}) \cap rule[c].sticky # {}
    BY <1>7 DEF MissingInputs, Connected
  <2>2. f \in R /\ R \in SUBSET Nodes
        /\ \A n, m : <<n, m>> \in L \cup OutLinks /\ n \in R => m \in R
    <3>1. {f} \in SUBSET Nodes /\ L \cup OutLinks \in SUBSET (Nodes \X Nodes)
      BY <1>6, EdgesAre, MadeAre
    <3> QED
      BY <3>1, ReachedIsClosed
  <2>3. c \in R
    BY <1>7, <2>2
  <2>4. ASSUME NEW n \in R, NEW m, <<n, m>> \in links \cup OutLinks PROVE m \in R
    <3>1. CASE <<n, m>> \in L \cup OutLinks
      BY <2>2, <3>1
    <3>2. CASE <<n, m>> \in links \ L
      BY <1>4, <1>6, <2>3, <3>2
    <3> QED
      BY <2>4, <3>1, <3>2
  <2>5. Reached({f}, links \cup OutLinks) \subseteq R
    <3>1. links \cup OutLinks \in SUBSET (Nodes \X Nodes)
      BY <1>4, EdgesAre
    <3> HIDE DEF R
    <3> QED
      BY <2>2, <2>4, <3>1, ReachedIsInside
  <2> QED
    BY <2>1, <2>5
<1>17. ASSUME ~lost, NEW b \in Cmds \ (M \cup D), b # c,
              NEW f \in GeneratedReads(b) \ rule[b].sticky
       PROVE  (Reached({f}, L \cup OutLinks) \ {f}) \cap rule[b].sticky # {}
  <2>1. b \notin modify /\ b \notin Due(links, modify)
    BY <1>15, <1>17
  <2>2. (Reached({f}, links \cup OutLinks) \ {f}) \cap rule[b].sticky # {}
    BY <1>4, <1>17, <2>1 DEF Checked
  <2>3. f \in Generated
    BY DEF GeneratedReads
  <2>4. CASE ~ImportantLinkRemoved(c)
    <3>1. \A g \in Generated, d \in Cmds : <<g, d>> \in links \ L => d \in {}
      BY <1>10, <2>4
    <3>2. Reached({f}, links \cup OutLinks) \subseteq Reached({f}, L \cup OutLinks) \cup {}
      BY <1>4, <1>6, <2>3, <3>1, StillLeads
    <3> QED
      BY <2>2, <3>2
  <2>5. CASE ImportantLinkRemoved(c)
    <3>1. ReadsGenerated(c) /\ Outputs[c] \cap skipped = {}
      BY <1>4, <1>11, <2>5, RelayIsClosed DEF ImportantLinkRemoved
    <3>2. /\ \A n \in K : \A m : <<n, m>> \in links \cup OutLinks => m \in K
          /\ \A g \in Outputs[c] : \A d : <<g, d>> \in links => d \in M
      BY <1>13, <3>1
    <3>3. \A g \in Generated, d \in Cmds : <<g, d>> \in links \ L => d \in K
      BY <1>10
    <3>4. Reached({f}, links \cup OutLinks) \subseteq Reached({f}, L \cup OutLinks) \cup K
      <4> HIDE DEF K
      <4> QED
        BY <1>4, <1>6, <1>14, <2>3, <3>2, <3>3, StillLeads
    <3>5. K \cap rule[b].sticky = {}
      <4> SUFFICES ASSUME NEW s \in K, s \in rule[b].sticky PROVE FALSE
        OBVIOUS
      <4>1. s \in Files /\ s # c
        BY <1>3, <1>4, StickyLinksAre
      <4>2. s \in Generated
        BY <1>9, <4>1, MadeAre, OutLinksAre
      <4>3. <<s, b>> \in links
        BY <1>4, <2>1, <4>2, DeclaredAreRead
      <4>4. CASE s \in Outputs[c]
        BY <1>17, <3>2, <4>3, <4>4
      <4>5. CASE s \in D
        BY <1>6, <1>9, <1>17, <4>1, <4>3, <4>5
      <4> QED
        BY <4>1, <4>4, <4>5
    <3> QED
      BY <2>2, <3>4, <3>5
  <2> QED
    BY <2>4, <2>5
<1>18. ASSUME ~lost', NEW b \in Cmds \ (M \cup D), NEW f \in GeneratedReads(b)' \ rule'[b].sticky
       PROVE  (Reached({f}, L \cup OutLinks) \ {f}) \cap rule'[b].sticky # {}
  <2>1. CASE b = c
    <3>1. f \in (Reads(c) \cap Generated) \ rule[c].sticky
      BY <1>1, <1>8, <1>18, <2>1 DEF GeneratedReads
    <3> QED
      BY <1>1, <1>16, <2>1, <3>1
  <2>2. CASE b # c
    <3>1. f \in GeneratedReads(b) \ rule[b].sticky
      BY <1>1, <1>8, <1>18, <2>2 DEF GeneratedReads
    <3> QED
      BY <1>1, <1>17, <1>18, <2>2, <3>1
  <2> QED
    BY <2>1, <2>2
<1>19. (~lost => Checked(links, modify))'
  BY <1>5, <1>18 DEF Checked, Due
<1>20. NoLoop(links \cup OutLinks)' /\ LinksOfRules(links)'
  BY <1>5, <1>6 DEF NoLoop, LinksOfRules
<1>21. NoLoop(saved.links \cup OutLinks)' /\ LinksOfRules(saved.links)'
  BY <1>1, <1>2 DEF AcceptInv, NoLoop, LinksOfRules
<1>22. (~lost => Checked(saved.links, saved.modify))'
  <2> SUFFICES ASSUME ~lost', NEW b \in Cmds \ (saved.modify \cup Due(saved.links, saved.modify)),
                      NEW f \in GeneratedReads(b)' \ rule[b].sticky
               PROVE  (Reached({f}, saved.links \cup OutLinks) \ {f}) \cap rule[b].sticky # {}
    BY <1>1 DEF Checked, Due
  <2>1. DOMAIN seen'[b] = DOMAIN seen[b]
    BY <1>2, <1>7, <1>8 DEF UpdateInv, LinksAreReads
  <2>2. f \in GeneratedReads(b) \ rule[b].sticky
    BY <2>1 DEF GeneratedReads
  <2> QED
    BY <1>1, <1>2, <2>2 DEF AcceptInv, Checked
<1> QED
  BY <1>1, <1>2, <1>19, <1>20, <1>21, <1>22 DEF AcceptInv, Succeeded

(* Every command is flagged, and there are no links. *)
LEMMA InitAcceptInv ==
    ASSUME Init
    PROVE  AcceptInv
<1>1. links = {} /\ modify = Cmds /\ phase = "idle" /\ result = "none"
  BY DEF Init
<1>2. {} \cup OutLinks = OutLinks
  OBVIOUS
<1> QED
  BY <1>1, <1>2, OutputsHaveNoLoop DEF AcceptInv, LinksOfRules, Checked, Succeeded

(* One step per action. *)
LEMMA NextAcceptInv ==
    ASSUME \A d \in Cmds : Allowed[d] = {}, CompareFirst, DeclaredIsRead, IndInv, AcceptInv,
           [Next]_vars
    PROVE  AcceptInv'
<1>1. CASE User
  BY <1>1, EditKeepsAccept, WriteInputsKeepsAccept DEF User
<1>2. CASE Update
  BY <1>2, ScanKeepsAccept, BuildGraphKeepsAccept, VisitFileKeepsAccept, SkipCmdKeepsAccept,
     StartCmdKeepsAccept, EndCmdKeepsAccept, FailCmdKeepsAccept, ExecErrorKeepsAccept,
     EndUpdateKeepsAccept DEF Update
<1>3. CASE Kill
  BY <1>3, KillKeepsAccept
<1>4. CASE UNCHANGED vars
  <2>1. UNCHANGED <<links, rule, seen, lost, saved, modify, phase, result>>
    BY <1>4 DEF vars
  <2>2. PICK N : N = modify'
    OBVIOUS
  <2>3. Succeeded' => N = {}
    BY <2>1, <2>2 DEF AcceptInv, Succeeded
  <2> QED
    BY <2>1, <2>2, <2>3, LinksStay
<1> QED
  BY <1>1, <1>2, <1>3, <1>4 DEF Next

(* The invariant of what was accepted, in a project without allow_read in  *)
(* which commands read what they declare and an ^o command comes first.    *)
THEOREM AcceptInvariance ==
    ASSUME \A d \in Cmds : Allowed[d] = {}, CompareFirst, DeclaredIsRead
    PROVE  Spec => []AcceptInv
<1>1. Init => AcceptInv
  BY InitAcceptInv
<1>2. IndInv /\ AcceptInv /\ [Next]_vars => AcceptInv'
  BY NextAcceptInv
<1>3. Spec => []IndInv
  BY Invariance
<1> QED
  BY <1>1, <1>2, <1>3, PTL DEF Spec

(* An update that succeeds leaves no command with an undeclared input that *)
(* tup_db_check_actual_inputs() would not accept today: del_normal_link()  *)
(* unskips whoever relied on a link.                                       *)
THEOREM InputsStayAccepted ==
    ASSUME \A d \in Cmds : Allowed[d] = {}, CompareFirst, DeclaredIsRead
    PROVE  Spec => []StillAccepted
<1>1. AcceptInv => StillAccepted
  BY AcceptedAtSuccess
<1> QED
  BY <1>1, AcceptInvariance, PTL

(* After an update that succeeds the declarations alone order every        *)
(* command after what it reads, as the check of write_files() is there to  *)
(* see to: no missing input link is hidden by the links of other commands. *)
THEOREM OrderIsDeclared ==
    ASSUME \A d \in Cmds : Allowed[d] = {}, CompareFirst, DeclaredIsRead
    PROVE  Spec => []DeclaredOrder
<1>1. IndInv /\ AcceptInv => DeclaredOrder
  BY OrderAtSuccess
<1> QED
  BY <1>1, Invariance, AcceptInvariance, PTL

=============================================================================
