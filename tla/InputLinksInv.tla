--------------------------- MODULE InputLinksInv ----------------------------
(***************************************************************************)
(* The inductive invariants from which the properties follow, for projects *)
(* without allow_read.  For SeenIsCurrent: outside an update, what makes a *)
(* command out of date is flagged or will be noticed by the scan; during   *)
(* an update, it is still in the graph, before the command, and will       *)
(* unskip it; and what a rollback makes of the database flags enough, too. *)
(***************************************************************************)
EXTENDS InputLinks

(* The function variables are functions on their sets of names. *)
Shapes ==
    /\ DOMAIN fs = Files /\ DOMAIN rule = Cmds /\ DOMAIN job = Cmds /\ DOMAIN seen = Cmds
    /\ \A c \in Cmds : rule[c] \in Rules[c] /\ DOMAIN seen[c] \subseteq Files
    /\ phase # "update" => Running = {} /\ touched \subseteq Files
    /\ links \subseteq Files \X Cmds /\ placed \subseteq Generated

(* A command that is not flagged in M has in L the links of its last run, *)
(* and reads today what it read then.                                     *)
LinksAreReads(L, M) ==
    \A c \in Cmds \ M :
        /\ DOMAIN seen[c] = rule[c].reads \ Outputs[c]
        /\ \A f \in Files : <<f, c>> \in L <=> f \in DOMAIN seen[c]

(* c read f when it last succeeded, and f has changed since. *)
Stale(c, f) == f \in DOMAIN seen[c] /\ seen[c][f] # fs[f]

(* The command that writes f is flagged in M, and its next run unskips f. *)
Remade(f, M) == \E d \in Cmds \cap M : f \in Outputs[d] /\ d \notin Compare

(* The same, or it is flagged and the file is missing. *)
Unskips(f, M) == \E d \in Cmds \cap M : f \in Outputs[d] /\ (d \notin Compare \/ fs[f] = Gone)

Lost(f) == f \in Generated /\ fs[f] = Gone

(* Every command that is out of date and not flagged in M follows a file   *)
(* that is in D, is missing, or will be made again.                        *)
Noticed(M, D) ==
    ~masked => \A c \in Cmds \ M, f \in Files :
        Stale(c, f) => f \in D \/ Lost(f) \/ Remade(f, M)

ScannedInv ==
    /\ touched = {} /\ saved = [links |-> links, modify |-> modify]
    /\ modify \subseteq Nodes
    /\ ~masked => \A c \in Cmds \ modify, f \in Files :
           Stale(c, f) => f \in modify \/ Unskips(f, modify)

GraphInv ==
    /\ touched = {}
    /\ modify \subseteq nodes /\ nodes \subseteq Nodes
    /\ normal \subseteq edges /\ edges \subseteq nodes \X nodes
    /\ normal \subseteq (Files \X Cmds) \cup OutLinks
    /\ \A d \in Cmds \cap nodes : \A f \in Outputs[d] : <<d, f>> \in normal
    /\ \A f \in Generated \cap nodes, c \in Cmds : <<f, c>> \in links => <<f, c>> \in normal
    /\ \A c \in Cmds \cap nodes : \A f \in rule[c].sticky \cap nodes : <<f, c>> \in edges
    /\ \A c \in Cmds \cap nodes : c \in skip <=> c \notin modify
    /\ modify \cap skip = {}

Made == Cmds \cup Generated

(* Nothing that c declares can be reached from C, which holds everything   *)
(* that is still to be made.                                               *)
Barred(C, c) ==
    /\ Closed(C, links \cup OutLinks)
    /\ nodes \cap Made \subseteq C
    /\ C \cap rule[c].sticky = {}

(* A command that runs has nothing to wait for in the graph; what it read *)
(* has not changed since, except where write_files() will not accept it.  *)
RunningAt(c) ==
    /\ c \in nodes \cap modify
    /\ \A m \in nodes : <<m, c>> \notin edges
    /\ \A f \in Outputs[c] : fs[f] = Gone
    /\ c \notin Compare => Outputs[c] \cap skip = {}
    /\ Reads(c) = rule[c].reads \ Outputs[c]
    /\ \E C \in SUBSET Made : Barred(C, c) /\ \A f \in Reads(c) \ C : job[c].seen[f] = fs[f]

RunningInv == \A c \in Running : RunningAt(c)

(* What an ^o command moved away is what the commands that are not flagged *)
(* read, unless it was missing or is going to be noticed anyhow.           *)
Kept(M, D) ==
    ~masked => \A d \in Running \cap Compare, c \in Cmds \ M : \A f \in Outputs[d] \ D :
        f \in DOMAIN seen[c] => job[d].old[f] \in {Gone, seen[c][f]}

(* Every command that is out of date and not flagged comes, in the graph, *)
(* after a file that will unskip it.                                      *)
Ahead ==
    ~masked => \A c \in Cmds \ modify, f \in Files :
        Stale(c, f) => <<f, c>> \in normal /\ (f \in modify \/ Unskips(f, modify))

UpdateInv ==
    /\ GraphInv /\ RunningInv /\ Ahead
    /\ Kept(modify, modify) /\ Kept(saved.modify, saved.modify \cup placed)
    /\ saved.links \subseteq Files \X Cmds /\ saved.modify \subseteq Nodes
    /\ LinksAreReads(saved.links, saved.modify)
    /\ Noticed(saved.modify, saved.modify \cup placed)

IndInv ==
    /\ Shapes
    /\ LinksAreReads(links, modify)
    /\ phase \in {"idle", "scanned", "update"}
    /\ phase = "idle" => Noticed(modify, touched \cup modify) /\ modify \subseteq Nodes
    /\ phase = "scanned" => ScannedInv
    /\ phase = "update" => UpdateInv
    /\ SeenIsCurrent

-----------------------------------------------------------------------------
(***************************************************************************)
(* What the acceptance of a command's inputs relies on, for StillAccepted  *)
(* and DeclaredOrder.  A rule whose command reads an undeclared file is to *)
(* read what it declares (limit 17 of the README), and what an ^o command  *)
(* reads is to be made by commands that read no generated file themselves  *)
(* (limit 19).                                                             *)
(***************************************************************************)
FromOthers(c, r) == (r.reads \cap Generated) \ Outputs[c]

ReadsGenerated(c) == \E r \in Rules[c] : FromOthers(c, r) # {}

DeclaredIsRead ==
    \A c \in Cmds : \A r \in Rules[c] :
        FromOthers(c, r) \subseteq r.sticky \/ r.sticky \cap Generated \subseteq r.reads

CompareFirst ==
    \A c \in Compare : \A r \in Rules[c] : \A d \in Cmds \ {c} :
        r.reads \cap Outputs[d] # {} => ~ReadsGenerated(d)

(* No way along the edges of E leads back to where it started. *)
NoLoop(E) == \A B \in SUBSET Nodes : B # {} => \E n \in B : \A m \in B : <<m, n>> \notin E

(* A link is to a file that the command reads under some rule it may have. *)
LinksOfRules(L) == \A l \in L : \E r \in Rules[l[2]] : l[1] \in r.reads \ Outputs[l[2]]

(* The commands that may lose a link to a generated file, except for the  *)
(* ^o commands, and their outputs.                                        *)
Relay == UNION {{c} \cup Outputs[c] : c \in {d \in Cmds \ Compare : ReadsGenerated(d)}}

(* The commands that are going to run because of what is flagged in M. *)
Due(L, M) == Reached(M \cap Relay, L \cup OutLinks)

(* The inputs of every command that is not going to run are accepted. *)
Checked(L, M) ==
    \A c \in Cmds \ (M \cup Due(L, M)) : \A f \in GeneratedReads(c) \ rule[c].sticky :
        (Reached({f}, L \cup OutLinks) \ {f}) \cap rule[c].sticky # {}

AcceptInv ==
    /\ NoLoop(links \cup OutLinks) /\ LinksOfRules(links)
    /\ Succeeded => modify = {}
    /\ ~lost => Checked(links, modify)
    /\ phase = "update" =>
           /\ NoLoop(saved.links \cup OutLinks) /\ LinksOfRules(saved.links)
           /\ ~lost => Checked(saved.links, saved.modify)

=============================================================================
