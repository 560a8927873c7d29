--------------------------- MODULE UpdateNodesInv ---------------------------
(***************************************************************************)
(* The inductive invariants of UpdateNodes.  For projects without ^t,      *)
(* ShapeInv is about the graph: what is left of it, what was pruned, and   *)
(* that a missing file is ahead of its readers; FlagInv is about the       *)
(* modify list: a command that is not in it is up to date, or will be      *)
(* added because of a file it reads.  For projects without ^o,             *)
(* TransientInv is about the lists that lead to a transient file.          *)
(***************************************************************************)
EXTENDS UpdateNodes

Contents == Values \cup {Gone, Bad}

Typed ==
    /\ fs \in [Files -> Contents] /\ backup \in [Files -> Contents]
    /\ \A f \in Sources : fs[f] \in Values
    /\ job \in [Cmds -> Contents \cup {NoJob}]
    /\ touched \subseteq Files /\ placed \subseteq Files
    /\ modify \subseteq Nodes /\ nodes \subseteq Nodes
    /\ saved.modify \subseteq Nodes /\ saved.tlist = {}
    /\ tlist = {} /\ processing = {} /\ delete = {}
    /\ targets \subseteq Files
    /\ phase \in {"idle", "scanned", "update"}

(* A file that is missing is made again, for its command is flagged. *)
MissingFlagged == \A f \in Missing : \E p \in modify : p \in Cmds /\ f \in Outputs[p]

(* P is closed under the links, and holds what was pruned. *)
PrunedTo(P) ==
    /\ P \subseteq Nodes
    /\ \A n \in P : Succ(n) \subseteq P
    /\ P \cap nodes \subseteq Sources
    /\ P \cap Cmds \subseteq modify
    /\ P \cap targets = {}
    /\ targets = {} => P = {}

(***************************************************************************)
(* The graph: nodes with their links, from which nodes without incoming    *)
(* edges are taken.  A command is skipped if it is not flagged.            *)
(***************************************************************************)
GraphInv ==
    /\ edges = Within(nodes) /\ normal = edges
    /\ \E P \in SUBSET Nodes :
          /\ PrunedTo(P)
          /\ modify \subseteq nodes \cup P
          /\ \A n \in nodes : Succ(n) \subseteq nodes \cup P
    /\ \A c \in nodes \cap Cmds : Outputs[c] \subseteq nodes
    /\ \A c \in nodes \cap Cmds : c \in skip <=> c \notin modify
    /\ skip \cap modify = {}

(* A command that runs has nothing to wait for, and all its inputs. *)
RunningInv ==
    /\ \A c \in Running :
          /\ c \in nodes \cap modify
          /\ \A m \in nodes : <<m, c>> \notin edges
          /\ c \notin Compare => Outputs[c] \cap skip = {}
          /\ job[c] # Gone
    /\ \A c \in nodes \cap Cmds : \A f \in Outputs[c] :
          c \notin Running \cup failed => backup[f] = Gone

ShapeInv ==
    /\ Typed
    /\ phase # "update" => Running = {}
    /\ phase # "idle" => MissingFlagged /\ touched \subseteq Sources
    /\ phase = "scanned" => saved.modify = modify
    /\ phase = "update" => GraphInv /\ RunningInv
    /\ phase # "idle" /\ fresh => touched = {}

-----------------------------------------------------------------------------
(* The files as the readers of a ^o command know them while it runs. *)
Known == [f \in Files |-> IF \E p \in Running \cap Compare : f \in Outputs[p]
                          THEN backup[f] ELSE fs[f]]

(* The outputs of c are what it would write now. *)
Good(c) == \A f \in Outputs[c] : Known[f] = Written(c, Known)

(* The command that writes f is flagged in M, and its next run unskips f. *)
Remade(f, M) == \E p \in M \cap Cmds : f \in Outputs[p] /\ p \notin Compare

(* What is out of date is flagged in M, or will be in this update. *)
Ahead(M) ==
    \A c \in Cmds \ M :
        Good(c) \/ \E f \in Inputs[c] : f \in touched \cup M \/ Remade(f, M)

(* ... or will be in the next, T being the files with a new mtime. *)
Noticed(M, T) ==
    \A c \in Cmds \ M :
        \/ Good(c)
        \/ \E f \in Outputs[c] \cup Inputs[c] : f \in T \cup Missing
        \/ \E f \in Inputs[c] : f \in M \/ Remade(f, M)

(* Who reads what a ^o command has not made yet is flagged. *)
GoneFlagged ==
    \A p \in Compare, c \in Cmds : \A f \in Outputs[p] \cap Inputs[c] :
        Known[f] = Gone => c \in modify

(* A command that runs writes what its inputs call for. *)
JobsAreRight ==
    \A c \in Running : job[c] = Written(c, Known) \/ Inputs[c] \cap touched # {}

(* After an update that succeeded all that was not pruned is up to date. *)
AllGood ==
    phase = "idle" /\ result = "ok" /\ fresh =>
        \E P \in SUBSET Nodes :
            /\ \A n \in P : Succ(n) \subseteq P
            /\ P \cap targets = {} /\ (targets = {} => P = {})
            /\ \A c \in Cmds \ P : Good(c)

FlagInv ==
    /\ phase = "idle" => Noticed(modify, touched)
    /\ phase # "idle" => Ahead(modify)
    /\ phase = "update" /\ Compare = {} => Noticed(saved.modify, touched \cup placed)
    /\ GoneFlagged
    /\ JobsAreRight
    /\ AllGood

(***************************************************************************)
(* ^o is proved about without what makes an output disappear that was      *)
(* there: its next run would have nothing to compare with.                 *)
(***************************************************************************)
OutputsKept == Compare = {} \/ Faults \subseteq {"signal", "modify"}

(* The commands do not depend on what they write. *)
Acyclic ==
    \A A \in SUBSET Cmds : A # {} =>
        \E c \in A : \A d \in A : Outputs[d] \cap Inputs[c] = {}

-----------------------------------------------------------------------------
(***************************************************************************)
(* Transient files, in projects without ^o: one that exists is in a list   *)
(* from which the next update will find it, or will be deleted in this     *)
(* one.  A ^t command that failed must not have left its output (limit 11  *)
(* of the README), and a transient file must be read by something.         *)
(***************************************************************************)
TransientsAreRead == \A f \in TransientFiles : Readers(f) # {}

FailedLeaveNothing == \A c \in Transient \cap failed : \A f \in Outputs[c] : fs[f] = Gone

(* The graph of the modify list M and the transient list L has the file f *)
(* that c writes, together with c if it is not to be deleted unseen.      *)
Listed(f, c, M, L) == f \in L \/ (f \in M /\ c \in M \cup L)

(* How f, which c writes, will be found if it exists. *)
Found(f, c) ==
    fs[f] # Gone =>
        /\ phase = "idle" => f \in touched \/ Listed(f, c, modify, tlist)
        /\ phase # "idle" => Listed(f, c, modify, tlist)
        /\ phase = "update" =>
               /\ f \in tlist \/ (f \in nodes => c \in nodes)
               /\ f \in touched \cup placed \/ Listed(f, c, saved.modify, saved.tlist)
               /\ targets = {} => f \in processing \cup delete

(* What is skipped comes after something that is left; what will be       *)
(* deleted was visited, and comes after its command and its readers.      *)
LiveGraph ==
    /\ nodes \subseteq Nodes /\ edges \subseteq nodes \X nodes /\ normal \subseteq edges
    /\ skip \subseteq nodes
    /\ processing \cup delete \subseteq nodes \cap TransientFiles
    /\ \A n \in skip : \E m \in nodes : <<m, n>> \in normal
    /\ \A c \in nodes \cap Cmds : \A f \in Outputs[c] : f \in nodes /\ <<c, f>> \in edges
    /\ \A c \in Cmds, n \in nodes : <<c, n>> \in edges => n \in Outputs[c] \cup delete
    /\ \A f \in Files, n \in nodes : <<f, n>> \in edges => n \in Cmds
    /\ delete \cap (skip \cup processing) = {}
    /\ \A f \in delete, n \in nodes : <<f, n>> \notin edges
    /\ \A c \in Running :
          c \in nodes /\ Outputs[c] \cap skip = {} /\ \A m \in nodes : <<m, c>> \notin edges
    /\ targets = {} => \A c \in Transient \cap nodes : Outputs[c] \subseteq processing

TransientInv ==
    /\ DOMAIN fs = Files /\ DOMAIN job = Cmds
    /\ modify \subseteq Nodes /\ tlist \subseteq Transient \cup TransientFiles
    /\ saved.modify \subseteq Nodes /\ saved.tlist \subseteq Transient \cup TransientFiles
    /\ touched \cup placed \cup targets \subseteq Files /\ phase \in {"idle", "scanned", "update"}
    /\ phase # "update" => Running = {}
    /\ phase = "scanned" => saved = [modify |-> modify, tlist |-> tlist]
    /\ phase = "update" => LiveGraph
    /\ \A c \in Transient : \A f \in Outputs[c] : Found(f, c)
    /\ TransientFilesGone

=============================================================================
