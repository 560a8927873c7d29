----------------------------- MODULE InputLinks -----------------------------
(***************************************************************************)
(* What commands really read and write, against what their rules declare.  *)
(* The rule of a command declares its inputs (sticky links) and outputs;   *)
(* when the command ends, write_files() compares both with the accesses    *)
(* that the server saw, and makes the files that were read its normal      *)
(* links.  Normal links decide which commands an update runs again, sticky *)
(* and normal links in which order.                                        *)
(*                                                                         *)
(* Between two updates the user edits source files, the Tupfile (what a    *)
(* rule declares) and the scripts that the commands run (what they read    *)
(* and write): the command lines stay the same.  The update is that of     *)
(* module UpdateNodes without targets and transient files.  The server is  *)
(* the FUSE server: what a command writes goes to a temporary file first   *)
(* and is moved in place by write_files().                                 *)
(***************************************************************************)
EXTENDS Naturals, FiniteSets, Functions

CONSTANTS Cmds,      \* TUP_NODE_CMD nodes
          Files,     \* TUP_NODE_FILE and TUP_NODE_GENERATED nodes
          Outputs,   \* Outputs[c]: the files that command c declares it writes
          Rules,     \* Rules[c]: [sticky, reads, writes] that c may have
          Compare,   \* commands with the ^o flag
          Allowed,   \* Allowed[c]: files that match an allow_read pattern of c
          Values,    \* contents of files
          Gone,      \* there is no such file
          NoJob,     \* job[c] of a command that is not running
          MaxEvents  \* bound on the edits and faults

ASSUME LinksAssumption ==
    /\ Cmds \cap Files = {}
    /\ IsFiniteSet(Cmds) /\ IsFiniteSet(Files)
    /\ Outputs \in [Cmds -> SUBSET Files]
    /\ \A c, d \in Cmds : c # d => Outputs[c] \cap Outputs[d] = {}
    /\ \A c \in Cmds : Rules[c] \subseteq
           [sticky : SUBSET (Files \ Outputs[c]), reads : SUBSET Files, writes : SUBSET Files]
    /\ Compare \subseteq Cmds
    /\ Allowed \in [Cmds -> SUBSET Files]
    /\ Gone \notin Values /\ NoJob \notin Values
    /\ MaxEvents \in Nat

VARIABLES
    fs,      \* fs[f]: the content of f
    touched, \* files whose mtime is not the one in the database
    rule,    \* rule[c]: what c declares, reads and writes
    links,   \* normal_link from files to commands
    modify,  \* modify_list
    saved,   \* the database at the last commit
    phase,   \* "idle", "scanned" or "update"
    nodes, edges, normal, skip, \* the graph
    job,     \* job[c]: what c saw when it was started, and its old outputs
    failed,  \* commands that failed in this update
    placed,  \* files whose mtime changed since the last commit
    result,  \* how the last update ended
    seen,    \* seen[c]: what c read when it last succeeded
    lost,    \* an ^o command lost a link to a generated file, but not in a run that succeeded
    masked,  \* an ^o command failed and left an output that was missing but had been read
    events   \* number of edits and faults

disk  == <<fs, touched>>
graph == <<nodes, edges, normal, skip>>
vars  == <<fs, touched, rule, links, modify, saved, phase, nodes, edges, normal, skip, job,
           failed, placed, result, seen, lost, masked, events>>

Nodes     == Cmds \cup Files
Generated == UNION {Outputs[c] : c \in Cmds}
Sources   == Files \ Generated
OutLinks  == UNION {{c} \X Outputs[c] : c \in Cmds}
StickyLinks == UNION {rule[c].sticky \X {c} : c \in Cmds}

(* The nodes that S leads to along the edges of E: the least set of nodes *)
(* with those of S that no edge of E leaves.                              *)
Closed(C, E) == \A e \in E : e[1] \in C => e[2] \in C

Reached(S, E) ==
    LET closed == {C \in {S \cup T : T \in SUBSET (Nodes \ S)} : Closed(C, E)}
    IN  {n \in Nodes : \A C \in closed : n \in C}

TypeOK ==
    /\ fs \in [Files -> Values \cup {Gone}]
    /\ touched \subseteq Files /\ placed \subseteq Files
    /\ \A c \in Cmds : rule[c] \in Rules[c]
    /\ links \subseteq Files \X Cmds /\ modify \subseteq Nodes
    /\ phase \in {"idle", "scanned", "update"}
    /\ nodes \subseteq Nodes /\ skip \subseteq nodes
    /\ edges \subseteq nodes \X nodes /\ normal \subseteq edges
    /\ \A c \in Cmds : job[c] # NoJob => c \in nodes /\ DOMAIN job[c].old = Outputs[c]
    /\ failed \subseteq Cmds \cap nodes
    /\ result \in {"none", "ok", "fail"}
    /\ \A c \in Cmds : DOMAIN seen[c] \subseteq Files
    /\ lost \in BOOLEAN /\ masked \in BOOLEAN /\ events \in 0..MaxEvents

(* Every command is new: the Tupfiles were parsed for the first time. *)
Init ==
    /\ fs \in [Files -> Values \cup {Gone}]
    /\ \A f \in Files : (fs[f] = Gone) = (f \in Generated)
    /\ touched = {} /\ placed = {}
    /\ rule \in {r \in [Cmds -> UNION {Rules[c] : c \in Cmds}] :
                    \A c \in Cmds : r[c] \in Rules[c]}
    /\ links = {} /\ modify = Cmds
    /\ saved = [links |-> {}, modify |-> Cmds]
    /\ phase = "idle"
    /\ nodes = {} /\ edges = {} /\ normal = {} /\ skip = {}
    /\ job = [c \in Cmds |-> NoJob]
    /\ failed = {} /\ result = "none"
    /\ seen = [c \in Cmds |-> [f \in {} |-> Gone]]
    /\ lost = FALSE /\ masked = FALSE /\ events = 0

-----------------------------------------------------------------------------
(***************************************************************************)
(* The user, between two updates.                                          *)
(***************************************************************************)
Event == events < MaxEvents /\ events' = events + 1

Edit(f, v) ==
    /\ Event
    /\ phase = "idle"
    /\ f \in Sources /\ fs[f] # v
    /\ fs' = [fs EXCEPT ![f] = v]
    /\ touched' = touched \cup {f}
    /\ result' = "none"
    /\ UNCHANGED <<rule, links, modify, saved, phase, graph, job, failed, placed, seen, lost,
                   masked>>

(* rm_sticky(): the normal links that go with a sticky link *)
RmSticky(c, old, new) == links \cap ((old \ new) \X {c})

(***************************************************************************)
(* Rule c gets another line in the Tupfile, or its script is edited, or    *)
(* both, and the Tupfile is parsed: tup_db_write_inputs().  add_sticky()   *)
(* does not flag the command.  The script is a source file that c reads,   *)
(* so that its edit does.                                                  *)
(***************************************************************************)
WriteInputs(c, r) ==
    LET removed == RmSticky(c, rule[c].sticky, r.sticky)
        script  == r.reads # rule[c].reads \/ r.writes # rule[c].writes
    IN  /\ Event
        /\ phase = "idle"
        /\ r # rule[c]
        /\ rule' = [rule EXCEPT ![c] = r]
        /\ links' = links \ removed
        /\ modify' = IF removed # {} \/ script THEN modify \cup {c} ELSE modify
        /\ saved' = [links |-> links', modify |-> modify']
        /\ lost' = (lost \/ (c \in Compare /\ removed \cap (Generated \X {c}) # {}))
        /\ result' = "none"
        /\ UNCHANGED <<disk, phase, graph, job, failed, placed, seen, masked>>

-----------------------------------------------------------------------------
(***************************************************************************)
(* The scan, and the graph of what has to be visited: build_graph() goes   *)
(* along the normal links, add_graph_stickies() adds the sticky ones.      *)
(***************************************************************************)
Scan ==
    LET missing == {f \in Generated : fs[f] = Gone}
    IN  /\ phase = "idle" /\ phase' = "scanned"
        /\ modify' = (modify \ missing) \cup touched
                        \cup {c \in Cmds : Outputs[c] \cap (touched \cup missing) # {}}
        /\ touched' = {}
        /\ saved' = [links |-> links, modify |-> modify']
        /\ result' = "none"
        /\ UNCHANGED <<fs, rule, links, graph, job, failed, placed, seen, lost, masked, events>>

BuildGraph ==
    LET N == Reached(modify, links \cup OutLinks)
        Within(E) == {e \in E : e[1] \in N /\ e[2] \in N}
    IN  /\ phase = "scanned" /\ phase' = "update"
        /\ nodes' = N
        /\ normal' = Within(links \cup OutLinks)
        /\ edges' = Within(links \cup OutLinks \cup StickyLinks)
        /\ skip' = N \ modify
        /\ UNCHANGED <<disk, rule, links, modify, saved, job, failed, placed, result,
                       seen, lost, masked, events>>

-----------------------------------------------------------------------------
Running == {c \in Cmds : job[c] # NoJob}

Ready(n) ==
    /\ phase = "update" /\ failed = {}
    /\ n \in nodes \ Running
    /\ \A m \in nodes : <<m, n>> \notin edges

Pop(n) ==
    /\ nodes' = nodes \ {n}
    /\ edges' = {e \in edges : e[1] # n}
    /\ normal' = {e \in normal : e[1] # n}

(* modify_outputs() *)
ModifyOutputs(n) == {m \in nodes : <<n, m>> \in normal}

VisitFile(f) ==
    LET next == IF f \in skip THEN {} ELSE ModifyOutputs(f)
    IN  /\ f \in Files /\ Ready(f)
        /\ modify' = (modify \cup next) \ {f}
        /\ skip' = (skip \ next) \ {f}
        /\ Pop(f)
        /\ UNCHANGED <<disk, rule, links, saved, phase, job, failed, placed, result,
                       seen, lost, masked, events>>

(* The end of update_work() for a command that succeeds or is skipped. *)
Through(c, skipped) ==
    LET next == UNION {ModifyOutputs(f) : f \in (ModifyOutputs(c) \ skipped)}
    IN  /\ modify' = (modify \cup next) \ {c}
        /\ skip' = (skipped \ next) \ {c}
        /\ Pop(c)

SkipCmd(c) ==
    /\ Ready(c) /\ c \in Cmds \cap skip
    /\ Through(c, skip)
    /\ UNCHANGED <<disk, rule, links, saved, phase, job, failed, placed, result,
                       seen, lost, masked, events>>

(* update(): the old outputs are unlinked, or moved away to be compared. *)
StartCmd(c) ==
    /\ Ready(c) /\ c \in Cmds \ skip
    /\ job' = [job EXCEPT ![c] = [seen |-> Restrict(fs, rule[c].reads \ Outputs[c]),
                                  old  |-> Restrict(fs, Outputs[c])]]
    /\ fs' = [f \in Files |-> IF f \in Outputs[c] THEN Gone ELSE fs[f]]
    /\ skip' = IF c \in Compare THEN skip ELSE skip \ Outputs[c]
    /\ UNCHANGED <<touched, rule, links, modify, saved, phase, nodes, edges, normal, failed,
                   placed, result, seen, lost, masked, events>>

-----------------------------------------------------------------------------
(***************************************************************************)
(* tup_db_check_actual_outputs(): the outputs that were not declared, and  *)
(* those that were declared and not written.  Only the mappings of outputs *)
(* that were declared are kept and moved in place.                         *)
(***************************************************************************)
ExtraOutputs(c)   == rule[c].writes \ Outputs[c]
MissingOutputs(c) == Outputs[c] \ rule[c].writes

Placed(c) == rule[c].writes \cap Outputs[c]

(***************************************************************************)
(* tup_db_check_actual_inputs().  A generated file that is read must be    *)
(* declared, or match allow_read, or lead to a declared input along the    *)
(* links (nodes_are_connected()).  Files that are declared outputs do not  *)
(* count, whatever was read from them.                                     *)
(***************************************************************************)
Reads(c) == DOMAIN job[c].seen

(* Mutant: every link counts, that of the command itself too. *)
ConnectedAnyhow(f, c) == Reached({f}, links \cup OutLinks) \cap (rule[c].sticky \cup {c}) # {}

Connected(f, c) == (Reached({f}, links \cup OutLinks) \ {f}) \cap rule[c].sticky # {}

MissingInputs(c) ==
    {f \in (Reads(c) \cap Generated) \ (rule[c].sticky \cup Allowed[c]) : ~Connected(f, c)}

(* Mutant: new_normal_link() is left out for files that were not declared. *)
ActualLinksDeclared(c) ==
    {l \in links : l[2] # c \/ l[1] \in Reads(c)}
        \cup ((Reads(c) \cap (rule[c].sticky \cup Sources)) \ MissingInputs(c)) \X {c}

(* new_normal_link() and del_normal_link() *)
ActualLinks(c) ==
    {l \in links : l[2] # c \/ l[1] \in Reads(c)} \cup (Reads(c) \ MissingInputs(c)) \X {c}

(* Mutant: del_normal_link() takes no notice of generated files. *)
NothingRemoved(c) == FALSE

(* del_normal_link(): a dependent command may rely on the link. *)
ImportantLinkRemoved(c) == \E f \in Generated \ Reads(c) : <<f, c>> \in links

-----------------------------------------------------------------------------
(***************************************************************************)
(* process_output().  Every output that is written gets content v, the     *)
(* mtime of what is moved in place is recorded in the database.            *)
(***************************************************************************)
Moved(c, v) == [f \in Files |-> IF f \in Placed(c) THEN v ELSE fs[f]]

WriteFilesOK(c) == ExtraOutputs(c) = {} /\ MissingOutputs(c) = {} /\ MissingInputs(c) = {}

(* check_outputs() or unskip_outputs() *)
Unskipped(c, v) ==
    IF c \notin Compare THEN {}
    ELSE IF ImportantLinkRemoved(c) THEN Outputs[c]
    ELSE {f \in Outputs[c] : job[c].old[f] # v}

EndCmd(c, v) ==
    /\ c \in Running
    /\ WriteFilesOK(c)
    /\ links' = ActualLinks(c)
    /\ fs' = Moved(c, v)
    /\ touched' = touched \ Placed(c) /\ placed' = placed \cup Placed(c)
    /\ Through(c, skip \ Unskipped(c, v))
    /\ seen' = [seen EXCEPT ![c] = job[c].seen]
    /\ job' = [job EXCEPT ![c] = NoJob]
    /\ UNCHANGED <<rule, saved, phase, failed, result, lost, masked, events>>

(* restore_outputs(): the outputs that are replaced by the old ones *)
Restored(c) == IF c \in Compare THEN {f \in Outputs[c] : job[c].old[f] # Gone} ELSE {}

(***************************************************************************)
(* The command ran, but write_files() does not accept it; or it exits with *)
(* an error, and may have written nothing; or it is killed by a signal,    *)
(* and its inputs are not checked.                                         *)
(***************************************************************************)
FailCmd(c, v, exit) ==
    /\ c \in Running
    /\ IF exit = "ok" THEN ~WriteFilesOK(c) /\ v # Gone /\ UNCHANGED events ELSE Event
    /\ links' = IF exit = "signal" THEN links ELSE ActualLinks(c)
    /\ fs' = [f \in Files |-> IF f \in Restored(c) THEN job[c].old[f] ELSE Moved(c, v)[f]]
    /\ touched' = touched \ (Placed(c) \cup Restored(c))
    /\ placed' = placed \cup (Placed(c) \ Restored(c))
    /\ lost' = (lost \/ (c \in Compare /\ exit # "signal" /\ ImportantLinkRemoved(c)))
    /\ masked' = (masked \/ (c \in Compare /\ v # Gone /\ \E f \in Placed(c) \ Restored(c) :
                                 \E d \in Cmds : f \in DOMAIN seen[d]))
    /\ failed' = failed \cup {c}
    /\ job' = [job EXCEPT ![c] = NoJob]
    /\ UNCHANGED <<rule, modify, saved, phase, graph, result, seen>>

(* server_exec() itself fails: process_output() is not called, and what    *)
(* move_outputs() moved away is removed by the server_init() of the next   *)
(* update.                                                                 *)
ExecError(c) ==
    /\ Event
    /\ c \in Running
    /\ failed' = failed \cup {c}
    /\ job' = [job EXCEPT ![c] = NoJob]
    /\ UNCHANGED <<disk, rule, links, modify, saved, phase, graph, placed, result, seen, lost,
                   masked>>

EndUpdate ==
    /\ phase = "update" /\ phase' = "idle"
    /\ Running = {}
    /\ \A n \in Nodes : ~Ready(n)
    /\ result' = IF failed # {} \/ nodes # {} THEN "fail" ELSE "ok"
    /\ saved' = [links |-> links, modify |-> modify]
    /\ nodes' = {} /\ edges' = {} /\ normal' = {} /\ skip' = {}
    /\ failed' = {} /\ placed' = {}
    /\ UNCHANGED <<disk, rule, links, modify, job, seen, lost, masked, events>>

(* tup is killed: the links and the modify list are rolled back. *)
Kill ==
    /\ Event
    /\ phase = "update" /\ phase' = "idle"
    /\ links' = saved.links /\ modify' = saved.modify
    /\ touched' = touched \cup {f \in placed : fs[f] # Gone}
    /\ job' = [c \in Cmds |-> NoJob]
    /\ nodes' = {} /\ edges' = {} /\ normal' = {} /\ skip' = {}
    /\ failed' = {} /\ placed' = {} /\ result' = "fail"
    /\ UNCHANGED <<fs, rule, saved, seen, lost, masked>>

-----------------------------------------------------------------------------
User ==
    \/ \E f \in Files, v \in Values : Edit(f, v)
    \/ \E c \in Cmds : \E r \in Rules[c] : WriteInputs(c, r)

Update ==
    \/ Scan
    \/ BuildGraph
    \/ \E f \in Files : VisitFile(f)
    \/ \E c \in Cmds : SkipCmd(c) \/ StartCmd(c) \/ ExecError(c)
    \/ \E c \in Cmds, v \in Values : EndCmd(c, v)
    \/ \E c \in Cmds, v \in Values \cup {Gone}, exit \in {"ok", "fail", "signal"} :
          FailCmd(c, v, exit)
    \/ EndUpdate

Next == User \/ Update \/ Kill

Spec == Init /\ [][Next]_vars

-----------------------------------------------------------------------------
Succeeded == phase = "idle" /\ result = "ok"

(* After an update that succeeds, every command last ran on what the files *)
(* it read contain now: the links that are replaced whenever a command     *)
(* runs, also when it fails, and that go away with a declaration, still    *)
(* lead to everything that has to run again, and in the right order.       *)
(* Projects in which restore_outputs() had nothing to put in the place of  *)
(* what a failed ^o command left are out: its next run compares with that, *)
(* which the readers of the file never saw.                                *)
SeenIsCurrent ==
    Succeeded /\ ~masked => \A c \in Cmds : \A f \in DOMAIN seen[c] : seen[c][f] = fs[f]

GeneratedReads(c) == ((DOMAIN seen[c]) \cap Generated) \ Allowed[c]

(* ... and every generated file that a command read comes before it along  *)
(* the declarations alone, so that a build from nothing runs them in the   *)
(* same order ("without the input link the commands may execute out of     *)
(* order").                                                                *)
DeclaredOrder ==
    Succeeded /\ ~lost => \A c \in Cmds : \A f \in GeneratedReads(c) :
        c \in Reached({f}, StickyLinks \cup OutLinks)

(* "A dependent command may be relying on us for having this file as a     *)
(* dependency.  Make sure they are not skipped" (del_normal_link()): after *)
(* an update that succeeds, tup_db_check_actual_inputs() accepts what each *)
(* command read, however the links of the others changed since it ran.     *)
DependentsAreChecked ==
    Succeeded => \A c \in Cmds : \A f \in GeneratedReads(c) \ rule[c].sticky : Connected(f, c)

(* The same, as long as the links that an ^o command loses to generated    *)
(* files are lost in runs of it that succeed.                              *)
StillAccepted == ~lost => DependentsAreChecked

=============================================================================
