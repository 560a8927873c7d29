---------------------------- MODULE UpdateNodes -----------------------------
(***************************************************************************)
(* One 'tup' after the other: the scan of the filesystem, and the update   *)
(* (process_update_nodes()) that runs the commands of the graph.  Between  *)
(* and during the updates the user edits source files and meddles with     *)
(* generated ones, commands fail, the update is interrupted (Ctrl-C) or    *)
(* killed.  The question is what an update that succeeds guarantees.       *)
(*                                                                         *)
(* The Tupfiles do not change, so the links are constant.  The commands    *)
(* that are ready may run in any order and in parallel: that               *)
(* execute_graph() and its workers do no more than that is what module     *)
(* ExecuteGraph is about.  A visit of a file, and the end of a command,    *)
(* happen under db_mutex and are one step.                                 *)
(***************************************************************************)
EXTENDS BuildGraph

CONSTANTS Values,        \* contents of files
          First,         \* what the source files contain at first
          Gone,          \* there is no such file
          Bad,           \* a content that no command writes when it succeeds
          NoJob,         \* job[c] of a command that is not running
          Content(_, _), \* Content(c, read): what c writes when it reads read
          Targets,       \* the targets an update may be asked for; {}: all
          Failing,       \* the commands that may fail
          Faults,        \* what else may happen
          MaxEvents      \* bound on the edits and faults

FaultKinds == {"signal", "kill", "exec", "modify", "delete"}

ASSUME UpdateAssumption ==
    /\ First \in Values
    /\ Gone \notin Values /\ Bad \notin Values /\ Gone # Bad
    /\ NoJob \notin Values \cup {Gone, Bad}
    /\ \A c \in Cmds : \A read \in [Inputs[c] -> Values] : Content(c, read) \in Values
    /\ Targets \subseteq SUBSET Files
    /\ Failing \subseteq Cmds
    /\ Faults \subseteq FaultKinds
    /\ MaxEvents \in Nat

VARIABLES
    \* the filesystem
    fs,         \* fs[f]: the content of f
    touched,    \* files whose mtime is not the one in the database
    backup,     \* backup[f]: .metatup/tmp/backup-<f>
    \* the database
    modify,     \* modify_list
    tlist,      \* transient_list
    saved,      \* the lists at the last commit
    \* the update
    phase,      \* "idle", "scanned" or "update"
    targets,    \* its arguments
    keep_going, \* -k
    nodes, edges, normal, skip,
    processing, \* transient files that will be deleted: TRANSIENT_PROCESSING
    delete,     \* ... once they come back to the plist: TRANSIENT_DELETE
    job,        \* job[c]: what command c is going to write
    failed,     \* jobs that failed
    dead,       \* server_is_dead()
    placed,     \* files whose mtime changed since the last commit
    result,     \* how the last update ended
    \* the environment
    fresh,      \* no file was edited since the scan
    mixed,      \* transient files met a partial update or were meddled with
    events      \* number of edits and faults

disk  == <<fs, touched, backup>>
db    == <<modify, tlist, saved>>
args  == <<targets, keep_going, mixed>>
graph == <<nodes, edges, normal, skip, processing, delete>>
env   == <<fresh, events>>
vars  == <<fs, touched, backup, modify, tlist, saved, phase, targets, keep_going,
           nodes, edges, normal, skip, processing, delete, job, failed, dead, placed,
           result, fresh, mixed, events>>

Running == {c \in Cmds : job[c] # NoJob}

TypeOK ==
    /\ fs \in [Files -> Values \cup {Gone, Bad}]
    /\ backup \in [Files -> Values \cup {Gone, Bad}]
    /\ touched \subseteq Files /\ placed \subseteq Files
    /\ modify \subseteq Nodes
    /\ tlist \subseteq Transient \cup TransientFiles
    /\ saved \in [modify : SUBSET Nodes, tlist : SUBSET Nodes]
    /\ phase \in {"idle", "scanned", "update"}
    /\ targets \in Targets \cup {{}} /\ keep_going \in BOOLEAN
    /\ nodes \subseteq Nodes /\ skip \subseteq nodes
    /\ edges \subseteq nodes \X nodes /\ normal \subseteq edges
    /\ processing \subseteq TransientFiles \cap nodes
    /\ delete \subseteq TransientFiles \cap nodes
    /\ job \in [Cmds -> Values \cup {Bad, Gone, NoJob}]
    /\ failed \subseteq Cmds \cup Files /\ dead \in BOOLEAN
    /\ result \in {"none", "ok", "fail", "error"}
    /\ fresh \in BOOLEAN /\ mixed \in BOOLEAN /\ events \in 0..MaxEvents

(***************************************************************************)
(* After the Tupfiles were parsed for the first time: every command is in  *)
(* the modify list, transient ones in the transient list too.              *)
(***************************************************************************)
Init ==
    /\ fs = [f \in Files |-> IF f \in Sources THEN First ELSE Gone]
    /\ touched = {} /\ placed = {}
    /\ backup = [f \in Files |-> Gone]
    /\ modify = Cmds /\ tlist = Transient
    /\ saved = [modify |-> Cmds, tlist |-> Transient]
    /\ phase = "idle" /\ targets = {} /\ keep_going = FALSE
    /\ nodes = {} /\ edges = {} /\ normal = {} /\ skip = {}
    /\ processing = {} /\ delete = {}
    /\ job = [c \in Cmds |-> NoJob]
    /\ failed = {} /\ dead = FALSE /\ result = "none"
    /\ fresh = FALSE /\ mixed = FALSE /\ events = 0

-----------------------------------------------------------------------------
(***************************************************************************)
(* The user.                                                               *)
(***************************************************************************)
Event == events < MaxEvents /\ events' = events + 1

Edit(f, v) ==
    /\ Event
    /\ f \in Sources
    /\ fs' = [fs EXCEPT ![f] = v]
    /\ touched' = touched \cup {f}
    /\ fresh' = FALSE
    /\ UNCHANGED <<backup, db, phase, args, graph, job, failed, dead, placed, result>>

(* A generated file is changed or removed between two updates. *)
Meddle(f) ==
    /\ Event
    /\ phase = "idle"
    /\ f \in Generated
    /\ \/ "modify" \in Faults /\ fs' = [fs EXCEPT ![f] = Bad] /\ touched' = touched \cup {f}
       \/ /\ "delete" \in Faults /\ fs[f] # Gone
          /\ fs' = [fs EXCEPT ![f] = Gone] /\ touched' = touched \ {f}
    /\ fresh' = FALSE
    /\ mixed' = (mixed \/ f \in TransientFiles)
    /\ UNCHANGED <<backup, db, phase, targets, keep_going, graph, job, failed, dead, placed,
                   result>>

-----------------------------------------------------------------------------
(***************************************************************************)
(* The scan.  A file with another mtime goes to the modify list, with the  *)
(* command that writes it (tup_file_mod_mtime()); for a missing one only   *)
(* the command does (tup_del_id_type()).                                   *)
(***************************************************************************)
Missing == {f \in Generated : fs[f] = Gone}

(* Mutant: nothing is flagged for a file that is missing. *)
ScanMissing ==
    /\ phase = "idle" /\ phase' = "scanned"
    /\ modify' = (modify \ Missing) \cup touched
                    \cup {c \in Cmds : Outputs[c] \cap touched # {}}
    /\ touched' = {}
    /\ saved' = [modify |-> modify', tlist |-> tlist]
    /\ fresh' = TRUE /\ result' = "none"
    /\ UNCHANGED <<fs, backup, tlist, args, graph, job, failed, dead, placed, events>>

(* Mutant: mtimes are not compared. *)
ScanNoMtime ==
    /\ phase = "idle" /\ phase' = "scanned"
    /\ modify' = (modify \ Missing) \cup {c \in Cmds : Outputs[c] \cap Missing # {}}
    /\ touched' = {}
    /\ saved' = [modify |-> modify', tlist |-> tlist]
    /\ fresh' = TRUE /\ result' = "none"
    /\ UNCHANGED <<fs, backup, tlist, args, graph, job, failed, dead, placed, events>>

Scan ==
    /\ phase = "idle" /\ phase' = "scanned"
    /\ modify' = (modify \ Missing) \cup touched
                    \cup {c \in Cmds : Outputs[c] \cap (touched \cup Missing) # {}}
    /\ touched' = {}
    /\ saved' = [modify |-> modify', tlist |-> tlist]
    /\ fresh' = TRUE /\ result' = "none"
    /\ UNCHANGED <<fs, backup, tlist, args, graph, job, failed, dead, placed, events>>

(***************************************************************************)
(* process_update_nodes() up to execute_graph().  server_init() removes    *)
(* the backups of a previous update; there is none if there is no graph.   *)
(***************************************************************************)
Begin(t, k, g) ==
    /\ phase = "scanned" /\ phase' = "update"
    /\ targets' = t /\ keep_going' = k
    /\ mixed' = (mixed \/ (t # {} /\ Transient # {}))
    /\ nodes' = g.nodes /\ edges' = g.edges /\ normal' = g.normal /\ skip' = g.skip
    /\ processing' = g.processing /\ delete' = {}
    /\ modify' = modify \cup g.pruned
    /\ backup' = IF g.nodes = {} THEN backup ELSE [f \in Files |-> Gone]
    /\ UNCHANGED <<fs, touched, tlist, saved, job, failed, dead, placed, result, env>>

(* "tup internal error: Node %s being removed from a different list." *)
BeginError(t) ==
    /\ phase = "scanned" /\ phase' = "idle"
    /\ targets' = t
    /\ result' = "error"
    /\ UNCHANGED <<keep_going, mixed, disk, db, graph, job, failed, dead, placed, env>>

ProcessUpdateNodes ==
    /\ phase = "scanned"
    /\ LET g == Graph(modify, tlist)
       IN  \E t \in Targets \cup {{}}, k \in BOOLEAN :
              IF g.error THEN BeginError(t) ELSE Begin(t, k, Pruned(g, t))

-----------------------------------------------------------------------------
(***************************************************************************)
(* update_work() on a node that has no incoming edges.                     *)
(***************************************************************************)
Stopping == dead \/ (failed # {} /\ ~keep_going)

Ready(n) ==
    /\ phase = "update" /\ ~Stopping
    /\ n \in nodes \ (failed \cup Running)
    /\ \A m \in nodes : <<m, n>> \notin edges

From(n) == {m \in nodes : <<n, m>> \in edges}
Out(n, E) == {e \in E : e[1] = n}

(* pop_node() of a node that is through *)
Pop(n) ==
    /\ nodes' = nodes \ {n}
    /\ edges' = edges \ Out(n, edges)
    /\ normal' = normal \ Out(n, normal)

(* modify_outputs(): what is unskipped, and what goes to the modify list. *)
ModifyOutputs(n) == {m \in nodes : <<n, m>> \in normal}

VisitFile(f) ==
    LET next == IF f \in skip THEN {} ELSE ModifyOutputs(f)
    IN  /\ Ready(f) /\ f \in Files \ (processing \cup delete)
        /\ modify' = (modify \cup (next \cap Cmds)) \ {f}
        /\ skip' = (skip \ next) \ {f}
        /\ Pop(f)
        /\ UNCHANGED <<disk, tlist, saved, phase, args, processing, delete, job, failed,
                       dead, placed, result, env>>

(* Mutant: the edges are removed, not turned round. *)
VisitTransientEarly(f) ==
    LET next == IF f \in skip THEN {} ELSE ModifyOutputs(f)
    IN  /\ Ready(f) /\ f \in processing
        /\ modify' = (modify \cup (next \cap Cmds)) \ {f}
        /\ skip' = skip \ next
        /\ edges' = edges \ Out(f, edges)
        /\ normal' = normal \ Out(f, normal)
        /\ processing' = processing \ {f} /\ delete' = delete \cup {f}
        /\ UNCHANGED <<disk, tlist, saved, phase, args, nodes, job, failed, dead, placed,
                       result, env>>

(* Mutant: the file does not come back. *)
VisitTransientOnce(f) ==
    LET next == IF f \in skip THEN {} ELSE ModifyOutputs(f)
    IN  /\ Ready(f) /\ f \in processing
        /\ modify' = (modify \cup (next \cap Cmds)) \ {f}
        /\ skip' = (skip \ next) \ {f}
        /\ Pop(f)
        /\ processing' = processing \ {f}
        /\ UNCHANGED <<disk, tlist, saved, phase, args, delete, job, failed, dead, placed,
                       result, env>>

(***************************************************************************)
(* The first visit of a transient file: pop_node() turns its edges round,  *)
(* so that it comes back after its readers.                                *)
(***************************************************************************)
VisitTransient(f) ==
    LET next == IF f \in skip THEN {} ELSE ModifyOutputs(f)
        back == From(f) \X {f}
    IN  /\ Ready(f) /\ f \in processing
        /\ modify' = (modify \cup (next \cap Cmds)) \ {f}
        /\ skip' = skip \ next
        /\ edges' = (edges \ Out(f, edges)) \cup back
        /\ normal' = (normal \ Out(f, normal)) \cup back
        /\ processing' = processing \ {f} /\ delete' = delete \cup {f}
        /\ UNCHANGED <<disk, tlist, saved, phase, args, nodes, job, failed, dead, placed,
                       result, env>>

(* The second visit removes it; unlink_node() fails if it is not there. *)
DeleteTransient(f) ==
    /\ Ready(f) /\ f \in delete
    /\ modify' = modify \ {f}
    /\ IF fs[f] # Gone
       THEN /\ fs' = [fs EXCEPT ![f] = Gone]
            /\ touched' = touched \ {f} /\ placed' = placed \ {f}
            /\ tlist' = tlist \ {f}
            /\ delete' = delete \ {f} /\ skip' = skip \ {f}
            /\ Pop(f)
            /\ UNCHANGED failed
       ELSE /\ failed' = failed \cup {f}
            /\ UNCHANGED <<fs, touched, placed, tlist, delete, nodes, edges, normal, skip>>
    /\ UNCHANGED <<backup, saved, phase, args, processing, job, dead, result, env>>

(***************************************************************************)
(* A command whose inputs did not change is skipped.                       *)
(***************************************************************************)
(* The commands two edges away, through the outputs that changed. *)
NextCmds(c, skipped) == UNION {ModifyOutputs(f) : f \in From(c) \ skipped}

(* The end of update_work() for a command that succeeds or is skipped. *)
Through(c, skipped, t) ==
    /\ modify' = (modify \cup (NextCmds(c, skipped) \cap Cmds)) \ {c}
    /\ skip' = (skipped \ NextCmds(c, skipped)) \ {c}
    /\ tlist' = t \ {c}
    /\ Pop(c)

SkipCmd(c) ==
    /\ Ready(c) /\ c \in Cmds \cap skip
    /\ Through(c, skip, tlist)
    /\ UNCHANGED <<disk, saved, phase, args, processing, delete, job, failed, dead, placed,
                   result, env>>

(***************************************************************************)
(* What command c writes when the files are d; Gone: it cannot run.        *)
(***************************************************************************)
Written(c, d) ==
    IF \E f \in Inputs[c] : d[f] = Gone THEN Gone
    ELSE IF \E f \in Inputs[c] : d[f] = Bad THEN Bad
    ELSE Content(c, [f \in Inputs[c] |-> d[f]])

(***************************************************************************)
(* update(): the outputs of the previous run are unlinked, or moved to     *)
(* .metatup/tmp for a command that compares its outputs.  The command      *)
(* reads its inputs, and writes when it ends.                              *)
(***************************************************************************)
OldOutputs(c) == From(c) \ delete

MoveOutputs(c) ==
    /\ backup' = [f \in Files |-> IF f \in OldOutputs(c) /\ fs[f] # Gone THEN fs[f] ELSE backup[f]]
    /\ UNCHANGED skip

UnlinkOutputs(c) ==
    /\ skip' = skip \ OldOutputs(c)
    /\ UNCHANGED backup

StartCmd(c) ==
    /\ Ready(c) /\ c \in Cmds \ skip
    /\ IF c \in Compare THEN MoveOutputs(c) ELSE UnlinkOutputs(c)
    /\ fs' = [f \in Files |-> IF f \in OldOutputs(c) THEN Gone ELSE fs[f]]
    /\ job' = [job EXCEPT ![c] = Written(c, fs)]
    /\ UNCHANGED <<touched, db, phase, args, nodes, edges, normal, processing, delete,
                   failed, dead, placed, result, env>>

(***************************************************************************)
(* write_files(): the outputs that were written are put in place and their *)
(* mtime is recorded, whether the command succeeded or not.                *)
(***************************************************************************)
WriteFiles(c, written, kept) ==
    /\ fs' = [f \in Files |-> IF f \in kept THEN backup[f]
                              ELSE IF f \in Outputs[c] THEN written[f] ELSE fs[f]]
    /\ touched' = touched \ Outputs[c]
    /\ placed' = placed \cup {f \in Outputs[c] \ kept : written[f] # Gone}

(* check_outputs(): an output that is the same as its backup stays skipped; *)
(* to compare_paths() a file that is missing is not the same as anything.  *)
CheckOutputs(c) ==
    {f \in From(c) : \/ backup[f] = Gone
                     \/ backup[f] # IF f \in Outputs[c] THEN job[c] ELSE fs[f]}

MarkTransientOutputs(c) == IF c \in Transient THEN tlist \cup Outputs[c] ELSE tlist

(* process_output() of a command that succeeded *)
EndCmd(c) ==
    /\ c \in Running /\ job[c] # Gone
    /\ WriteFiles(c, [f \in Outputs[c] |-> job[c]], {})
    /\ Through(c, IF c \in Compare THEN skip \ CheckOutputs(c) ELSE skip, MarkTransientOutputs(c))
    /\ job' = [job EXCEPT ![c] = NoJob]
    /\ UNCHANGED <<backup, saved, phase, args, processing, delete, failed, dead, result, env>>

(* Mutant: a backup is not moved back. *)
RestoreNothing(c) == {}

(* restore_outputs(): the outputs that are replaced by their backups *)
RestoreOutputs(c) == IF c \in Compare THEN {f \in Outputs[c] : backup[f] # Gone} ELSE {}

(***************************************************************************)
(* ... of a command that failed: left[f] is what it wrote to its output f, *)
(* nothing, a part, or all that it was going to.  It fails by itself,      *)
(* because an input is missing, or because of the signal that stops the    *)
(* update.                                                                 *)
(***************************************************************************)
FailCmd(c, left) ==
    /\ c \in Running /\ left \in [Outputs[c] -> {Gone, Bad, job[c]}]
    /\ \/ c \in Failing /\ Event
       \/ (job[c] = Gone \/ dead) /\ UNCHANGED events
    /\ WriteFiles(c, left, RestoreOutputs(c))
    /\ backup' = [f \in Files |-> IF f \in RestoreOutputs(c) THEN Gone ELSE backup[f]]
    /\ failed' = failed \cup {c}
    /\ job' = [job EXCEPT ![c] = NoJob]
    /\ UNCHANGED <<db, phase, args, graph, dead, result, fresh>>

(* server_exec() itself fails: process_output() is not called. *)
ExecError(c) ==
    /\ "exec" \in Faults /\ Event
    /\ c \in Running
    /\ failed' = failed \cup {c}
    /\ job' = [job EXCEPT ![c] = NoJob]
    /\ UNCHANGED <<disk, db, phase, args, graph, dead, placed, result, fresh>>

-----------------------------------------------------------------------------
(* SIGINT or SIGTERM *)
Interrupt ==
    /\ "signal" \in Faults /\ Event
    /\ phase = "update" /\ ~dead
    /\ dead' = TRUE
    /\ UNCHANGED <<disk, db, phase, args, graph, job, failed, placed, result, fresh>>

(* execute_graph() returns; the database is committed in any case. *)
EndUpdate ==
    /\ phase = "update" /\ phase' = "idle"
    /\ Running = {}
    /\ \A n \in Nodes : ~Ready(n)
    /\ result' = IF dead \/ failed # {} \/ nodes # {} THEN "fail" ELSE "ok"
    /\ saved' = [modify |-> modify, tlist |-> tlist]
    /\ nodes' = {} /\ edges' = {} /\ normal' = {} /\ skip' = {} /\ processing' = {} /\ delete' = {}
    /\ failed' = {} /\ dead' = FALSE /\ placed' = {} /\ keep_going' = FALSE
    /\ UNCHANGED <<disk, modify, tlist, targets, mixed, job, env>>

(***************************************************************************)
(* The update is killed: the transaction is rolled back, so that the       *)
(* database has the mtimes from before.  Running commands are killed with  *)
(* it, after they wrote something to the files of W.                       *)
(***************************************************************************)
Kill(W) ==
    /\ "kill" \in Faults /\ Event
    /\ phase = "update" /\ phase' = "idle"
    /\ W \subseteq OutputsOf(Running)
    /\ fs' = [f \in Files |-> IF f \in W THEN Bad ELSE fs[f]]
    /\ touched' = touched \cup placed \cup W
    /\ modify' = saved.modify /\ tlist' = saved.tlist
    /\ job' = [c \in Cmds |-> NoJob]
    /\ nodes' = {} /\ edges' = {} /\ normal' = {} /\ skip' = {} /\ processing' = {} /\ delete' = {}
    /\ failed' = {} /\ dead' = FALSE /\ placed' = {} /\ keep_going' = FALSE
    /\ result' = "fail"
    /\ UNCHANGED <<backup, saved, targets, mixed, fresh>>

-----------------------------------------------------------------------------
Step ==
    \/ Scan
    \/ \E f \in Files : VisitFile(f) \/ VisitTransient(f) \/ DeleteTransient(f)
    \/ \E c \in Cmds : SkipCmd(c) \/ StartCmd(c) \/ EndCmd(c)
    \/ EndUpdate

Fault ==
    \/ \E f \in Files, v \in Values : Edit(f, v)
    \/ \E f \in Files : Meddle(f)
    \/ \E c \in Cmds : \/ ExecError(c)
                     \/ \E left \in [Outputs[c] -> Values \cup {Gone, Bad}] : FailCmd(c, left)
    \/ Interrupt
    \/ \E W \in SUBSET Generated : Kill(W)

Next == Step \/ ProcessUpdateNodes \/ Fault

Spec == Init /\ [][Next]_vars

(***************************************************************************)
(* The user goes on calling tup, and tup does what it has to do.  The      *)
(* second conjunct is weak fairness of ProcessUpdateNodes, which is always *)
(* enabled in this phase.  A command that misses an input does fail.       *)
(***************************************************************************)
FairSpec ==
    /\ Spec
    /\ []<>(phase # "scanned")
    /\ WF_vars(Step)
    /\ \A c \in Cmds : WF_vars(FailCmd(c, [f \in Outputs[c] |-> Gone]) /\ job[c] = Gone)

-----------------------------------------------------------------------------
(* What the files should be: the outputs that the commands write when all *)
(* of them are run, in order, on the source files.                        *)
Right ==
    LET run[i \in 0..Cardinality(Cmds)] ==
          IF i = 0 THEN [f \in Files |-> IF f \in Sources THEN fs[f] ELSE Gone]
          ELSE LET r == run[i-1]
               IN  [f \in Files |-> IF f \in Sources THEN fs[f] ELSE Written(Producer(f), r)]
    IN  run[Cardinality(Cmds)]

Succeeded == phase = "idle" /\ result = "ok"
Wanted == IF targets = {} THEN Generated ELSE targets

(* When process_update_nodes() returns 0, every file that was asked for is *)
(* as the commands make it from the current source files, whatever failed, *)
(* was interrupted, was killed or was pruned in the updates before: no     *)
(* flag of the modify list was lost on the way.  Projects in which         *)
(* transient files were meddled with or partly updated are left out.       *)
UpdatedMeansUpToDate ==
    Succeeded /\ fresh /\ ~mixed =>
        \A f \in (Wanted \cap Generated) \ TransientFiles : fs[f] = Right[f]

(* An update of everything that returns 0 leaves no transient file: what   *)
(* earlier updates left is in the transient list, and is unlinked.         *)
TransientFilesGone ==
    Succeeded /\ fresh /\ targets = {} => \A f \in TransientFiles : fs[f] = Gone

(* update() starts no command whose input is missing: whatever was deleted *)
(* or left out, what it reads is rebuilt first and not removed too early.  *)
(* Projects as for UpdatedMeansUpToDate.                                   *)
InputsExist == ~mixed => \A c \in Running : job[c] # Gone

(* Once nothing fails, is edited or is killed any more, the updates come   *)
(* to succeed: no state of the database and the files makes                *)
(* process_update_nodes() fail again and again.                            *)
Converges == <>[](phase = "idle" => result = "ok")

=============================================================================
