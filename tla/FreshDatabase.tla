--------------------------- MODULE FreshDatabase ---------------------------
(***************************************************************************)
(* What the tri-lock protocol promises: a database with one owner at a     *)
(* time, which only its owner writes, and in which a command finds every   *)
(* edit that was made before the command asked for the database - whether  *)
(* the monitor recorded the edit or the command scans for it itself.       *)
(***************************************************************************)
EXTENDS Naturals

CONSTANTS Procs, Mon, None

VARIABLES owner,   \* who owns the database
          phase,   \* phase[p]: what command p is doing
          seen,    \* seen[p]: the edits made when p asked for the database
          edits,   \* number of edits made so far
          db       \* the edits recorded in the database

vars == <<owner, phase, seen, edits, db>>

Phase == {"idle", "waiting", "entered", "using"}

Init ==
    /\ owner = None
    /\ phase = [p \in Procs |-> "idle"]
    /\ seen = [p \in Procs |-> 0]
    /\ edits = 0
    /\ db = {}

Become(p, from, to) == phase[p] = from /\ phase' = [phase EXCEPT ![p] = to]

Edit ==
    /\ edits' = edits + 1
    /\ UNCHANGED <<owner, phase, seen, db>>

Ask(p) ==
    /\ Become(p, "idle", "waiting")
    /\ seen' = [seen EXCEPT ![p] = edits]
    /\ UNCHANGED <<owner, edits, db>>

Enter(p) ==
    /\ Become(p, "waiting", "entered")
    /\ owner = None /\ owner' = p
    /\ UNCHANGED <<seen, edits, db>>

(* The command looks at the database, possibly after a scan. *)
Use(p) ==
    /\ Become(p, "entered", "using")
    /\ owner = p
    /\ db' \in {db, 1..edits}
    /\ 1..seen[p] \subseteq db'
    /\ UNCHANGED <<owner, seen, edits>>

Leave(p) ==
    /\ Become(p, "using", "idle")
    /\ owner = p /\ owner' = None
    /\ UNCHANGED <<seen, edits, db>>

MonitorEnter ==
    /\ owner = None /\ owner' = Mon
    /\ UNCHANGED <<phase, seen, edits, db>>

(* The monitor forgets nothing and makes nothing up. *)
MonitorRecord ==
    /\ owner = Mon
    /\ db \subseteq db' /\ db' \subseteq 1..edits
    /\ UNCHANGED <<owner, phase, seen, edits>>

MonitorLeave ==
    /\ owner = Mon /\ owner' = None
    /\ UNCHANGED <<phase, seen, edits, db>>

Next ==
    \/ Edit
    \/ \E p \in Procs : Ask(p) \/ Enter(p) \/ Use(p) \/ Leave(p)
    \/ MonitorEnter \/ MonitorRecord \/ MonitorLeave

Spec == Init /\ [][Next]_vars
=============================================================================
