-------------------------- MODULE MasterForkProofs --------------------------
(***************************************************************************)
(* Machine-checked proofs about the fork server, for any number of jobs,   *)
(* process ids and executions, and any capacity of the socket pair.        *)
(***************************************************************************)
EXTENDS MasterForkInv, SequenceTheorems, TLAPS

-----------------------------------------------------------------------------
(***************************************************************************)
(* The messages of one direction of the socket pair.                       *)
(***************************************************************************)
LEMMA AppendFacts ==
    ASSUME NEW q \in Seq(Requests), NEW r \in Requests
    PROVE  /\ Append(q, r) \in Seq(Requests) /\ Len(q) \in Nat
           /\ Len(Append(q, r)) = Len(q) + 1
           /\ \A i \in 1..Len(q) : Append(q, r)[i] = q[i]
           /\ Append(q, r)[Len(q) + 1] = r
BY AppendProperties

(* A message that is written is there, with the ones before it. *)
LEMMA AppendToken ==
    ASSUME NEW q \in Seq(Requests), NEW r \in Requests, NEW s
    PROVE  /\ Has(Append(q, r), s) <=> Has(q, s) \/ r.sid = s
           /\ Once(q, s) /\ (r.sid = s => ~Has(q, s)) => Once(Append(q, r), s)
           /\ \A e : Carries(q, s, e) /\ (r.sid = s => r.exec = e) => Carries(Append(q, r), s, e)
<1>1. \A i \in 1..(Len(q) + 1) : i \in 1..Len(q) \/ i = Len(q) + 1
  BY AppendFacts
<1>2. Has(Append(q, r), s) <=> Has(q, s) \/ r.sid = s
  BY <1>1, AppendFacts DEF Has
<1>3. Once(q, s) /\ (r.sid = s => ~Has(q, s)) => Once(Append(q, r), s)
  BY <1>1, AppendFacts DEF Has, Once
<1>4. \A e : Carries(q, s, e) /\ (r.sid = s => r.exec = e) => Carries(Append(q, r), s, e)
  BY <1>1, AppendFacts DEF Carries
<1> QED
  BY <1>2, <1>3, <1>4

LEMMA TailFacts ==
    ASSUME NEW q \in Seq(Requests), q # <<>>
    PROVE  /\ Head(q) \in Requests /\ Tail(q) \in Seq(Requests)
           /\ Len(q) \in Nat /\ 1 \in 1..Len(q) /\ Head(q) = q[1]
           /\ Len(Tail(q)) = Len(q) - 1
           /\ \A i \in 1..Len(Tail(q)) : i + 1 \in 1..Len(q) /\ Tail(q)[i] = q[i + 1]
BY HeadTailProperties

(* A message that is read is gone, when there was only one for its sid. *)
LEMMA TailToken ==
    ASSUME NEW q \in Seq(Requests), q # <<>>, NEW s
    PROVE  /\ Has(Tail(q), s) => Has(q, s)
           /\ Has(q, Head(q).sid)
           /\ Once(q, s) => Once(Tail(q), s)
           /\ Once(q, s) /\ Head(q).sid = s => ~Has(Tail(q), s)
           /\ \A e : Carries(q, s, e) => Carries(Tail(q), s, e)
           /\ \A e : Carries(q, s, e) /\ Head(q).sid = s => Head(q).exec = e
<1>1. Has(Tail(q), s) => Has(q, s)
  BY TailFacts DEF Has
<1>2. Has(q, Head(q).sid)
  BY TailFacts DEF Has
<1>3. Once(q, s) => Once(Tail(q), s)
  <2> SUFFICES ASSUME Once(q, s), NEW i \in 1..Len(Tail(q)), NEW j \in 1..Len(Tail(q)),
                      Tail(q)[i].sid = s, Tail(q)[j].sid = s
               PROVE  i = j
    BY DEF Once
  <2>1. i + 1 = j + 1
    BY TailFacts DEF Once
  <2> QED
    BY <2>1
<1>4. Once(q, s) /\ Head(q).sid = s => ~Has(Tail(q), s)
  <2> SUFFICES ASSUME Once(q, s), q[1].sid = s, NEW i \in 1..Len(Tail(q)), Tail(q)[i].sid = s
               PROVE  FALSE
    BY TailFacts DEF Has
  <2>1. i + 1 = 1
    BY TailFacts DEF Once
  <2> QED
    BY <2>1
<1>5. \A e : Carries(q, s, e) => Carries(Tail(q), s, e)
  BY TailFacts DEF Carries
<1>6. \A e : Carries(q, s, e) /\ Head(q).sid = s => Head(q).exec = e
  BY TailFacts DEF Carries
<1> QED
  BY <1>1, <1>2, <1>3, <1>4, <1>5, <1>6

LEMMA ShutdownFacts == Shutdown \in Requests /\ Shutdown.sid = None /\ None \notin Sids /\ None \notin Pids
BY SidsAssumption, BoundsAssumption DEF Shutdown, Requests, Executions

-----------------------------------------------------------------------------
(***************************************************************************)
(* One field of the record of a job, or of a process, changes.             *)
(***************************************************************************)
Places == {"idle", "send", "wait", "asleep", "failed"}
Job    == [pc : Places, exec : Executions, set : BOOLEAN, status : Executions]
States == {"free", "running", "zombie"}
Proc   == [state : States, exec : Executions]

LEMMA JobPc ==
    ASSUME TypeOK, NEW s \in Sids, NEW pc \in Places, job' = [job EXCEPT ![s].pc = pc]
    PROVE  /\ job' \in [Sids -> Job]
           /\ job'[s].pc = pc /\ job'[s].exec = job[s].exec
           /\ job'[s].set = job[s].set /\ job'[s].status = job[s].status
           /\ \A t \in Sids \ {s} : job'[t] = job[t]
<1>1. job \in [Sids -> Job]
  BY DEF TypeOK, Job, Places
<1>2. job[s] \in Job
  BY <1>1
<1>3. job'[s] = [job[s] EXCEPT !.pc = pc]
  BY <1>1
<1>4. job'[s] \in Job
  BY <1>2, <1>3 DEF Job
<1>5. DOMAIN job' = Sids /\ \A t \in Sids \ {s} : job'[t] = job[t]
  BY <1>1
<1>6. job' \in [Sids -> Job]
  BY <1>1, <1>4, <1>5
<1> QED
  BY <1>2, <1>3, <1>5, <1>6 DEF Job

LEMMA JobNotified ==
    ASSUME TypeOK, NEW s \in Sids, NEW st \in Executions,
           job' = [job EXCEPT ![s] = [pc |-> Signal(@.pc), exec |-> @.exec,
                                      set |-> TRUE, status |-> st]]
    PROVE  /\ job' \in [Sids -> Job]
           /\ job'[s].pc = Signal(job[s].pc) /\ job'[s].exec = job[s].exec
           /\ job'[s].set = TRUE /\ job'[s].status = st
           /\ \A t \in Sids \ {s} : job'[t] = job[t]
<1>1. job \in [Sids -> Job]
  BY DEF TypeOK, Job, Places
<1>2. job[s] \in Job /\ Signal(job[s].pc) \in Places
  BY <1>1 DEF Job, Signal, Places
<1>3. job'[s] = [pc |-> Signal(job[s].pc), exec |-> job[s].exec, set |-> TRUE, status |-> st]
  BY <1>1, <1>2 DEF Job
<1>4. job'[s] \in Job
  BY <1>2, <1>3 DEF Job
<1>5. DOMAIN job' = Sids /\ \A t \in Sids \ {s} : job'[t] = job[t]
  BY <1>1
<1>6. job' \in [Sids -> Job]
  BY <1>4, <1>5, <1>1
<1> QED
  BY <1>2, <1>3, <1>5, <1>6 DEF Job

LEMMA ProcState ==
    ASSUME TypeOK, NEW p \in Pids, NEW st \in States, proc' = [proc EXCEPT ![p].state = st]
    PROVE  /\ proc' \in [Pids -> Proc]
           /\ proc'[p].state = st /\ proc'[p].exec = proc[p].exec
           /\ \A q \in Pids \ {p} : proc'[q] = proc[q]
<1>1. proc \in [Pids -> Proc]
  BY DEF TypeOK, Proc, States
<1>2. proc[p] \in Proc
  BY <1>1
<1>3. proc'[p] = [proc[p] EXCEPT !.state = st]
  BY <1>1
<1>4. proc'[p] \in Proc
  BY <1>2, <1>3 DEF Proc
<1>5. DOMAIN proc' = Pids /\ \A q \in Pids \ {p} : proc'[q] = proc[q]
  BY <1>1
<1>6. proc' \in [Pids -> Proc]
  BY <1>4, <1>5, <1>1
<1> QED
  BY <1>2, <1>3, <1>5, <1>6 DEF Proc

LEMMA WaiterFound ==
    ASSUME TypeOK, NEW x, waiter' = [waiter EXCEPT !.pc = "send", !.rcm.sid = x]
    PROVE  /\ waiter'.pc = "send" /\ waiter'.pid = waiter.pid
           /\ waiter'.rcm.sid = x /\ waiter'.rcm.exec = waiter.rcm.exec
<1>1. waiter.rcm \in Requests
  BY DEF TypeOK
<1>2. waiter'.rcm = [waiter.rcm EXCEPT !.sid = x]
  BY DEF TypeOK
<1>3. waiter'.rcm.sid = x /\ waiter'.rcm.exec = waiter.rcm.exec
  BY <1>1, <1>2 DEF Requests
<1> QED
  BY <1>3 DEF TypeOK

-----------------------------------------------------------------------------
(***************************************************************************)
(* Types.                                                                  *)
(***************************************************************************)
LEMMA TypeStep ==
    ASSUME IndInv, [Next]_vars
    PROVE  TypeOK'
<1>0. TypeOK /\ Executions = 0..MaxExecs /\ MaxExecs \in Nat /\ SocketMax \in Nat
      /\ 0 \in Executions
  BY BoundsAssumption DEF IndInv, Executions
<1>1. ASSUME NEW s \in Sids, Register(s) PROVE TypeOK'
  <2>1. execs + 1 \in Executions
    BY <1>0, <1>1 DEF Register, TypeOK
  <2> QED
    BY <1>0, <1>1, <2>1 DEF Register, TypeOK, masterVars
<1>2. ASSUME NEW s \in Sids, Send(s) PROVE TypeOK'
  <2>0. job' \in [Sids -> Job]
    BY <1>0, <1>2, JobPc DEF Send, Places
  <2>1. CASE master.pc = "dead"
    BY <1>0, <1>2, <2>0, <2>1 DEF Send, TypeOK, Job, Places, masterVars
  <2>2. CASE master.pc # "dead"
    <3>1. [sid |-> s, exec |-> job[s].exec] \in Requests
      BY <1>0 DEF TypeOK, Requests
    <3>2. toMaster \in Seq(Requests) /\ Len(toMaster) < SocketMax /\ Len(toMaster) \in Nat
          /\ toMaster' = Append(toMaster, [sid |-> s, exec |-> job[s].exec])
      BY <1>0, <1>2, <2>2 DEF Send, TypeOK
    <3>3. toMaster' \in Seq(Requests) /\ Len(toMaster') <= SocketMax
      BY <1>0, <3>1, <3>2, AppendFacts
    <3> QED
      BY <1>0, <1>2, <2>0, <2>2, <3>3 DEF Send, TypeOK, Job, Places, masterVars
  <2> QED
    BY <2>1, <2>2
<1>3. ASSUME NEW s \in Sids, WaitForMySid(s) PROVE TypeOK'
  <2>1. [exec |-> job[s].exec, status |-> job[s].status] \in [exec : Executions, status : Executions]
    BY <1>0 DEF TypeOK
  <2>2. job' \in [Sids -> Job]
    BY <1>0, <1>3, JobPc DEF WaitForMySid, Places
  <2> QED
    BY <1>0, <1>3, <2>1, <2>2 DEF WaitForMySid, TypeOK, Job, Places, masterVars
<1>4. CASE Notify
  <2>1. toTup' \in Seq(Requests) /\ Len(toTup') <= SocketMax /\ Head(toTup) \in Requests
    BY <1>0, <1>4, TailFacts DEF Notify, TypeOK
  <2>2. Head(toTup).exec \in Executions
    BY <2>1 DEF Requests
  <2>3. job' \in [Sids -> Job] /\ statusRoot' \subseteq Sids
    <3>1. CASE UNCHANGED <<job, statusRoot>>
      BY <1>0, <3>1 DEF TypeOK, Job, Places
    <3>2. CASE Head(toTup).sid \in statusRoot
      <4>1. Head(toTup).sid \in Sids
        BY <1>0, <3>2 DEF TypeOK
      <4>2. /\ job' = [job EXCEPT ![Head(toTup).sid] =
                             [pc |-> Signal(@.pc), exec |-> @.exec,
                              set |-> TRUE, status |-> Head(toTup).exec]]
              /\ statusRoot' = statusRoot \ {Head(toTup).sid}
        BY <1>4, <3>2 DEF Notify
      <4> QED
        BY <1>0, <2>2, <4>1, <4>2, JobNotified DEF TypeOK
    <3> QED
      BY <1>4, <3>1, <3>2 DEF Notify
  <2> QED
    BY <1>0, <1>4, <2>1, <2>3 DEF Notify, TypeOK, Job, Places, masterVars
<1>5. CASE NotifyEof
  BY <1>0, <1>5 DEF NotifyEof, TypeOK, masterVars
<1>6. CASE PostExit
  <2>1. toMaster' \in Seq(Requests) /\ Len(toMaster') <= SocketMax
    <3>1. toMaster \in Seq(Requests) /\ Len(toMaster) <= SocketMax /\ Len(toMaster) \in Nat
      BY <1>0 DEF TypeOK
    <3>2. \/ toMaster' = toMaster
          \/ toMaster' = Append(toMaster, Shutdown) /\ Len(toMaster) < SocketMax
      BY <1>6 DEF PostExit
    <3> QED
      BY <1>0, <3>1, <3>2, ShutdownFacts, AppendFacts
  <2> QED
    BY <1>0, <1>6, <2>1 DEF PostExit, TypeOK, masterVars
<1>7. CASE WaitMaster \/ JoinNotifier
  BY <1>0, <1>7 DEF WaitMaster, JoinNotifier, TypeOK, masterVars
<1>8. CASE MasterRead
  <2>1. toMaster' \in Seq(Requests) /\ Len(toMaster') <= SocketMax /\ Head(toMaster) \in Requests
    BY <1>0, <1>8, TailFacts DEF MasterRead, TypeOK
  <2> QED
    BY <1>0, <1>8, <2>1 DEF MasterRead, TypeOK, tupVars
<1>9. CASE MasterForkFails \/ MasterJoin
  BY <1>0, <1>9 DEF MasterForkFails, MasterJoin, TypeOK, tupVars
<1>10. CASE MasterInsert
  <2>1. master.msg.sid \in Sids \cup {None}
    BY <1>0 DEF TypeOK, Requests
  <2> QED
    BY <1>0, <1>10, <2>1 DEF MasterInsert, WakeWaiter, TypeOK, tupVars
<1>11. CASE MasterBye
  <2>1. toTup' \in Seq(Requests) /\ Len(toTup') <= SocketMax
    BY <1>0, <1>11, ShutdownFacts, AppendFacts DEF MasterBye, TypeOK
  <2> QED
    BY <1>0, <1>11, <2>1 DEF MasterBye, TypeOK, tupVars
<1>12. CASE MasterSignal
  BY <1>0, <1>12 DEF MasterSignal, WakeWaiter, TypeOK, tupVars
<1>13. ASSUME NEW p \in Pids, MasterFork(p) PROVE TypeOK'
  <2>1. master.msg.exec \in Executions
    BY <1>0 DEF TypeOK, Requests
  <2> QED
    BY <1>0, <1>13, <2>1 DEF MasterFork, TypeOK, tupVars
<1>14. ASSUME NEW p \in Pids, ChildExit(p) PROVE TypeOK'
  <2>1. proc' \in [Pids -> Proc]
    BY <1>0, <1>14, ProcState DEF ChildExit, States
  <2> QED
    BY <1>0, <1>14, <2>1 DEF ChildExit, TypeOK, Proc, States, tupVars
<1>15. CASE WaiterCheck \/ WaiterTest
  BY <1>0, <1>15 DEF WaiterCheck, WaiterTest, TypeOK, tupVars
<1>16. CASE WaiterWait
  <2>1. CASE waiter' = [waiter EXCEPT !.pc = "dead"] /\ UNCHANGED proc
    BY <1>0, <1>16, <2>1 DEF WaiterWait, TypeOK, tupVars
  <2>2. ASSUME NEW p \in Pids,
               proc' = [proc EXCEPT ![p].state = "free"],
               waiter' = [waiter EXCEPT !.pc = "search", !.pid = p,
                                        !.rcm = [sid |-> None, exec |-> proc[p].exec]]
        PROVE  TypeOK'
    <3>1. [sid |-> None, exec |-> proc[p].exec] \in Requests
      BY <1>0 DEF TypeOK, Requests
    <3>2. proc' \in [Pids -> Proc]
      BY <1>0, <2>2, ProcState DEF States
    <3>3. waiter' \in [pc : {"check", "asleep", "test", "wait", "search", "send", "end", "dead"},
                       pid : Pids \cup {None}, rcm : Requests]
      BY <1>0, <2>2, <3>1 DEF TypeOK
    <3>4. UNCHANGED <<tupVars, toMaster, toTup, master, tree, exiting>>
      BY <1>16 DEF WaiterWait
    <3> QED
      BY <1>0, <3>2, <3>3, <3>4 DEF TypeOK, Proc, States, tupVars
  <2> QED
    BY <1>16, <2>1, <2>2 DEF WaiterWait
<1>17. CASE WaiterSearch
  <2>1. waiter.rcm \in Requests /\ \A p \in Pids : tree[p] \in Sids \cup {None}
    BY <1>0 DEF TypeOK
  <2>2. waiter.pid \in Pids
    BY <1>17 DEF WaiterSearch, WaiterRuns, IndInv, WaiterInv
  <2>3. [waiter.rcm EXCEPT !.sid = tree[waiter.pid]] \in Requests
    BY <2>1, <2>2 DEF Requests
  <2>4. waiter' \in [pc : {"check", "asleep", "test", "wait", "search", "send", "end", "dead"},
                     pid : Pids \cup {None}, rcm : Requests]
    BY <1>0, <1>17, <2>3 DEF WaiterSearch, TypeOK
  <2> QED
    BY <1>0, <1>17, <2>2, <2>4 DEF WaiterSearch, TypeOK, tupVars
<1>18. CASE WaiterSend
  <2>1. toTup' \in Seq(Requests) /\ Len(toTup') <= SocketMax
    BY <1>0, <1>18, AppendFacts DEF WaiterSend, TypeOK
  <2> QED
    BY <1>0, <1>18, <2>1, ShutdownFacts DEF WaiterSend, TypeOK, tupVars
<1>19. CASE UNCHANGED vars
  BY <1>0, <1>19 DEF vars, TypeOK
<1> QED
  BY <1>1, <1>2, <1>3, <1>4, <1>5, <1>6, <1>7, <1>8, <1>9, <1>10, <1>11, <1>12, <1>13,
     <1>14, <1>15, <1>16, <1>17, <1>18, <1>19 DEF Next

-----------------------------------------------------------------------------
(***************************************************************************)
(* The token of a job moves from place to place.                           *)
(***************************************************************************)
LEMMA TokenStep ==
    ASSUME IndInv, [Next]_vars
    PROVE  TokenInv'
<1> SUFFICES ASSUME NEW t \in Sids PROVE Token(t)'
  BY DEF TokenInv
<1>0. /\ TypeOK /\ Token(t) /\ Entry(t) /\ WaiterInv /\ ProcInv
      /\ toMaster \in Seq(Requests) /\ toTup \in Seq(Requests)
      /\ job \in [Sids -> Job] /\ tree \in [Pids -> Sids \cup {None}]
      /\ t # None
  BY SidsAssumption DEF IndInv, TokenInv, JobInv, TypeOK, Job, Places
<1> USE DEF Token, AtMaster, InTree, AtWaiter
<1>1. ASSUME NEW s \in Sids, Register(s) PROVE Token(t)'
  BY <1>0, <1>1 DEF Register, Entry, masterVars
<1>2. ASSUME NEW s \in Sids, Send(s) PROVE Token(t)'
  <2>1. /\ job'[s].pc = IF master.pc = "dead" THEN "failed" ELSE "wait"
        /\ \A u \in Sids \ {s} : job'[u] = job[u]
    BY <1>0, <1>2, JobPc DEF Send, Places
  <2>2. [sid |-> s, exec |-> job[s].exec] \in Requests
    BY <1>0 DEF TypeOK, Requests
  <2>3. CASE master.pc = "dead"
    BY <1>0, <1>2, <2>1, <2>3 DEF Send, masterVars
  <2>4. CASE master.pc # "dead"
    <3>1. /\ toMaster' = Append(toMaster, [sid |-> s, exec |-> job[s].exec])
          /\ UNCHANGED <<statusRoot, toTup, masterVars>>
      BY <1>2, <2>4 DEF Send
    <3>2. /\ Has(toMaster', t) <=> Has(toMaster, t) \/ s = t
          /\ Once(toMaster, t) /\ (s = t => ~Has(toMaster, t)) => Once(toMaster', t)
      BY <1>0, <2>2, <3>1, AppendToken
    <3>3. ~Has(toMaster, t) => Once(toMaster, t)
      BY DEF Has, Once
    <3> QED
      BY <1>0, <1>2, <2>1, <2>4, <3>1, <3>2, <3>3 DEF Send, Entry, masterVars
  <2> QED
    BY <2>3, <2>4
<1>3. ASSUME NEW s \in Sids, WaitForMySid(s) PROVE Token(t)'
  <2>1. /\ job'[s].pc = IF job[s].set THEN "idle" ELSE "asleep"
        /\ \A u \in Sids \ {s} : job'[u] = job[u]
    BY <1>0, <1>3, JobPc DEF WaitForMySid, Places
  <2> QED
    BY <1>0, <1>3, <2>1 DEF WaitForMySid, Entry, masterVars
<1>4. CASE Notify
  <2>1. /\ toTup' = Tail(toTup) /\ toTup # <<>>
        /\ UNCHANGED <<toMaster, masterVars>>
    BY <1>4 DEF Notify
  <2>2. /\ Has(toTup', t) => Has(toTup, t)
        /\ Once(toTup, t) => Once(toTup', t)
        /\ Once(toTup, t) /\ Head(toTup).sid = t => ~Has(toTup', t)
        /\ Head(toTup).sid = t => Has(toTup, t)
    BY <1>0, <2>1, TailToken
  <2>3. CASE Head(toTup).sid \notin statusRoot
    BY <1>0, <1>4, <2>1, <2>2, <2>3 DEF Notify, masterVars
  <2>4. CASE Head(toTup).sid \in statusRoot
    <3>1. Head(toTup).sid \in Sids /\ Head(toTup) \in Requests
      BY <1>0, <2>1, <2>4, TailFacts DEF TypeOK
    <3>2. /\ job' = [job EXCEPT ![Head(toTup).sid] =
                            [pc |-> Signal(@.pc), exec |-> @.exec,
                             set |-> TRUE, status |-> Head(toTup).exec]]
          /\ statusRoot' = statusRoot \ {Head(toTup).sid}
      BY <1>4, <2>4 DEF Notify
    <3>3. \A u \in Sids \ {Head(toTup).sid} : job'[u] = job[u]
      BY <1>0, <3>1, <3>2, JobNotified DEF Requests
    <3> QED
      BY <1>0, <2>1, <2>2, <3>1, <3>2, <3>3 DEF masterVars
  <2> QED
    BY <2>3, <2>4
<1>5. CASE NotifyEof
  BY <1>0, <1>5 DEF NotifyEof, masterVars
<1>6. CASE PostExit
  <2>1. UNCHANGED <<job, statusRoot, toTup, masterVars>>
    BY <1>6 DEF PostExit
  <2>2. toMaster' = toMaster \/ toMaster' = Append(toMaster, Shutdown)
    BY <1>6 DEF PostExit
  <2>3. /\ Has(toMaster', t) <=> Has(toMaster, t)
        /\ Once(toMaster, t) => Once(toMaster', t)
    <3>1. CASE toMaster' = Append(toMaster, Shutdown)
      BY <1>0, <3>1, AppendToken, ShutdownFacts
    <3> QED
      BY <2>2, <3>1
  <2> QED
    BY <1>0, <2>1, <2>3 DEF masterVars
<1>7. CASE WaitMaster \/ JoinNotifier
  BY <1>0, <1>7 DEF WaitMaster, JoinNotifier, masterVars
<1>8. CASE MasterRead
  <2>1. /\ toMaster' = Tail(toMaster) /\ toMaster # <<>>
        /\ UNCHANGED <<job, statusRoot, toTup, tree, waiter>>
    BY <1>8 DEF MasterRead, tupVars
  <2>2. /\ Has(toMaster', t) => Has(toMaster, t)
        /\ Once(toMaster, t) => Once(toMaster', t)
        /\ Once(toMaster, t) /\ Head(toMaster).sid = t => ~Has(toMaster', t)
        /\ Head(toMaster).sid = t => Has(toMaster, t)
    BY <1>0, <2>1, TailToken
  <2>3. master'.msg = Head(toMaster) /\ ~AtMaster(t)
    BY <1>0, <1>8 DEF MasterRead, TypeOK
  <2> QED
    BY <1>0, <2>1, <2>2, <2>3
<1>9. CASE MasterForkFails \/ MasterJoin
  BY <1>0, <1>9 DEF MasterForkFails, MasterJoin, TypeOK, tupVars
<1>10. CASE MasterInsert
  <2>1. /\ master.pc = "insert" /\ master.pid \in Pids /\ tree[master.pid] = None
        /\ master'.pc = "read"
        /\ tree' = [tree EXCEPT ![master.pid] = master.msg.sid]
        /\ UNCHANGED <<tupVars, toMaster, toTup>>
    BY <1>0, <1>10 DEF MasterInsert, ProcInv, TypeOK
  <2>2. (waiter'.pc = "send" <=> waiter.pc = "send") /\ waiter'.rcm = waiter.rcm
    BY <1>0, <1>10 DEF MasterInsert, WakeWaiter, TypeOK
  <2>3. InTree(t)' <=> InTree(t) \/ AtMaster(t)
    BY <1>0, <2>1
  <2>4. (\A p, q \in Pids : tree[p] = t /\ tree[q] = t => p = q)'
    BY <1>0, <2>1
  <2> QED
    BY <1>0, <2>1, <2>2, <2>3, <2>4 DEF tupVars
<1>11. CASE MasterBye
  <2>1. /\ toTup' = Append(toTup, Shutdown) /\ master.pc = "bye" /\ master'.pc = "signal"
        /\ UNCHANGED <<tupVars, toMaster, tree, waiter>>
    BY <1>0, <1>11 DEF MasterBye, TypeOK
  <2>2. /\ Has(toTup', t) <=> Has(toTup, t)
        /\ Once(toTup, t) => Once(toTup', t)
    BY <1>0, <2>1, AppendToken, ShutdownFacts
  <2> QED
    BY <1>0, <2>1, <2>2 DEF tupVars
<1>12. CASE MasterSignal
  BY <1>0, <1>12 DEF MasterSignal, WakeWaiter, TypeOK, tupVars
<1>13. ASSUME NEW p \in Pids, MasterFork(p) PROVE Token(t)'
  BY <1>0, <1>13 DEF MasterFork, TypeOK, tupVars
<1>14. ASSUME NEW p \in Pids, ChildExit(p) PROVE Token(t)'
  BY <1>0, <1>14 DEF ChildExit, tupVars
<1>15. CASE WaiterCheck \/ WaiterTest
  BY <1>0, <1>15 DEF WaiterCheck, WaiterTest, TypeOK, tupVars
<1>16. CASE WaiterWait
  BY <1>0, <1>16 DEF WaiterWait, WaiterRuns, TypeOK, tupVars
<1>17. CASE WaiterSearch
  <2>1. waiter.pid \in Pids /\ waiter.pc = "search"
        /\ UNCHANGED <<tupVars, toMaster, toTup, master>>
    BY <1>0, <1>17 DEF WaiterSearch, WaiterRuns, WaiterInv
  <2>2. CASE tree[waiter.pid] = None
    BY <1>0, <1>17, <2>1, <2>2 DEF WaiterSearch, TypeOK, tupVars
  <2>3. CASE tree[waiter.pid] # None
    <3>1. /\ waiter'.rcm.sid = tree[waiter.pid]
          /\ tree' = [tree EXCEPT ![waiter.pid] = None]
      BY <1>0, <1>17, <2>1, <2>3, WaiterFound DEF WaiterSearch
    <3>2. InTree(t)' => InTree(t) /\ tree[waiter.pid] # t
      BY <1>0, <2>1, <3>1
    <3>3. AtWaiter(t)' => tree[waiter.pid] = t
      BY <3>1
    <3>4. (\A p, q \in Pids : tree[p] = t /\ tree[q] = t => p = q)'
      BY <1>0, <2>1, <3>1
    <3> QED
      BY <1>0, <2>1, <3>2, <3>3, <3>4 DEF tupVars
  <2> QED
    BY <2>2, <2>3
<1>18. CASE WaiterSend
  <2>1. /\ toTup' = Append(toTup, waiter.rcm) /\ waiter.pc = "send" /\ waiter'.pc = "check"
        /\ waiter.rcm \in Requests
        /\ UNCHANGED <<tupVars, toMaster, master, tree>>
    BY <1>0, <1>18 DEF WaiterSend, WaiterRuns, TypeOK
  <2>2. /\ Has(toTup', t) <=> Has(toTup, t) \/ AtWaiter(t)
        /\ Once(toTup, t) /\ (AtWaiter(t) => ~Has(toTup, t)) => Once(toTup', t)
    BY <1>0, <2>1, AppendToken
  <2>3. ~Has(toTup, t) => Once(toTup, t)
    BY DEF Has, Once
  <2> QED
    BY <1>0, <2>1, <2>2, <2>3 DEF tupVars
<1>19. CASE UNCHANGED vars
  BY <1>0, <1>19 DEF vars
<1> QED
  BY <1>1, <1>2, <1>3, <1>4, <1>5, <1>6, <1>7, <1>8, <1>9, <1>10, <1>11, <1>12, <1>13,
     <1>14, <1>15, <1>16, <1>17, <1>18, <1>19 DEF Next

(***************************************************************************)
(* The token carries the execution of its job.                             *)
(***************************************************************************)
LEMMA NoToken ==
    ASSUME NEW q, NEW s, NEW e, ~Has(q, s)
    PROVE  Carries(q, s, e)
BY DEF Has, Carries

LEMMA ExecStep ==
    ASSUME IndInv, [Next]_vars
    PROVE  ExecInv'
<1> SUFFICES ASSUME NEW t \in Sids PROVE Carried(t)'
  BY DEF ExecInv
<1>0. /\ TypeOK /\ Token(t) /\ Carried(t) /\ Entry(t) /\ WaiterInv /\ ProcInv
      /\ toMaster \in Seq(Requests) /\ toTup \in Seq(Requests)
      /\ job \in [Sids -> Job] /\ tree \in [Pids -> Sids \cup {None}]
      /\ proc \in [Pids -> Proc] /\ t # None
  BY SidsAssumption DEF IndInv, TokenInv, ExecInv, JobInv, TypeOK, Job, Places, Proc, States
<1> USE DEF Carried, AtMaster, InTree, AtWaiter
<1>1. ASSUME NEW s \in Sids, Register(s) PROVE Carried(t)'
  <2>1. CASE s = t
    <3>1. ~Has(toMaster, t) /\ ~AtMaster(t) /\ ~InTree(t) /\ ~AtWaiter(t) /\ ~Has(toTup, t)
      BY <1>0, <1>1, <2>1 DEF Register, Token
    <3>2. Carries(toMaster', t, job'[t].exec) /\ Carries(toTup', t, job'[t].exec)
      BY <1>1, <3>1, NoToken DEF Register
    <3>3. ~job'[t].set
      BY <1>0, <1>1, <2>1 DEF Register
    <3> QED
      BY <1>1, <3>1, <3>2, <3>3 DEF Register, masterVars
  <2>2. CASE s # t
    BY <1>0, <1>1, <2>2 DEF Register, masterVars
  <2> QED
    BY <2>1, <2>2
<1>2. ASSUME NEW s \in Sids, Send(s) PROVE Carried(t)'
  <2>1. job'[t].exec = job[t].exec /\ job'[t].set = job[t].set /\ job'[t].status = job[t].status
    BY <1>0, <1>2, JobPc DEF Send, Places
  <2>2. [sid |-> s, exec |-> job[s].exec] \in Requests
    BY <1>0 DEF TypeOK, Requests
  <2>3. Carries(toMaster', t, job[t].exec)
    <3>1. PICK r \in Requests : /\ r = [sid |-> s, exec |-> job[s].exec]
                                /\ r.sid = s /\ r.exec = job[s].exec
      BY <2>2
    <3>2. CASE toMaster' = Append(toMaster, r)
      <4>1. r.sid = t => r.exec = job[t].exec
        BY <3>1
      <4> QED
        BY <1>0, <3>2, <4>1, AppendToken
    <3> QED
      BY <1>0, <1>2, <3>1, <3>2 DEF Send
  <2> QED
    BY <1>0, <1>2, <2>1, <2>3 DEF Send, masterVars
<1>3. ASSUME NEW s \in Sids, WaitForMySid(s) PROVE Carried(t)'
  <2>1. job'[t].exec = job[t].exec /\ job'[t].set = job[t].set /\ job'[t].status = job[t].status
    BY <1>0, <1>3, JobPc DEF WaitForMySid, Places
  <2> QED
    BY <1>0, <1>3, <2>1 DEF WaitForMySid, masterVars
<1>4. CASE Notify
  <2>1. /\ toTup' = Tail(toTup) /\ toTup # <<>>
        /\ UNCHANGED <<toMaster, masterVars>>
    BY <1>4 DEF Notify
  <2>2. /\ Carries(toTup', t, job[t].exec)
        /\ Head(toTup).sid = t => Head(toTup).exec = job[t].exec
    BY <1>0, <2>1, TailToken
  <2>3. CASE Head(toTup).sid \notin statusRoot
    BY <1>0, <1>4, <2>1, <2>2, <2>3 DEF Notify, masterVars
  <2>4. CASE Head(toTup).sid \in statusRoot
    <3>1. Head(toTup).sid \in Sids /\ Head(toTup) \in Requests
      BY <1>0, <2>1, <2>4, TailFacts DEF TypeOK
    <3>2. job' = [job EXCEPT ![Head(toTup).sid] =
                         [pc |-> Signal(@.pc), exec |-> @.exec,
                          set |-> TRUE, status |-> Head(toTup).exec]]
      BY <1>4, <2>4 DEF Notify
    <3>3. /\ \A u \in Sids \ {Head(toTup).sid} : job'[u] = job[u]
          /\ job'[Head(toTup).sid].exec = job[Head(toTup).sid].exec
          /\ job'[Head(toTup).sid].status = Head(toTup).exec
      BY <1>0, <3>1, <3>2, JobNotified DEF Requests
    <3> QED
      BY <1>0, <2>1, <2>2, <3>1, <3>3 DEF masterVars
  <2> QED
    BY <2>3, <2>4
<1>5. CASE NotifyEof
  BY <1>0, <1>5 DEF NotifyEof, masterVars
<1>6. CASE PostExit
  <2>1. Carries(toMaster', t, job[t].exec)
    <3>1. CASE toMaster' = Append(toMaster, Shutdown)
      BY <1>0, <3>1, AppendToken, ShutdownFacts
    <3> QED
      BY <1>0, <1>6, <3>1 DEF PostExit
  <2> QED
    BY <1>0, <1>6, <2>1 DEF PostExit, masterVars
<1>7. CASE WaitMaster \/ JoinNotifier
  BY <1>0, <1>7 DEF WaitMaster, JoinNotifier, masterVars
<1>8. CASE MasterRead
  <2>1. /\ toMaster' = Tail(toMaster) /\ toMaster # <<>>
        /\ UNCHANGED <<job, toTup, tree, proc, waiter>>
    BY <1>8 DEF MasterRead, tupVars
  <2>2. /\ Carries(toMaster', t, job[t].exec)
        /\ Head(toMaster).sid = t => Head(toMaster).exec = job[t].exec
    BY <1>0, <2>1, TailToken
  <2>3. master'.msg = Head(toMaster)
    BY <1>0, <1>8 DEF MasterRead, TypeOK
  <2> QED
    BY <1>0, <2>1, <2>2, <2>3
<1>9. CASE MasterForkFails \/ MasterJoin
  BY <1>0, <1>9 DEF MasterForkFails, MasterJoin, TypeOK, tupVars
<1>10. CASE MasterInsert
  <2>1. /\ master.pc = "insert" /\ master.pid \in Pids
        /\ proc[master.pid].exec = master.msg.exec
        /\ master'.pc = "read"
        /\ tree' = [tree EXCEPT ![master.pid] = master.msg.sid]
        /\ UNCHANGED <<tupVars, toMaster, toTup, proc>>
    BY <1>0, <1>10 DEF MasterInsert, ProcInv, TypeOK
  <2>2. (waiter'.pc = "send" <=> waiter.pc = "send") /\ waiter'.rcm = waiter.rcm
    BY <1>0, <1>10 DEF MasterInsert, WakeWaiter, TypeOK
  <2> QED
    BY <1>0, <2>1, <2>2 DEF tupVars
<1>11. CASE MasterBye
  <2>1. /\ toTup' = Append(toTup, Shutdown) /\ master'.pc = "signal"
        /\ UNCHANGED <<tupVars, toMaster, tree, proc, waiter>>
    BY <1>0, <1>11 DEF MasterBye, TypeOK
  <2>2. Carries(toTup', t, job[t].exec)
    BY <1>0, <2>1, AppendToken, ShutdownFacts
  <2> QED
    BY <1>0, <2>1, <2>2 DEF tupVars
<1>12. CASE MasterSignal
  BY <1>0, <1>12 DEF MasterSignal, WakeWaiter, TypeOK, tupVars
<1>13. ASSUME NEW p \in Pids, MasterFork(p) PROVE Carried(t)'
  <2>1. master.pc = "fork" /\ master'.pc = "insert" /\ master'.msg = master.msg
    BY <1>0, <1>13 DEF MasterFork, TypeOK
  <2> QED
    BY <1>0, <1>13, <2>1 DEF MasterFork, tupVars
<1>14. ASSUME NEW p \in Pids, ChildExit(p) PROVE Carried(t)'
  <2>1. \A q \in Pids : proc'[q].exec = proc[q].exec
    BY <1>0, <1>14, ProcState DEF ChildExit, States
  <2> QED
    BY <1>0, <1>14, <2>1 DEF ChildExit, tupVars
<1>15. CASE WaiterCheck \/ WaiterTest
  BY <1>0, <1>15 DEF WaiterCheck, WaiterTest, TypeOK, tupVars
<1>16. CASE WaiterWait
  <2>1. \A q \in Pids : proc'[q].exec = proc[q].exec
    BY <1>0, <1>16, ProcState DEF WaiterWait, States
  <2>2. waiter'.pc # "send"
    BY <1>0, <1>16 DEF WaiterWait, TypeOK
  <2> QED
    BY <1>0, <1>16, <2>1, <2>2 DEF WaiterWait, tupVars
<1>17. CASE WaiterSearch
  <2>1. waiter.pid \in Pids /\ waiter.rcm.exec = proc[waiter.pid].exec
        /\ UNCHANGED <<tupVars, toMaster, toTup, master, proc>>
    BY <1>0, <1>17 DEF WaiterSearch, WaiterRuns, WaiterInv
  <2>2. CASE tree[waiter.pid] = None
    BY <1>0, <1>17, <2>1, <2>2 DEF WaiterSearch, TypeOK, tupVars
  <2>3. CASE tree[waiter.pid] # None
    <3>1. /\ waiter'.rcm.sid = tree[waiter.pid] /\ waiter'.rcm.exec = waiter.rcm.exec
          /\ tree' = [tree EXCEPT ![waiter.pid] = None]
      BY <1>0, <1>17, <2>1, <2>3, WaiterFound DEF WaiterSearch
    <3> QED
      BY <1>0, <2>1, <3>1 DEF tupVars
  <2> QED
    BY <2>2, <2>3
<1>18. CASE WaiterSend
  <2>1. /\ toTup' = Append(toTup, waiter.rcm) /\ waiter.pc = "send" /\ waiter'.pc = "check"
        /\ waiter.rcm \in Requests
        /\ UNCHANGED <<tupVars, toMaster, master, tree, proc>>
    BY <1>0, <1>18 DEF WaiterSend, WaiterRuns, TypeOK
  <2>2. Carries(toTup', t, job[t].exec)
    BY <1>0, <2>1, AppendToken
  <2> QED
    BY <1>0, <2>1, <2>2 DEF tupVars
<1>19. CASE UNCHANGED vars
  BY <1>0, <1>19 DEF vars
<1> QED
  BY <1>1, <1>2, <1>3, <1>4, <1>5, <1>6, <1>7, <1>8, <1>9, <1>10, <1>11, <1>12, <1>13,
     <1>14, <1>15, <1>16, <1>17, <1>18, <1>19 DEF Next

(***************************************************************************)
(* A job has an entry in status_root until it is told its status.          *)
(***************************************************************************)
LEMMA JobStep ==
    ASSUME IndInv, [Next]_vars
    PROVE  JobInv'
<1> SUFFICES ASSUME NEW t \in Sids PROVE Entry(t)'
  BY DEF JobInv
<1>0. /\ TypeOK /\ Token(t) /\ Entry(t)
      /\ toTup \in Seq(Requests) /\ job \in [Sids -> Job]
  BY DEF IndInv, TokenInv, JobInv, TypeOK, Job, Places
<1> USE DEF Entry
<1>1. ASSUME NEW s \in Sids, Register(s) PROVE Entry(t)'
  BY <1>0, <1>1 DEF Register, masterVars
<1>2. ASSUME NEW s \in Sids, Send(s) PROVE Entry(t)'
  <2>1. /\ job'[s].pc = IF master.pc = "dead" THEN "failed" ELSE "wait"
        /\ job'[s].set = job[s].set
        /\ \A u \in Sids \ {s} : job'[u] = job[u]
    BY <1>0, <1>2, JobPc DEF Send, Places
  <2> QED
    BY <1>0, <1>2, <2>1 DEF Send, masterVars
<1>3. ASSUME NEW s \in Sids, WaitForMySid(s) PROVE Entry(t)'
  <2>1. /\ job'[s].pc = IF job[s].set THEN "idle" ELSE "asleep"
        /\ job'[s].set = job[s].set
        /\ \A u \in Sids \ {s} : job'[u] = job[u]
    BY <1>0, <1>3, JobPc DEF WaitForMySid, Places
  <2> QED
    BY <1>0, <1>3, <2>1 DEF WaitForMySid, masterVars
<1>4. CASE Notify
  <2>1. CASE Head(toTup).sid \notin statusRoot
    BY <1>0, <1>4, <2>1 DEF Notify, masterVars
  <2>2. CASE Head(toTup).sid \in statusRoot
    <3>1. Head(toTup).sid \in Sids /\ Head(toTup) \in Requests
      BY <1>0, <1>4, <2>2, TailFacts DEF TypeOK, Notify
    <3>2. /\ job' = [job EXCEPT ![Head(toTup).sid] =
                            [pc |-> Signal(@.pc), exec |-> @.exec,
                             set |-> TRUE, status |-> Head(toTup).exec]]
          /\ statusRoot' = statusRoot \ {Head(toTup).sid} /\ master' = master
      BY <1>4, <2>2 DEF Notify, masterVars
    <3>3. /\ \A u \in Sids \ {Head(toTup).sid} : job'[u] = job[u]
          /\ job'[Head(toTup).sid].pc = Signal(job[Head(toTup).sid].pc)
          /\ job'[Head(toTup).sid].set = TRUE
      BY <1>0, <3>1, <3>2, JobNotified DEF Requests
    <3>4. Head(toTup).sid = t => job[t].pc \in {"wait", "asleep"}
      BY <1>0, <1>4, TailToken DEF Token, Notify
    <3> QED
      BY <1>0, <3>1, <3>2, <3>3, <3>4 DEF Signal
  <2> QED
    BY <2>1, <2>2
<1>5. CASE NotifyEof \/ PostExit \/ WaitMaster \/ JoinNotifier
  BY <1>0, <1>5 DEF NotifyEof, PostExit, WaitMaster, JoinNotifier, masterVars
<1>6. CASE MasterRead \/ MasterForkFails \/ MasterInsert \/ MasterBye \/ MasterSignal \/ MasterJoin
  BY <1>0, <1>6 DEF MasterRead, MasterForkFails, MasterInsert, MasterBye, MasterSignal, MasterJoin,
                    TypeOK, tupVars
<1>7. ASSUME NEW p \in Pids, MasterFork(p) \/ ChildExit(p) PROVE Entry(t)'
  BY <1>0, <1>7 DEF MasterFork, ChildExit, TypeOK, tupVars
<1>8. CASE WaiterCheck \/ WaiterTest \/ WaiterWait \/ WaiterSearch \/ WaiterSend
  BY <1>0, <1>8 DEF WaiterCheck, WaiterTest, WaiterWait, WaiterSearch, WaiterSend, tupVars
<1>9. CASE UNCHANGED vars
  BY <1>0, <1>9 DEF vars
<1> QED
  BY <1>1, <1>2, <1>3, <1>4, <1>5, <1>6, <1>7, <1>8, <1>9 DEF Next

(***************************************************************************)
(* Every child is in the tree, or about to be.                             *)
(***************************************************************************)
LEMMA ProcStep ==
    ASSUME IndInv, [Next]_vars
    PROVE  ProcInv'
<1>0. /\ TypeOK /\ ProcInv /\ WaiterInv
      /\ proc \in [Pids -> Proc] /\ tree \in [Pids -> Sids \cup {None}]
      /\ None \notin Pids /\ None \notin Sids
  BY SidsAssumption DEF IndInv, TypeOK, Proc, States
<1> USE DEF ProcInv
<1>1. CASE UNCHANGED <<proc, tree, master, waiter>>
  BY <1>0, <1>1
<1>2. CASE MasterRead
  <2>1. /\ master'.pc \in {"bye", "fork"} /\ master'.msg = Head(toMaster)
        /\ master'.pc = "fork" => Head(toMaster).sid # None
        /\ master.pc = "read" /\ UNCHANGED <<proc, tree, waiter>>
    BY <1>0, <1>2 DEF MasterRead, TypeOK
  <2> QED
    BY <1>0, <2>1
<1>3. CASE MasterForkFails \/ MasterBye \/ MasterJoin
  BY <1>0, <1>3 DEF MasterForkFails, MasterBye, MasterJoin, TypeOK
<1>4. CASE MasterInsert
  <2>1. /\ master.pc = "insert" /\ master.pid \in Pids /\ master'.pc = "read"
        /\ tree[master.pid] = None /\ master.msg.sid # None
        /\ tree' = [tree EXCEPT ![master.pid] = master.msg.sid] /\ proc' = proc
    BY <1>0, <1>4 DEF MasterInsert, TypeOK
  <2>2. /\ waiter'.pid = waiter.pid
        /\ waiter.pc \in {"search", "dead"} => waiter'.pc = waiter.pc
    BY <1>0, <1>4 DEF MasterInsert, WakeWaiter, TypeOK
  <2> QED
    BY <1>0, <2>1, <2>2
<1>5. CASE MasterSignal
  BY <1>0, <1>5 DEF MasterSignal, WakeWaiter, TypeOK
<1>6. ASSUME NEW p \in Pids, MasterFork(p) PROVE ProcInv'
  <2>1. /\ master.pc = "fork" /\ master'.pc = "insert" /\ master'.pid = p
        /\ master'.msg = master.msg
        /\ proc[p].state = "free" /\ tree[p] = None /\ waiter.pid # p
        /\ UNCHANGED <<tree, waiter>>
    BY <1>0, <1>6 DEF MasterFork, TypeOK
  <2>2. /\ proc'[p].state = "running" /\ proc'[p].exec = master.msg.exec
        /\ \A q \in Pids \ {p} : proc'[q] = proc[q]
    BY <1>0, <1>6 DEF MasterFork
  <2> QED
    BY <1>0, <2>1, <2>2
<1>7. ASSUME NEW p \in Pids, ChildExit(p) PROVE ProcInv'
  <2>1. /\ proc'[p].state = "zombie" /\ proc'[p].exec = proc[p].exec
        /\ \A q \in Pids \ {p} : proc'[q] = proc[q]
    BY <1>0, <1>7, ProcState DEF ChildExit, States
  <2>2. proc[p].state = "running" /\ UNCHANGED <<tree, master, waiter>>
    BY <1>7 DEF ChildExit
  <2> QED
    BY <1>0, <2>1, <2>2
<1>8. CASE WaiterCheck \/ WaiterTest
  BY <1>0, <1>8 DEF WaiterCheck, WaiterTest, WaiterRuns, TypeOK
<1>9. CASE WaiterWait
  <2>1. waiter.pc = "wait" /\ waiter.pid = None /\ UNCHANGED <<tree, master>>
    BY <1>0, <1>9 DEF WaiterWait, WaiterRuns, WaiterInv
  <2>2. CASE waiter' = [waiter EXCEPT !.pc = "dead"] /\ UNCHANGED proc
    BY <1>0, <2>1, <2>2 DEF TypeOK
  <2>3. ASSUME NEW p \in Pids, proc[p].state = "zombie",
               proc' = [proc EXCEPT ![p].state = "free"],
               waiter'.pc = "search", waiter'.pid = p
        PROVE  ProcInv'
    <3>1. /\ proc'[p].state = "free" /\ proc'[p].exec = proc[p].exec
          /\ \A q \in Pids \ {p} : proc'[q] = proc[q]
      BY <1>0, <2>3, ProcState DEF States
    <3> QED
      BY <1>0, <2>1, <2>3, <3>1
  <2> QED
    BY <1>0, <1>9, <2>2, <2>3 DEF WaiterWait, TypeOK
<1>10. CASE WaiterSearch
  <2>1. waiter.pc = "search" /\ waiter.pid \in Pids /\ UNCHANGED <<proc, master>>
    BY <1>0, <1>10 DEF WaiterSearch, WaiterRuns, WaiterInv
  <2>2. CASE tree[waiter.pid] = None
    BY <1>0, <1>10, <2>1, <2>2 DEF WaiterSearch, TypeOK
  <2>3. CASE tree[waiter.pid] # None
    <3>1. /\ waiter'.pc = "send" /\ waiter'.pid = waiter.pid
          /\ tree' = [tree EXCEPT ![waiter.pid] = None]
      BY <1>0, <1>10, <2>1, <2>3, WaiterFound DEF WaiterSearch
    <3> QED
      BY <1>0, <2>1, <2>3, <3>1
  <2> QED
    BY <2>2, <2>3
<1>11. CASE WaiterSend
  <2>1. waiter.pc = "send" /\ waiter'.pid = None /\ UNCHANGED <<proc, tree, master>>
    BY <1>11 DEF WaiterSend, WaiterRuns
  <2> QED
    BY <1>0, <2>1
<1>12. CASE \E s \in Sids : Register(s) \/ Send(s) \/ WaitForMySid(s)
  BY <1>1, <1>12 DEF Register, Send, WaitForMySid, masterVars
<1>13. CASE Notify \/ NotifyEof \/ PostExit \/ WaitMaster \/ JoinNotifier
  BY <1>1, <1>13 DEF Notify, NotifyEof, PostExit, WaitMaster, JoinNotifier, masterVars
<1>14. CASE UNCHANGED vars
  BY <1>1, <1>14 DEF vars
<1> QED
  BY <1>2, <1>3, <1>4, <1>5, <1>6, <1>7, <1>8, <1>9, <1>10, <1>11, <1>12, <1>13, <1>14 DEF Next

(***************************************************************************)
(* child_waiter only waits for a child when there is one.                  *)
(***************************************************************************)
LEMMA WaiterStep ==
    ASSUME IndInv, [Next]_vars
    PROVE  WaiterInv'
<1>0. /\ TypeOK /\ ProcInv /\ WaiterInv
      /\ proc \in [Pids -> Proc] /\ tree \in [Pids -> Sids \cup {None}]
      /\ None \notin Pids /\ None \notin Sids
  BY SidsAssumption DEF IndInv, TypeOK, Proc, States
<1> USE DEF WaiterInv
<1>1. CASE UNCHANGED <<proc, tree, exiting, waiter>>
  BY <1>0, <1>1
<1>2. CASE MasterInsert
  <2>1. /\ master.pid \in Pids /\ master.msg.sid # None
        /\ tree' = [tree EXCEPT ![master.pid] = master.msg.sid] /\ UNCHANGED <<proc, exiting>>
    BY <1>0, <1>2 DEF MasterInsert, ProcInv
  <2>2. \A p \in Pids : tree[p] # None => tree'[p] # None
    BY <1>0, <2>1
  <2>3. /\ waiter'.pid = waiter.pid /\ waiter'.rcm = waiter.rcm
        /\ waiter'.pc = IF waiter.pc = "asleep" THEN "check" ELSE waiter.pc
    BY <1>0, <1>2 DEF MasterInsert, WakeWaiter, TypeOK
  <2> QED
    BY <1>0, <2>1, <2>2, <2>3
<1>3. CASE MasterSignal
  <2>1. /\ waiter'.pid = waiter.pid /\ waiter'.rcm = waiter.rcm
        /\ waiter'.pc = IF waiter.pc = "asleep" THEN "check" ELSE waiter.pc
        /\ exiting' /\ UNCHANGED <<proc, tree>>
    BY <1>0, <1>3 DEF MasterSignal, WakeWaiter, TypeOK
  <2> QED
    BY <1>0, <2>1
<1>4. ASSUME NEW p \in Pids, MasterFork(p) PROVE WaiterInv'
  <2>1. \A q \in Pids \ {p} : proc'[q] = proc[q]
    BY <1>0, <1>4 DEF MasterFork
  <2> QED
    BY <1>0, <1>4, <2>1 DEF MasterFork
<1>5. ASSUME NEW p \in Pids, ChildExit(p) PROVE WaiterInv'
  <2>1. \A q \in Pids : proc'[q].exec = proc[q].exec
    BY <1>0, <1>5, ProcState DEF ChildExit, States
  <2> QED
    BY <1>0, <1>5, <2>1 DEF ChildExit
<1>6. CASE WaiterCheck \/ WaiterTest
  BY <1>0, <1>6 DEF WaiterCheck, WaiterTest, WaiterRuns, TypeOK
<1>7. CASE WaiterWait
  <2>1. waiter.pc = "wait" /\ UNCHANGED <<tree, exiting>>
    BY <1>0, <1>7 DEF WaiterWait, WaiterRuns
  <2>2. CASE waiter' = [waiter EXCEPT !.pc = "dead"] /\ UNCHANGED proc
    BY <1>0, <2>1, <2>2 DEF TypeOK
  <2>3. ASSUME NEW p \in Pids,
               proc' = [proc EXCEPT ![p].state = "free"],
               waiter'.pc = "search", waiter'.pid = p, waiter'.rcm.exec = proc[p].exec
        PROVE  WaiterInv'
    <3>1. proc'[p].exec = proc[p].exec
      BY <1>0, <2>3, ProcState DEF States
    <3> QED
      BY <1>0, <2>1, <2>3, <3>1
  <2>4. ASSUME NEW p \in Pids,
               waiter' = [waiter EXCEPT !.pc = "search", !.pid = p,
                                        !.rcm = [sid |-> None, exec |-> proc[p].exec]]
        PROVE  waiter'.pc = "search" /\ waiter'.pid = p /\ waiter'.rcm.exec = proc[p].exec
    BY <1>0, <2>4 DEF TypeOK
  <2> QED
    BY <1>7, <2>2, <2>3, <2>4 DEF WaiterWait
<1>8. CASE WaiterSearch
  <2>1. waiter.pc = "search" /\ waiter.pid \in Pids
    BY <1>0, <1>8 DEF WaiterSearch, WaiterRuns
  <2>2. CASE tree[waiter.pid] = None
    BY <1>0, <1>8, <2>1, <2>2 DEF WaiterSearch, TypeOK
  <2>3. CASE tree[waiter.pid] # None
    <3>1. waiter'.pc = "send" /\ waiter'.pid = waiter.pid /\ waiter'.rcm.sid # None
      BY <1>0, <1>8, <2>1, <2>3, WaiterFound DEF WaiterSearch
    <3> QED
      BY <1>0, <2>1, <3>1
  <2> QED
    BY <2>2, <2>3
<1>9. CASE WaiterSend
  <2>1. waiter'.pc = "check" /\ waiter'.pid = None
    BY <1>9 DEF WaiterSend
  <2> QED
    BY <2>1
<1>10. CASE \E s \in Sids : Register(s) \/ Send(s) \/ WaitForMySid(s)
  BY <1>1, <1>10 DEF Register, Send, WaitForMySid, masterVars
<1>11. CASE Notify \/ NotifyEof \/ PostExit \/ WaitMaster \/ JoinNotifier
  BY <1>1, <1>11 DEF Notify, NotifyEof, PostExit, WaitMaster, JoinNotifier, masterVars
<1>12. CASE MasterRead \/ MasterForkFails \/ MasterBye \/ MasterJoin
  BY <1>1, <1>12 DEF MasterRead, MasterForkFails, MasterBye, MasterJoin
<1>13. CASE UNCHANGED vars
  BY <1>1, <1>13 DEF vars
<1> QED
  BY <1>2, <1>3, <1>4, <1>5, <1>6, <1>7, <1>8, <1>9, <1>10, <1>11, <1>12, <1>13 DEF Next

(***************************************************************************)
(* The shutdown.                                                           *)
(***************************************************************************)
LEMMA ShutdownStep ==
    ASSUME IndInv, [Next]_vars
    PROVE  ShutdownInv'
<1>0. /\ TypeOK /\ ShutdownInv /\ JobInv /\ TokenInv /\ WaiterInv
      /\ toTup \in Seq(Requests) /\ job \in [Sids -> Job] /\ None \notin Sids
  BY SidsAssumption DEF IndInv, TypeOK, Job, Places
<1> USE DEF ShutdownInv
<1>1. ASSUME NEW s \in Sids, Register(s) PROVE ShutdownInv'
  BY <1>0, <1>1 DEF Register, masterVars
<1>2. ASSUME NEW s \in Sids, Send(s) PROVE ShutdownInv'
  <2>1. tup \in {"run", "failed"}
    BY <1>0, <1>2 DEF Send, TypeOK
  <2> QED
    BY <1>0, <1>2, <2>1 DEF Send, masterVars
<1>3. ASSUME NEW s \in Sids, WaitForMySid(s) PROVE ShutdownInv'
  <2>1. tup \in {"run", "failed"}
    BY <1>0, <1>3 DEF WaitForMySid, TypeOK
  <2> QED
    BY <1>0, <1>3, <2>1 DEF WaitForMySid, masterVars
<1>4. CASE Notify
  <2>1. /\ toTup' = Tail(toTup) /\ toTup # <<>> /\ UNCHANGED <<masterVars, tup>>
    BY <1>4 DEF Notify
  <2>2. Has(toTup', None) => Has(toTup, None)
    BY <1>0, <2>1, TailToken
  <2>3. Head(toTup) \in Requests /\ Has(toTup, Head(toTup).sid)
    BY <1>0, <2>1, TailFacts, TailToken
  <2>4. CASE Head(toTup).sid \notin statusRoot
    <3>1. Head(toTup).sid = None
      <4>1. Head(toTup).sid \notin Sids
        BY <1>0, <2>3, <2>4 DEF TokenInv, Token
      <4> QED
        BY <2>3, <4>1 DEF Requests
    <3>2. UNCHANGED job
      BY <1>4, <2>4 DEF Notify
    <3> QED
      BY <1>0, <2>1, <2>2, <2>3, <3>1, <3>2 DEF masterVars
  <2>5. CASE Head(toTup).sid \in statusRoot
    <3>1. Head(toTup).sid \in Sids
      BY <1>0, <2>5 DEF TypeOK
    <3>2. notifier' = notifier /\ job' = [job EXCEPT ![Head(toTup).sid] =
                                          [pc |-> Signal(@.pc), exec |-> @.exec,
                                           set |-> TRUE, status |-> Head(toTup).exec]]
      BY <1>4, <2>5 DEF Notify
    <3>3. job[Head(toTup).sid].pc \in {"wait", "asleep"}
      BY <1>0, <2>3, <3>1 DEF TokenInv, Token
    <3>4. tup \in {"run", "failed"}
      BY <1>0, <3>1, <3>3 DEF TypeOK
    <3> QED
      BY <1>0, <2>1, <2>2, <3>2, <3>4 DEF masterVars
  <2> QED
    BY <2>4, <2>5
<1>5. CASE NotifyEof \/ WaitMaster \/ JoinNotifier
  BY <1>0, <1>5 DEF NotifyEof, WaitMaster, JoinNotifier, TypeOK, masterVars
<1>6. CASE PostExit
  BY <1>0, <1>6 DEF PostExit, masterVars
<1>7. CASE MasterRead
  <2>1. /\ master.pc = "read" /\ master'.pc \in {"bye", "fork"}
        /\ UNCHANGED <<tupVars, toTup, exiting>>
    BY <1>0, <1>7 DEF MasterRead, TypeOK
  <2> QED
    BY <1>0, <2>1 DEF tupVars
<1>8. CASE MasterForkFails \/ MasterJoin
  BY <1>0, <1>8 DEF MasterForkFails, MasterJoin, TypeOK, tupVars
<1>9. CASE MasterInsert
  BY <1>0, <1>9 DEF MasterInsert, TypeOK, tupVars
<1>10. CASE MasterBye
  <2>1. master.pc = "bye" /\ master'.pc = "signal" /\ UNCHANGED <<tupVars, exiting, waiter>>
    BY <1>0, <1>10 DEF MasterBye, TypeOK
  <2> QED
    BY <1>0, <2>1 DEF tupVars
<1>11. CASE MasterSignal
  BY <1>0, <1>11 DEF MasterSignal, TypeOK, tupVars
<1>12. ASSUME NEW p \in Pids, MasterFork(p) \/ ChildExit(p) PROVE ShutdownInv'
  <2>1. CASE MasterFork(p)
    <3>1. /\ master.pc = "fork" /\ master'.pc = "insert"
          /\ UNCHANGED <<tupVars, toTup, exiting, waiter>>
      BY <1>0, <2>1 DEF MasterFork, TypeOK
    <3> QED
      BY <1>0, <3>1 DEF tupVars
  <2>2. CASE ChildExit(p)
    BY <1>0, <2>2 DEF ChildExit, tupVars
  <2> QED
    BY <1>12, <2>1, <2>2
<1>13. CASE WaiterCheck \/ WaiterTest \/ WaiterWait \/ WaiterSearch
  <2>1. waiter.pc \notin {"end", "dead"} /\ UNCHANGED <<tupVars, toTup, master, exiting>>
    BY <1>13 DEF WaiterCheck, WaiterTest, WaiterWait, WaiterSearch, WaiterRuns
  <2> QED
    BY <1>0, <2>1 DEF tupVars
<1>14. CASE WaiterSend
  <2>1. /\ toTup' = Append(toTup, waiter.rcm) /\ waiter.rcm \in Requests
        /\ waiter.pc = "send" /\ UNCHANGED <<tupVars, master, exiting>>
    BY <1>0, <1>14 DEF WaiterSend, WaiterRuns, TypeOK
  <2>2. Has(toTup', None) <=> Has(toTup, None)
    BY <1>0, <2>1, AppendToken DEF WaiterInv
  <2> QED
    BY <1>0, <2>1, <2>2 DEF tupVars
<1>15. CASE UNCHANGED vars
  BY <1>0, <1>15 DEF vars
<1> QED
  BY <1>1, <1>2, <1>3, <1>4, <1>5, <1>6, <1>7, <1>8, <1>9, <1>10, <1>11, <1>12, <1>13,
     <1>14, <1>15 DEF Next

(* A status is returned by the execution that it belongs to. *)
LEMMA StatusStep ==
    ASSUME IndInv, [Next]_vars
    PROVE  StatusIsOwn'
<1>0. StatusIsOwn /\ ExecInv
  BY DEF IndInv
<1>1. CASE UNCHANGED results
  BY <1>0, <1>1 DEF StatusIsOwn
<1>2. ASSUME NEW s \in Sids, WaitForMySid(s) PROVE StatusIsOwn'
  <2>1. job[s].set => job[s].status = job[s].exec
    BY <1>0 DEF ExecInv, Carried
  <2> QED
    BY <1>0, <1>2, <2>1 DEF WaitForMySid, StatusIsOwn
<1>3. CASE \E s \in Sids : Register(s) \/ Send(s)
  BY <1>1, <1>3 DEF Register, Send
<1>4. CASE Notify \/ NotifyEof \/ PostExit \/ WaitMaster \/ JoinNotifier
  BY <1>1, <1>4 DEF Notify, NotifyEof, PostExit, WaitMaster, JoinNotifier
<1>5. CASE \/ MasterRead \/ MasterForkFails \/ MasterInsert \/ MasterBye \/ MasterSignal
           \/ MasterJoin \/ \E p \in Pids : MasterFork(p) \/ ChildExit(p)
  BY <1>1, <1>5 DEF MasterRead, MasterForkFails, MasterInsert, MasterBye, MasterSignal,
                    MasterJoin, MasterFork, ChildExit, tupVars
<1>6. CASE WaiterCheck \/ WaiterTest \/ WaiterWait \/ WaiterSearch \/ WaiterSend
  BY <1>1, <1>6 DEF WaiterCheck, WaiterTest, WaiterWait, WaiterSearch, WaiterSend, tupVars
<1>7. CASE UNCHANGED vars
  BY <1>1, <1>7 DEF vars
<1> QED
  BY <1>2, <1>3, <1>4, <1>5, <1>6, <1>7 DEF Next

-----------------------------------------------------------------------------
(***************************************************************************)
(* The theorems.                                                           *)
(***************************************************************************)
LEMMA InitInv == Init => IndInv
<1> SUFFICES ASSUME Init PROVE IndInv
  OBVIOUS
<1>1. TypeOK
  <2>1. 0 \in Executions /\ Shutdown \in Requests
    BY ShutdownFacts, BoundsAssumption DEF Executions
  <2>2. <<>> \in Seq(Requests) /\ Len(<<>>) <= SocketMax
    BY BoundsAssumption
  <2>3. job \in [Sids -> Job]
    BY <2>1 DEF Init, Job, Places
  <2> QED
    BY <2>1, <2>2, <2>3 DEF Init, TypeOK, Job, Places
<1>2. \A s : ~Has(toMaster, s) /\ ~Has(toTup, s) /\ ~AtMaster(s) /\ ~AtWaiter(s)
  BY DEF Init, Has, AtMaster, AtWaiter
<1>3. \A s \in Sids : ~InTree(s) /\ \A p \in Pids : tree[p] # s
  BY SidsAssumption DEF Init, InTree
<1>4. TokenInv
  BY <1>2, <1>3 DEF TokenInv, Token
<1>5. ExecInv
  BY <1>2, <1>3, NoToken DEF Init, ExecInv, Carried
<1>6. JobInv
  BY DEF Init, JobInv, Entry
<1>7. ProcInv /\ WaiterInv
  BY SidsAssumption DEF Init, ProcInv, WaiterInv
<1>8. ShutdownInv /\ StatusIsOwn
  BY <1>2 DEF Init, ShutdownInv, StatusIsOwn
<1> QED
  BY <1>1, <1>4, <1>5, <1>6, <1>7, <1>8 DEF IndInv

LEMMA NextInv == IndInv /\ [Next]_vars => IndInv'
BY TypeStep, TokenStep, ExecStep, JobStep, ProcStep, WaiterStep, ShutdownStep, StatusStep DEF IndInv

(* The invariant of the fork server: a request is a token that is in one   *)
(* place at a time, carries the execution of its job, and has an entry in  *)
(* status_root until child_wait_notifier takes it out.                     *)
THEOREM Invariance == Spec => []IndInv
BY InitInv, NextInv, PTL DEF Spec

(* Every variable of master_fork.c stays within its type, and neither      *)
(* direction of the socket pair holds more messages than it can.           *)
THEOREM TypeCorrect == Spec => []TypeOK
BY Invariance, PTL DEF IndInv

(* master_fork_exec() returns the status of its own sub-process, although  *)
(* pids and sids are used again and statuses come back in any order.       *)
THEOREM OwnStatus == Spec => []StatusIsOwn
BY Invariance, PTL DEF IndInv

(* child_waiter never calls wait() without a child, and                    *)
(* child_wait_notifier never meets a sid without an entry before the       *)
(* shutdown.                                                               *)
THEOREM ThreadsGoOn == Spec => []NobodyGivesUp
<1>1. IndInv => NobodyGivesUp
  <2> SUFFICES ASSUME IndInv PROVE NobodyGivesUp
    OBVIOUS
  <2>1. waiter.pc = "wait" => \E p \in Pids : proc[p].state # "free"
    BY SidsAssumption DEF IndInv, ProcInv, WaiterInv
  <2>2. notifier = "end" => exiting \/ master.pc \in {"signal", "dead"}
    BY DEF IndInv, ShutdownInv
  <2> QED
    BY <2>1, <2>2 DEF NobodyGivesUp
<1> QED
  BY <1>1, Invariance, PTL

(* When server_post_exit() has returned after a shutdown of the master,    *)
(* every sub-process was reaped and reported.                              *)
THEOREM CleanShutdown == Spec => []ShutdownIsClean
<1>1. IndInv => ShutdownIsClean
  <2> SUFFICES ASSUME IndInv, tup = "end", waiter.pc # "dead"
               PROVE  /\ waiter.pc = "end" /\ statusRoot = {}
                      /\ \A p \in Pids : proc[p].state = "free" /\ tree[p] = None
    BY DEF ShutdownIsClean
  <2>1. master.pc = "end" /\ waiter.pc = "end" /\ \A s \in Sids : job[s].pc \in {"idle", "failed"}
    BY DEF IndInv, ShutdownInv
  <2>2. \A s \in Sids : s \notin statusRoot
    BY <2>1 DEF IndInv, JobInv, Entry
  <2>3. statusRoot = {}
    BY <2>2 DEF IndInv, TypeOK
  <2>4. \A p \in Pids : tree[p] = None
    BY <2>2 DEF IndInv, TypeOK, TokenInv, Token, InTree
  <2>5. \A p \in Pids : proc[p].state = "free"
    BY <2>1, <2>4 DEF IndInv, ProcInv
  <2> QED
    BY <2>1, <2>3, <2>4, <2>5
<1> QED
  BY <1>1, Invariance, PTL
=============================================================================
