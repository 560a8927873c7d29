--------------------------- MODULE MonitorQueueInv ---------------------------
(***************************************************************************)
(* Inductive invariants of MonitorQueue.  SurviveInv is what               *)
(* MonitorSurvives needs, for all operations.  FlatInv is about projects   *)
(* in which no directory is made, moved or removed: that what is on disk   *)
(* and what is in the database differ only where an event is still to be   *)
(* handled, whichever events have cancelled each other.                    *)
(***************************************************************************)
EXTENDS MonitorQueue

Masks == {"create", "modify", "delete", "from", "to", "ignored", "none"}

(* An event; IN_IGNORED is never about the top directory. *)
Sent == {e \in [wd : Nat, name : Names \cup {Kid, Gone}, dir : BOOLEAN, cookie : Nat, mask : Masks] :
            e.mask = "ignored" => e.wd # Top}

SurviveInv ==
    /\ where \in [Dirs -> Names \cup {Out, Gone}]
    /\ watch \in [Dirs -> Nat] /\ nwd \in Nat /\ ops \in Nat
    /\ inot \in Seq(Sent) /\ event_list \in Seq([e : Sent, from : Nat])
    /\ moved_from \subseteq Nat
    /\ dircache = [w \in Wds |-> dircache[w]] /\ dircache[Top] = Top
    /\ alive \in BOOLEAN
    /\ MonitorSurvives

-----------------------------------------------------------------------------
(* Directories are left alone. *)
Flat == Kinds \subseteq {"create", "edit", "delete", "move"}

FileEvent(masks) == [wd : {Top}, name : Names, dir : {FALSE}, cookie : Nat, mask : masks]
FileMasks == {"create", "modify", "delete", "from", "to"}

FlatTypes ==
    /\ file \in [Place -> Nat] /\ ops \in 0 .. MaxOps
    /\ \A i \in Dirs : file[i] = 0
    /\ \A p \in Place : file[p] <= ops + 1
    /\ where = [i \in Dirs |-> Gone] /\ watch = [i \in Dirs |-> 0]
    /\ inot \in Seq(FileEvent(FileMasks))
    /\ event_list \in Seq([e : FileEvent(FileMasks \cup {"none"}), from : Nat])
    /\ \A k \in DOMAIN event_list : event_list[k].from < k
    /\ moved_from \subseteq DOMAIN event_list
    /\ cur \in Nat /\ cur <= Len(event_list) + 1 /\ step = "handle"
    /\ dircache = [w \in Wds |-> dircache[w]] /\ dircache[Top] = Top
    /\ DOMAIN db = {"file", "dir", "create", "modify", "rerun"}
    /\ db.file \in [Names \cup Tids -> Nat] /\ db.dir = [n \in Names |-> 0]

(* What is still to be handled of event_list. *)
Pend == {k \in DOMAIN event_list : k >= cur}

Name(k) == event_list[k].e.name
Mask(k) == event_list[k].e.mask

(* The monitor is going to look at n. *)
IsLook(m) == m \in {"create", "modify", "to"}
Looks(k, n)  == Name(k) = n /\ IsLook(Mask(k))
LookAt(j, n) == inot[j].name = n /\ IsLook(inot[j].mask)

(* ... to take n out of the database: n went away, or went elsewhere. *)
Dels(k, n)    == Name(k) = n /\ IsDel(Mask(k))
Carries(k, n) == Mask(k) = "to" /\ event_list[k].from # 0 /\ Name(event_list[k].from) = n
Removes(k, n) == Dels(k, n) \/ Carries(k, n)
DelAt(j, n)   == inot[j].name = n /\ IsDel(inot[j].mask)

News(k, n)  == Name(k) = n /\ IsNew(Mask(k))
NewAt(j, n) == inot[j].name = n /\ IsNew(inot[j].mask)

(* Something after the event k of event_list will be looked at. *)
LookedAtAfter(k, n) ==
    \/ \E i \in Pend : i > k /\ Looks(i, n)
    \/ \E j \in DOMAIN inot : LookAt(j, n)

(* A file that is there and whose removal is pending will be found. *)
BackInKernel ==
    \A n \in Names, j \in DOMAIN inot : DelAt(j, n) /\ file[n] # 0 =>
        \E i \in DOMAIN inot : i > j /\ LookAt(i, n)
BackInList ==
    \A n \in Names, k \in Pend : Removes(k, n) /\ file[n] # 0 => LookedAtAfter(k, n)

(* So will a file that is not what the database has. *)
DirtyIsLookedAt ==
    \A n \in Names : file[n] # 0 /\ db.file[n] # file[n] => LookedAtAfter(0, n)

Flagged(n) == IF n \in Generated THEN n \in db.rerun ELSE n \in db.modify \/ Top \in db.create
NewIsFlagged ==
    \A n \in Names : (db.file[n] > 1 => Flagged(n)) /\ (n \in Generated => db.file[n] # 0)

(* The two events of a move are neighbours, and have different names. *)
Cookies ==
    /\ \A j \in DOMAIN inot : inot[j].cookie <= ops
    /\ \A k \in DOMAIN event_list : event_list[k].e.cookie <= ops
    /\ \A j \in DOMAIN inot : inot[j].mask = "to" =>
         /\ \A i \in DOMAIN inot : inot[i].mask = "from" /\ inot[i].cookie = inot[j].cookie =>
                i = j - 1 /\ inot[i].name # inot[j].name
         /\ \A k \in moved_from : event_list[k].e.cookie = inot[j].cookie =>
                j = 1 /\ k = Len(event_list) /\ Mask(k) = "from" /\ Name(k) # inot[j].name
    /\ \A k \in DOMAIN event_list, n \in Names : Carries(k, n) => Name(k) # n

KnownInv == BackInKernel /\ BackInList /\ DirtyIsLookedAt /\ NewIsFlagged /\ Cookies

-----------------------------------------------------------------------------
(* A file that is gone: who tells the database. *)

NoDelAfter(j, n) == \A i \in DOMAIN inot : i > j => ~DelAt(i, n)
DelBetween(x, y, n) == \E i \in DOMAIN inot : x < i /\ i < y /\ DelAt(i, n)

Excused(n) == n \in lost \cup db.rerun

(* The file that is at m came by a move that n stood behind, and has not gone since. *)
Behind(n, m, j) == n \in lost \/ (n \in behind[m] /\ NoDelAfter(j, m))
Spared(n, j) == n \in db.rerun \/ Behind(n, n, j)

GoneIsTold ==
    \A n \in Names : db.file[n] # 0 /\ file[n] = 0 /\ ~Excused(n) =>
        \/ \E k \in Pend : Removes(k, n)
        \/ \E j \in DOMAIN inot : DelAt(j, n)

(* What was seen and is gone has a removal after it. *)
SeenAndGone ==
    \A n \in Names : file[n] = 0 =>
        /\ \A j \in DOMAIN inot : LookAt(j, n) => \E i \in DOMAIN inot : i > j /\ DelAt(i, n)
        /\ \A k \in Pend : Looks(k, n) =>
             \/ Excused(n) \/ \E i \in Pend : i > k /\ Removes(i, n)
             \/ \E j \in DOMAIN inot : DelAt(j, n)

(* What was seen and is made again was removed in between. *)
SeenAndNew ==
    \A n \in Names :
        /\ \A y \in DOMAIN inot : NewAt(y, n) =>
             /\ \A x \in DOMAIN inot : x < y /\ LookAt(x, n) => Spared(n, y) \/ DelBetween(x, y, n)
             /\ \A x \in Pend : Looks(x, n) =>
                    Spared(n, y) \/ DelBetween(0, y, n) \/ \E z \in Pend : z > x /\ Removes(z, n)
        /\ \A y \in Pend : News(y, n) =>
             \A x \in Pend : x < y /\ Looks(x, n) =>
                    Spared(n, 0) \/ \E z \in Pend : x < z /\ z < y /\ Carries(z, n)

(* So was what is in the database and is made again. *)
KnownAndNew ==
    \A n \in Names : db.file[n] # 0 =>
        /\ \A y \in DOMAIN inot : NewAt(y, n) =>
             Spared(n, y) \/ DelBetween(0, y, n) \/ \E z \in Pend : Removes(z, n)
        /\ \A y \in Pend : News(y, n) => Spared(n, 0) \/ \E z \in Pend : z < y /\ Carries(z, n)

(* A move that goes with its target is excused for its source. *)
MovesAreBehind ==
    /\ \A k \in Pend, n, m \in Names : Carries(k, n) /\ Name(k) = m => Behind(n, m, 0)
    /\ \A j \in DOMAIN inot, n, m \in Names : inot[j].mask = "to" /\ inot[j].name = m =>
         /\ \A k \in moved_from :
              event_list[k].e.cookie = inot[j].cookie /\ Name(k) = n => Behind(n, m, j)
         /\ \A i \in DOMAIN inot :
              inot[i].mask = "from" /\ inot[i].cookie = inot[j].cookie /\ inot[i].name = n =>
                  Behind(n, m, j)

(* ephemeral_event() leaves no removal in front of a creation. *)
NoneBeforeNew ==
    \A n \in Names, j, k \in Pend : j < k /\ Dels(j, n) => ~News(k, n)

(* behind has a set for each place. *)
BehindType == behind = [p \in Place |-> behind[p]]

GoneInv == BehindType /\ GoneIsTold /\ SeenAndGone /\ SeenAndNew /\ KnownAndNew /\ MovesAreBehind /\ NoneBeforeNew

FlatInv == FlatTypes /\ KnownInv /\ GoneInv
=============================================================================
