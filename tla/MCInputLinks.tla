---------------------------- MODULE MCInputLinks ----------------------------
(***************************************************************************)
(* s -> c1 -> g;  c2 -> h and c3 -> k may read g as well.                  *)
(***************************************************************************)
EXTENDS InputLinksInv, TLC

Rule(sticky, reads, writes) == [sticky |-> sticky, reads |-> reads, writes |-> writes]

ChainOutputs == "c1" :> {"g"} @@ "c2" :> {"h"} @@ "c3" :> {"k"}

(* c2 may read and declare g or not, forget its output, or write to g; c3 *)
(* reads h, and maybe g.                                                  *)
ChainRules ==
    "c1" :> {Rule({"s"}, {"s"}, {"g"})} @@
    "c2" :> {Rule({"g"}, {"g"}, {"h"}), Rule({}, {}, {"h"}), Rule({}, {"g"}, {"h"}),
             Rule({"g"}, {}, {"h"}), Rule({}, {}, {"g", "h"}), Rule({"g"}, {"g"}, {})} @@
    "c3" :> {Rule({"h"}, {"h"}, {"k"}), Rule({"h"}, {"g", "h"}, {"k"}), Rule({"g", "h"}, {"g", "h"}, {"k"})}

NoneAllowed == [c \in Cmds |-> {}]

(* The theorems on StillAccepted and DeclaredOrder are about this instance. *)
ASSUME ChainIsCovered == DeclaredIsRead /\ CompareFirst

=============================================================================
