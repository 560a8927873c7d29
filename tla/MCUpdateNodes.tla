--------------------------- MODULE MCUpdateNodes ----------------------------
(***************************************************************************)
(* Small projects for module UpdateNodes.                                  *)
(***************************************************************************)
EXTENDS UpdateNodesInv, TLC, FiniteSetsExt

(* s1 -> c1 -> a;  a, s2 -> c2 -> b;  a, b -> c3 -> d *)
LadderFiles   == {"s1", "s2", "a", "b", "d"}
LadderInputs  == "c1" :> {"s1"} @@ "c2" :> {"a", "s2"} @@ "c3" :> {"a", "b"}
LadderOutputs == "c1" :> {"a"} @@ "c2" :> {"b"} @@ "c3" :> {"d"}

(* The same with a second output e of c1, which c3 reads instead of a. *)
TwinFiles   == LadderFiles \cup {"e"}
TwinInputs  == [LadderInputs EXCEPT !["c3"] = {"e", "b"}]
TwinOutputs == [LadderOutputs EXCEPT !["c1"] = {"a", "e"}]

(* What the theorems about ^t assume of a project holds for this one. *)
ASSUME LadderTransientsAreRead == TransientsAreRead

AnyTarget == {{f} : f \in Generated}

(* For d the whole project is built, as without a target. *)
PartTarget == {{"a"}, {"b"}}

(* The highest value that is read; commands that compare their outputs    *)
(* make no difference above 1.                                            *)
Highest(c, read) ==
    LET m == Max({read[f] : f \in DOMAIN read})
    IN  IF c \in Compare /\ m > 1 THEN 1 ELSE m

=============================================================================
