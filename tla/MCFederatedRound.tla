-------------------------- MODULE MCFederatedRound --------------------------
(***************************************************************************)
(* An instance of FederatedRound for TLC.  "rich" has more samples than    *)
(* the cap and full trust, "new" nothing known about it and no             *)
(* connectivity, so that its contribution alone has no weight; "broken" a  *)
(* resource weight that is no number, "old" a network of another shape.    *)
(***************************************************************************)
EXTENDS FederatedRound

Some == {"rich", "new", "broken", "old"}
SomeResource == [p \in Some |-> IF p = "rich" THEN 7 ELSE 0]
SomeTrust == [p \in Some |-> IF p = "rich" THEN 10 ELSE Unknown]
SomeConnectivity == [p \in Some |-> IF p = "new" THEN 0 ELSE 5]
=============================================================================
