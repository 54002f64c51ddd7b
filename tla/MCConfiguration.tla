--------------------------- MODULE MCConfiguration --------------------------
(***************************************************************************)
(* An instance of Configuration for TLC: mesh degrees as they are, with a  *)
(* floor of three, and intervals in steps of 250 ms, of which one is the   *)
(* least legal; one field of each class.  One = 2 halves.                  *)
(***************************************************************************)
EXTENDS Configuration

SomeBounded == {"mesh", "heartbeat"}
SomeFloor == [q \in SomeBounded |-> IF q = "mesh" THEN 3 ELSE 1]
SomeDefault == [q \in SomeBounded |-> IF q = "mesh" THEN [min |-> 3, max |-> 16]
                                                    ELSE [min |-> 2, max |-> 40]]

\* EMAAlpha in (0, 1], MinimumTrust in [0, 1], TrustAggregationWeight >= 0
\* and an interval > 0.
SomeCapped == {"alpha", "trust"}
SomeRule ==
  [alpha    |-> [least |-> 1, repair |-> 1, default |-> 1],
   trust    |-> [least |-> 0, repair |-> 1, default |-> 1],
   weight   |-> [least |-> 0, repair |-> 0, default |-> 2],
   interval |-> [least |-> 1, repair |-> 4, default |-> 4]]
SomeNumbers == DOMAIN SomeRule
SomeValues == {-1, 0, 1, 2, 3, 5, 17}
=============================================================================
