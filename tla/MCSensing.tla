------------------------------ MODULE MCSensing -----------------------------
(***************************************************************************)
(* An instance of Sensing for TLC.  The default trust weights of           *)
(* trust.go:37-39 in twentieths, and observations that differ in every     *)
(* aspect.                                                                 *)
(***************************************************************************)
EXTENDS Sensing, TLC

Symmetric == Permutations(Peers)

DefaultWeight ==
  [reliability |-> 5, forwarding |-> 3, stability |-> 4, peerScore |-> 3,
   linkQuality |-> 3, misbehavior |-> 2]

Perfect == [delivered |-> TRUE, received |-> TRUE, forwarded |-> TRUE,
            connected |-> TRUE, duplicate |-> FALSE, invalid |-> FALSE,
            link |-> Unit, score |-> Absent]
SomeObservations ==
  {Perfect,
   [Perfect EXCEPT !.invalid = TRUE],
   [Perfect EXCEPT !.duplicate = TRUE, !.delivered = FALSE, !.link = Unit \div 2],
   [Perfect EXCEPT !.delivered = FALSE, !.received = FALSE, !.forwarded = FALSE,
                   !.connected = FALSE, !.invalid = TRUE, !.link = 0, !.score = 0]}
=============================================================================
