-------------------------- MODULE MCDetectionStream --------------------------
(***************************************************************************)
(* The topic of one retailer and one that no adapter is bound to.          *)
(***************************************************************************)
EXTENDS DetectionStream

Sent(retailer, id) ==
    [fault |-> "none", envelope |-> retailer, key |-> retailer, id |-> id]

MCBoundTo == [t \in Topic |-> IF t = "stray" THEN Unbound ELSE t]

\* Good records among every kind of bad one, one of them published twice.
MCLog ==
    [t \in Topic |->
       CASE t = "r1" -> <<Sent("r1", "a"),
                          [Sent("r1", "b") EXCEPT !.fault = "malformed_payload"],
                          [Sent("r1", "b") EXCEPT !.key = "r2"],
                          Sent("r1", "no such facing"),
                          Sent("r1", "a"),
                          Sent("r2", "b")>>
         [] t = "stray" -> <<Sent("r1", "c")>>]

MCRefused == {<<"r1", "no such facing">>}
=============================================================================
