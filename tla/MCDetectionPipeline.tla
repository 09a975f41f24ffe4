------------------------- MODULE MCDetectionPipeline -------------------------
(***************************************************************************)
(* Two topics of one retailer, over facings of their own.                  *)
(***************************************************************************)
EXTENDS DetectionPipeline

Sent(id) == [fault |-> "none", envelope |-> "r1", key |-> "r1", id |-> id]

Seen(id, source, at, observations) ==
    [id |-> id, retailer |-> "r1", supported |-> TRUE, system |-> source,
     source |-> source, at |-> at, observations |-> observations]

Obs(f, r) == [facing |-> f, reading |-> r]

MCBoundTo == [t \in Topic |-> "r1"]

\* A payload that does not parse, a bay pass, an event about a facing that is
\* not there, and the bay pass again; a scan on a topic of its own.
MCLog ==
    [t \in Topic |->
       CASE t = "arpalus" -> <<[Sent("pass") EXCEPT !.fault = "malformed_payload"],
                               Sent("pass"), Sent("lost"), Sent("pass")>>
         [] t = "scans"   -> <<Sent("scan")>>]

MCEventOf ==
    [k \in {"r1"} \X {"pass", "lost", "scan"} |->
       CASE k[2] = "pass" -> Seen("pass", "arpalus_detection", 3,
                                  <<Obs("f1", "voided"), Obs("f2", "stocked")>>)
         [] k[2] = "lost" -> Seen("lost", "arpalus_detection", 2,
                                  <<Obs("f1", "stocked"), Obs("f9", "voided")>>)
         [] k[2] = "scan" -> Seen("scan", "shopper_scan", 2, <<Obs("f3", "found")>>)]

MCOnboarded == {<<"r1", "f1">>, <<"r1", "f2">>, <<"r1", "f3">>}
=============================================================================
