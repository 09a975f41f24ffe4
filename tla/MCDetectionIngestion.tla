------------------------ MODULE MCDetectionIngestion ------------------------
(***************************************************************************)
(* Instances of DetectionIngestion: two facings of retailer r1 and one of  *)
(* r2, and the batches the five producers may submit.                      *)
(***************************************************************************)
EXTENDS DetectionIngestion

Obs(f, r) == [facing |-> f, reading |-> r]

Event(id, retailer, source, at, observations) ==
    [id |-> id, retailer |-> retailer, supported |-> TRUE, system |-> source,
     source |-> source, at |-> at, observations |-> observations]

BatchOf(retailer, events) == [retailer |-> retailer, events |-> events]

MCOnboarded == {<<"r1", "f1">>, <<"r1", "f2">>, <<"r2", "f1">>}
OneFacing   == {<<"r1", "f1">>}

\* A bay-wide vision pass, a later shopper scan of one of its facings, and an
\* earlier scan of both: three instants, and one source that may arrive late.
BayPass    == Event("bay", "r1", "arpalus_detection", 3,
                    <<Obs("f1", "voided"), Obs("f2", "stocked")>>)
LateScan   == Event("scan", "r1", "shopper_scan", 4, <<Obs("f1", "found")>>)
OldScan    == Event("walk", "r1", "shopper_scan", 2,
                    <<Obs("f2", "not_found"), Obs("f1", "found")>>)
\* Events that must not get in.
WrongHome  == Event("scan", "r2", "shopper_scan", 3, <<Obs("f1", "not_found")>>)
NoSuchSlot == Event("lost", "r1", "arpalus_detection", 3,
                    <<Obs("f1", "stocked"), Obs("f9", "voided")>>)
OldSchema  == [Event("old", "r1", "shopper_scan", 3, <<Obs("f1", "found")>>)
                 EXCEPT !.supported = FALSE]
Misrouted  == [Event("mis", "r1", "shopper_scan", 3, <<Obs("f1", "found")>>)
                 EXCEPT !.system = "caper_frame"]
\* Readings that call nothing.
Sweep      == Event("sweep", "r1", "carrot_tag_label", 5,
                    <<Obs("f1", "label"), Obs("f2", "label")>>)

\* Distinct instants per event, each facing at most once in an event.
DistinctInstants ==
    {BatchOf("r1", <<BayPass, LateScan>>),
     BatchOf("r1", <<OldScan>>),
     BatchOf("r1", <<WrongHome, NoSuchSlot, OldSchema, Misrouted, Sweep>>),
     BatchOf("r2", <<WrongHome>>)}

\* Two producers that disagree about one facing at one instant.
SameInstant ==
    {BatchOf("r1", <<Event("scan", "r1", "shopper_scan", 3, <<Obs("f1", "found")>>)>>),
     BatchOf("r1", <<Event("frame", "r1", "caper_frame", 3, <<Obs("f1", "wide_gap")>>)>>)}

\* The same facing seen by two topics, so nothing orders their arrival.
AnyArrival ==
    {BatchOf("r1", <<Event("e1", "r1", "shopper_scan", 1, <<Obs("f1", "found")>>)>>),
     BatchOf("r1", <<Event("e2", "r1", "arpalus_detection", 2, <<Obs("f1", "voided")>>)>>),
     BatchOf("r1", <<Event("e3", "r1", "shopper_scan", 3, <<Obs("f1", "found")>>)>>)}

\* Two handlers over one facing, with a redelivered event between them.
Racing ==
    {BatchOf("r1", <<Event("scan", "r1", "shopper_scan", 3, <<Obs("f1", "found")>>)>>),
     BatchOf("r1", <<Event("frame", "r1", "caper_frame", 4, <<Obs("f1", "wide_gap")>>)>>),
     BatchOf("r1", <<Event("pass", "r1", "arpalus_detection", 2, <<Obs("f1", "voided")>>)>>)}
=============================================================================
