--------------------------- MODULE StreamDecoding ---------------------------
(***************************************************************************)
(* The records of the detection topics and what decoding makes of them.    *)
(***************************************************************************)
EXTENDS Integers, Sequences

CONSTANTS
    Topic,      \* the topic-partitions the transport delivers from
    Retailer,
    EventId,
    BoundTo,    \* the retailer each topic is subscribed for, or Unbound
    Log         \* the records producers publish on each topic, by offset

Unbound == "unbound"
NoKey   == "no key"

\* What is wrong with a payload, found before its envelope can be read.
PayloadFault == {"undecodable_bytes", "malformed_payload",
                 "unsupported_wire_version", "schema_violation"}

Record == [fault : PayloadFault \cup {"none"}, envelope : Retailer,
           key : Retailer \cup {NoKey}, id : EventId]

ASSUME DecodingAssumption ==
    /\ BoundTo \in [Topic -> Retailer \cup {Unbound}]
    /\ Unbound \notin Retailer /\ NoKey \notin Retailer
    /\ Log \in [Topic -> Seq(Record)]

RecordAt(t, o) == Log[t][o]
KeyAt(t, o)    == <<RecordAt(t, o).envelope, RecordAt(t, o).id>>

\* Mutant: the partition key is not compared with the envelope.
MutantTrustKey(t, o) ==
    LET r == RecordAt(t, o)
    IN  IF BoundTo[t] = Unbound THEN "unknown_topic"
        ELSE IF r.fault # "none" THEN r.fault
        ELSE IF r.envelope # BoundTo[t] THEN "topic_retailer_mismatch"
        ELSE "ok"

\* decode: the first thing wrong with a record, in the order it is looked for.
Verdict(t, o) ==
    LET r == RecordAt(t, o)
    IN  IF BoundTo[t] = Unbound THEN "unknown_topic"
        ELSE IF r.fault # "none" THEN r.fault
        ELSE IF r.envelope # BoundTo[t] THEN "topic_retailer_mismatch"
        ELSE IF r.key # r.envelope THEN "partition_key_mismatch"
        ELSE "ok"
=============================================================================
