--------------------------- MODULE DetectionStream ---------------------------
(***************************************************************************)
(* DetectionStreamConsumer (src/adapters/inbound/detection-stream) between *)
(* the event stream, the ingestion port and the dead-letter sink.  A       *)
(* record has one of these fates: ingestion takes it, it is filed as a     *)
(* dead letter, or it is held back for another delivery.  The ingestion    *)
(* port is taken at its contract: idempotent on the event's key, one       *)
(* answer per event in order, and free to rate-limit or to fail.           *)
(***************************************************************************)
EXTENDS StreamDecoding

CONSTANTS
    Refused,      \* keys of events ingestion refuses for good
    MaxFailures   \* bound: how many consume calls may fail or die

ASSUME StreamAssumption ==
    /\ Refused \subseteq Retailer \X EventId
    /\ MaxFailures \in Nat

VARIABLES
    published,  \* how much of each log is in the broker
    committed,  \* the offset the broker has committed through
    accepted,   \* keys the ingestion port has accepted
    letters,    \* <<topic, offset, reason>> captured by the dead-letter sink
    phase,      \* where the consume call of a topic stands
    through,    \* the last offset of the batch it was handed
    disposed,   \* the dispositions so far: offset -> status
    failures    \* calls that failed so far

vars == <<published, committed, accepted, letters, phase, through, disposed,
          failures>>

InBatch(t)     == (committed[t] + 1)..through[t]
NoDispositions == [o \in {} |-> "none"]

----------------------------------------------------------------------------
Init ==
    /\ published = [t \in Topic |-> 0]
    /\ committed = [t \in Topic |-> 0]
    /\ accepted = {}
    /\ letters = {}
    /\ phase = [t \in Topic |-> "idle"]
    /\ through = [t \in Topic |-> 0]
    /\ disposed = [t \in Topic |-> NoDispositions]
    /\ failures = 0

Publish(t) ==
    /\ published[t] < Len(Log[t])
    /\ published' = [published EXCEPT ![t] = @ + 1]
    /\ UNCHANGED <<committed, accepted, letters, phase, through, disposed, failures>>

\* A batch of any length is delivered from the commit on; every record of it is
\* decoded before ingestion is called.
Deliver(t, n) ==
    /\ phase[t] = "idle"
    /\ n \in (committed[t] + 1)..published[t]
    /\ phase' = [phase EXCEPT ![t] = "ingesting"]
    /\ through' = [through EXCEPT ![t] = n]
    /\ disposed' = [disposed EXCEPT ![t] =
                      [o \in {o \in (committed[t] + 1)..n : Verdict(t, o) # "ok"}
                         |-> "dead_lettered"]]
    /\ UNCHANGED <<published, committed, accepted, letters, failures>>

Pending(t) == InBatch(t) \ DOMAIN disposed[t]

\* The answers the ingestion port may give about an event.  Of two calls that race
\* over one event within an instant of the clock, both are told it is accepted.
PortAnswer(k) ==
    {"rate_limited"} \cup
    (IF k \in accepted THEN {"duplicate", "accepted"}
     ELSE IF k \in Refused THEN {"rejected"}
     ELSE {"accepted"})

\* Mutant: a rejection is retried like a rate limit.
MutantRetryRejected(answer) ==
    CASE answer = "accepted" -> "ingested"
      [] answer = "duplicate" -> "duplicate"
      [] OTHER -> "retry"

\* Mutant: a duplicate is filed as a refusal.
MutantFileDuplicates(answer) ==
    CASE answer = "accepted" -> "ingested"
      [] answer = "rate_limited" -> "retry"
      [] OTHER -> "dead_lettered"

\* resolve: what an answer makes of its record.
Resolve(answer) ==
    CASE answer = "accepted" -> "ingested"
      [] answer = "duplicate" -> "duplicate"
      [] answer = "rejected" -> "dead_lettered"
      [] answer = "rate_limited" -> "retry"

\* ingestBatch answers the next event of the batch.
Ingest(t, o, answer) ==
    /\ phase[t] = "ingesting"
    /\ o \in Pending(t)
    /\ \A p \in Pending(t) : o <= p
    /\ answer \in PortAnswer(KeyAt(t, o))
    /\ accepted' = IF answer = "accepted" THEN accepted \cup {KeyAt(t, o)}
                   ELSE accepted
    /\ disposed' = [disposed EXCEPT ![t] =
                      [p \in DOMAIN @ \cup {o} |->
                         IF p = o THEN Resolve(answer) ELSE @[p]]]
    /\ UNCHANGED <<published, committed, letters, phase, through, failures>>

Reason(t, o) ==
    IF Verdict(t, o) = "ok" THEN "rejected_by_ingestion" ELSE Verdict(t, o)

DeadLettersOf(t) ==
    {<<t, o, Reason(t, o)>> :
       o \in {o \in InBatch(t) : disposed[t][o] = "dead_lettered"}}

\* finish: the dead letters are captured before the ack is computed.
Capture(t) ==
    /\ phase[t] = "ingesting"
    /\ Pending(t) = {}
    /\ letters' = letters \cup DeadLettersOf(t)
    /\ phase' = [phase EXCEPT ![t] = "acking"]
    /\ UNCHANGED <<published, committed, accepted, through, disposed, failures>>

\* Mutant: the watermark is the last record that was handled.
MutantLastHandled(t, c) ==
    /\ c \in InBatch(t) => disposed[t][c] # "retry"
    /\ \A o \in (c + 1)..through[t] : disposed[t][o] = "retry"

\* commitThrough: up to the first record that needs a retry.
IsWatermark(t, c) ==
    /\ \A o \in (committed[t] + 1)..c : disposed[t][o] # "retry"
    /\ c < through[t] => disposed[t][c + 1] = "retry"

\* The transport commits what the handler answered, and nothing past it.
Ack(t) ==
    /\ phase[t] = "acking"
    /\ \E c \in committed[t]..through[t] :
         /\ IsWatermark(t, c)
         /\ committed' = [committed EXCEPT ![t] = c]
    /\ phase' = [phase EXCEPT ![t] = "idle"]
    /\ disposed' = [disposed EXCEPT ![t] = NoDispositions]
    /\ UNCHANGED <<published, accepted, letters, through, failures>>

\* The consumer dies, or ingestion, the sink or the commit fails: the call
\* ends without an ack.
Fail(t) ==
    /\ phase[t] # "idle"
    /\ failures < MaxFailures
    /\ failures' = failures + 1
    /\ phase' = [phase EXCEPT ![t] = "idle"]
    /\ disposed' = [disposed EXCEPT ![t] = NoDispositions]
    /\ UNCHANGED <<published, committed, accepted, letters, through>>

Answer == {"accepted", "duplicate", "rejected", "rate_limited"}

Consume(t) ==
    \/ \E n \in 1..Len(Log[t]) : Deliver(t, n)
    \/ \E o \in 1..Len(Log[t]), a \in Answer : Ingest(t, o, a)
    \/ Capture(t) \/ Ack(t)

\* Every record is handled and no call is open.
Drained == \A t \in Topic : phase[t] = "idle" /\ committed[t] = Len(Log[t])
Idle    == Drained /\ UNCHANGED vars

Next ==
    \/ \E t \in Topic : Publish(t) \/ Consume(t) \/ Fail(t)
    \/ Idle

\* An event that is not rate-limited this time.
Admit(t, o) == \E a \in Answer \ {"rate_limited"} : Ingest(t, o, a)

\* Producers publish what they have, the transport keeps delivering, a call
\* that is not killed goes on, and no event is rate-limited for ever.
Fairness ==
    \A t \in Topic :
        /\ WF_vars(Publish(t))
        /\ WF_vars(Consume(t))
        /\ \A o \in 1..Len(Log[t]) : SF_vars(Admit(t, o))

Spec     == Init /\ [][Next]_vars
FairSpec == Spec /\ Fairness

----------------------------------------------------------------------------
Phase       == {"idle", "ingesting", "acking"}
Disposition == {"ingested", "duplicate", "dead_lettered", "retry"}

\* The broker's offsets, the port's keys and each call's dispositions.
TypeOK ==
    /\ published \in [Topic -> Nat]
    /\ committed \in [Topic -> Nat]
    /\ through \in [Topic -> Nat]
    /\ \A t \in Topic : /\ committed[t] <= published[t]
                        /\ published[t] <= Len(Log[t])
    /\ accepted \subseteq Retailer \X EventId
    /\ \A l \in letters : l[1] \in Topic /\ l[2] \in 1..Len(Log[l[1]])
    /\ phase \in [Topic -> Phase]
    /\ DOMAIN disposed = Topic
    /\ \A t \in Topic : \A o \in DOMAIN disposed[t] : disposed[t][o] \in Disposition
    /\ failures \in Nat

\* A record is settled once ingestion holds its event or the sink holds its
\* dead letter.
Ingested(t, o) == Verdict(t, o) = "ok" /\ KeyAt(t, o) \in accepted
Filed(t, o)    == \E l \in letters : l[1] = t /\ l[2] = o
Settled(t, o)  == Ingested(t, o) \/ Filed(t, o)

\* "committing past a record that was never handled would lose it": whatever
\* the broker may forget has been ingested or filed, wherever calls died.
NothingLost ==
    \A t \in Topic : \A o \in 1..committed[t] : Settled(t, o)

\* No event is both taken and set aside, however often it is redelivered.
NeverBoth ==
    \A t \in Topic : \A o \in 1..published[t] : ~(Ingested(t, o) /\ Filed(t, o))

\* "Three agreeing sources": an accepted event came, sound, on its retailer's
\* own topic and under its retailer's own key.
SourcesAgree ==
    \A k \in accepted : \E t \in Topic : \E o \in 1..published[t] :
        /\ RecordAt(t, o).fault = "none" /\ KeyAt(t, o) = k
        /\ BoundTo[t] = k[1]
        /\ RecordAt(t, o).key = k[1]

\* One bad message never wedges the partition behind it: everything published
\* is settled and committed in the end.
EventuallyDrained == <>[]Drained

\* Why a record may be set aside: it does not decode, or ingestion refuses it.
Unusable(t, o) == Verdict(t, o) # "ok" \/ KeyAt(t, o) \in Refused

\* Where a call stands: it disposes of records of its batch only, what it calls
\* ingested the port holds, what it sets aside is unusable, and by the time it
\* acks the sink holds it.
CallOK(t) ==
    phase[t] # "idle" =>
        /\ committed[t] <= through[t] /\ through[t] <= published[t]
        /\ DOMAIN disposed[t] \subseteq InBatch(t)
        /\ \A o \in InBatch(t) : Verdict(t, o) # "ok" => o \in DOMAIN disposed[t]
        /\ \A o \in DOMAIN disposed[t] :
             /\ disposed[t][o] \in {"ingested", "duplicate"} => Ingested(t, o)
             /\ disposed[t][o] = "dead_lettered" => Unusable(t, o)
        /\ phase[t] = "acking" =>
             /\ DOMAIN disposed[t] = InBatch(t)
             /\ \A o \in InBatch(t) : disposed[t][o] = "dead_lettered" => Filed(t, o)

\* The inductive invariant behind the safety properties.
IInv ==
    /\ TypeOK
    /\ NothingLost
    /\ SourcesAgree
    /\ accepted \cap Refused = {}
    /\ \A l \in letters : Unusable(l[1], l[2])
    /\ \A t \in Topic : CallOK(t)
=============================================================================
