-------------------------- MODULE DetectionPipeline --------------------------
(***************************************************************************)
(* The consumer of DetectionStream driving the service of                  *)
(* DetectionIngestion: where that module took the ingestion port at its    *)
(* contract, this one makes the call and runs it await by await.  Every    *)
(* topic has a consume call of its own, so the topics are the handlers.    *)
(***************************************************************************)
EXTENDS DetectionIngestion

CONSTANTS
    Topic, BoundTo, Log,   \* as in StreamDecoding
    EventOf                \* the event that each key's records decode to

Decoding == INSTANCE StreamDecoding

\* The records from first to last that decode, in offset order.
Decoded(t, first, last) ==
    LET usable == {o \in first..last : Decoding!Verdict(t, o) = "ok"}
    IN  [i \in 1..Cardinality(usable) |->
           CHOOSE o \in usable : Cardinality({p \in usable : p < o}) = i - 1]

\* The batch of their events, in the partition the topic is subscribed for.
BatchOf(t, first, last) ==
    LET asked == Decoded(t, first, last)
    IN  [retailer |-> BoundTo[t],
         events   |-> [i \in 1..Len(asked) |-> EventOf[Decoding!KeyAt(t, asked[i])]]]

BatchesOfTopics ==
    UNION {{BatchOf(t, first, last) : first, last \in 1..Len(Log[t])} :
             t \in {t \in Topic : BoundTo[t] \in Retailer}}

\* A record decodes to an event that bears its key, in the schema of the service and
\* under its own system; such events are all the service is handed.
ASSUME PipelineAssumption ==
    /\ Handler = Topic
    /\ {Decoding!Unbound, Decoding!NoKey} \cap Retailer = {}
    /\ BoundTo \in [Topic -> Retailer \cup {Decoding!Unbound}]
    /\ Log \in [Topic -> Seq(Decoding!Record)]
    /\ \A t \in Topic : \A o \in 1..Len(Log[t]) :
         Decoding!Verdict(t, o) = "ok" => Decoding!KeyAt(t, o) \in DOMAIN EventOf
    /\ \A k \in DOMAIN EventOf :
         /\ EventOf[k] \in DetectionEvent
         /\ KeyOf(EventOf[k]) = k
         /\ EventOf[k].supported /\ EventOf[k].system = EventOf[k].source
    /\ Batches = BatchesOfTopics

VARIABLES published, committed, letters, phase, through, disposed

delivery     == <<published, committed, letters, phase, through, disposed>>
pipelineVars == <<vars, delivery>>

Keys == Retailer \X EventId

\* The port has accepted the keys in the ledger, and refuses the events that
\* name a facing the repository does not hold.
AcceptedKeys == {k \in Keys : ledger[k] # NotAccepted}
RefusedKeys  == {k \in DOMAIN EventOf : Stored(EventOf[k]) # Touched(EventOf[k])}

\* What an answer of ingestBatch makes of its record.
DispositionOf(outcome) ==
    CASE outcome.status = "accepted"  -> "ingested"
      [] outcome.status = "duplicate" -> "duplicate"
      [] outcome.status = "rejected"  -> "dead_lettered"

\* Mutant: outcomes are matched to the records of the batch, not to the
\* decoded ones.
MutantAllSlots(t) == [i \in 1..(through[t] - committed[t]) |-> committed[t] + i]

\* The records ingestion is asked about, in the order it answers them.
Asked(t) == Decoded(t, committed[t] + 1, through[t])

\* The slots once the answers are put where the records asked about came from.
Placed(slots, asked, answers) ==
    LET done == 1..Len(answers)
    IN  [o \in DOMAIN slots \cup {asked[i] : i \in done} |->
           IF \E i \in done : asked[i] = o
           THEN DispositionOf(answers[CHOOSE i \in done : asked[i] = o])
           ELSE slots[o]]

\* Every record disposed of so far, the ones the open call has answered included.
Disposed(t) == Placed(disposed[t], Asked(t), outcomes[t])
Slots == [t \in Topic |-> Disposed(t)]

InBatch(t) == (committed[t] + 1)..through[t]

----------------------------------------------------------------------------
PipelineInit ==
    /\ Init
    /\ published = [t \in Topic |-> 0]
    /\ committed = [t \in Topic |-> 0]
    /\ letters = {}
    /\ phase = [t \in Topic |-> "idle"]
    /\ through = [t \in Topic |-> 0]
    /\ disposed = [t \in Topic |-> [o \in {} |-> "none"]]

Publish(t) ==
    /\ published[t] < Len(Log[t])
    /\ published' = [published EXCEPT ![t] = @ + 1]
    /\ UNCHANGED <<vars, committed, letters, phase, through, disposed>>

\* A batch is decoded and what decodes is submitted as one batch of the
\* topic's retailer; when nothing does, ingestion is not called.
Deliver(t, n) ==
    LET asked == Decoded(t, committed[t] + 1, n)
    IN  /\ phase[t] = "idle"
        /\ n \in (committed[t] + 1)..published[t]
        /\ IF asked = <<>> THEN UNCHANGED vars
           ELSE Submit(t, BatchOf(t, committed[t] + 1, n))
        /\ phase' = [phase EXCEPT ![t] = "ingesting"]
        /\ through' = [through EXCEPT ![t] = n]
        /\ disposed' = [disposed EXCEPT ![t] =
             [o \in {o \in (committed[t] + 1)..n : Decoding!Verdict(t, o) # "ok"}
                |-> "dead_lettered"]]
        /\ UNCHANGED <<published, committed, letters>>

Ingest(t) == Work(t) /\ UNCHANGED delivery

\* The call returns and its outcomes are put in the slots of their records.
Collect(t) ==
    /\ Return(t)
    /\ disposed' = [disposed EXCEPT ![t] = Disposed(t)]
    /\ UNCHANGED <<published, committed, letters, phase, through>>

Capture(t) ==
    /\ phase[t] = "ingesting"
    /\ InBatch(t) \subseteq DOMAIN disposed[t]
    /\ letters' = letters \cup
         {<<t, o, IF Decoding!Verdict(t, o) = "ok" THEN "rejected_by_ingestion"
                  ELSE Decoding!Verdict(t, o)>> :
            o \in {o \in InBatch(t) : disposed[t][o] = "dead_lettered"}}
    /\ phase' = [phase EXCEPT ![t] = "acking"]
    /\ UNCHANGED <<vars, published, committed, through, disposed>>

\* Mutant: only records that ingestion took are committed past.
MutantAckIngested(t) ==
    /\ phase[t] = "acking"
    /\ \E c \in committed[t]..through[t] :
         /\ \A o \in (committed[t] + 1)..c : disposed[t][o] # "dead_lettered"
         /\ c < through[t] => disposed[t][c + 1] = "dead_lettered"
         /\ committed' = [committed EXCEPT ![t] = c]
    /\ phase' = [phase EXCEPT ![t] = "idle"]
    /\ disposed' = [disposed EXCEPT ![t] = [o \in {} |-> "none"]]
    /\ UNCHANGED <<vars, published, letters, through>>

\* No answer of the service asks for a retry, so the whole batch is committed.
Ack(t) ==
    /\ phase[t] = "acking"
    /\ committed' = [committed EXCEPT ![t] = through[t]]
    /\ phase' = [phase EXCEPT ![t] = "idle"]
    /\ disposed' = [disposed EXCEPT ![t] = [o \in {} |-> "none"]]
    /\ UNCHANGED <<vars, published, letters, through>>

\* The consumer dies, or a store, the sink or the commit fails.
Fail(t) ==
    /\ phase[t] # "idle"
    /\ crashes < MaxCrashes
    /\ crashes' = crashes + 1
    /\ Forget(t)
    /\ phase' = [phase EXCEPT ![t] = "idle"]
    /\ disposed' = [disposed EXCEPT ![t] = [o \in {} |-> "none"]]
    /\ UNCHANGED <<stores, published, committed, letters, through>>

Consume(t) ==
    \/ \E n \in 1..Len(Log[t]) : Deliver(t, n)
    \/ Ingest(t) \/ Collect(t) \/ Capture(t) \/ Ack(t)

Drained == \A t \in Topic : phase[t] = "idle" /\ committed[t] = Len(Log[t])

PipelineNext ==
    \/ \E t \in Topic : Publish(t) \/ Consume(t) \/ Fail(t)
    \/ Drained /\ UNCHANGED pipelineVars

PipelineSpec == PipelineInit /\ [][PipelineNext]_pipelineVars

\* Publishing goes on, and so does a consume call that is not killed.
FairPipelineSpec ==
    /\ PipelineSpec
    /\ \A t \in Topic : WF_pipelineVars(Publish(t)) /\ WF_pipelineVars(Consume(t))

----------------------------------------------------------------------------
Stream == INSTANCE DetectionStream WITH
    accepted    <- AcceptedKeys,
    Refused     <- RefusedKeys,
    disposed    <- Slots,
    failures    <- crashes,
    MaxFailures <- MaxCrashes

\* ingestBatch keeps the promise the consumer relies on: every step of the
\* pipeline is a step of the consumer over the contract of the ingestion port.
KeepsPortContract == Stream!Spec

\* ... and so everything published is settled and committed in the end.
PipelineDrains == Stream!EventuallyDrained

\* What the stream may forget has reached the shelf: every observation of a
\* committed event is part of its facing, whichever awaits the calls died at.
CommittedIsApplied ==
    \A t \in Topic : \A o \in 1..committed[t] :
        LET k == Decoding!KeyAt(t, o)
        IN  Decoding!Verdict(t, o) = "ok" /\ k \notin RefusedKeys =>
              \A f \in Touched(EventOf[k]) :
                 facings[<<k[1], f>>].observed[EventOf[k].source] >= EventOf[k].at

\* What the topics owe the service, since saveAll is unconditional: no two carry
\* observations of one facing.
FacingsOf(t) ==
    {<<BoundTo[t], f>> :
       f \in UNION {Touched(EventOf[Decoding!KeyAt(t, o)]) :
                      o \in {o \in 1..Len(Log[t]) : Decoding!Verdict(t, o) = "ok"}}}
TopicsApart == \A t, u \in Topic : t # u => FacingsOf(t) \cap FacingsOf(u) = {}

\* Where a consume call stands with the service: it is in a call of its own batch
\* while it ingests, with nothing disposed of yet but what did not decode; it acks
\* when every record is disposed of; only events of known facings are worked on.
CallerOK(t) ==
    /\ committed[t] <= published[t] /\ published[t] <= Len(Log[t])
    /\ phase[t] # "idle" => committed[t] < through[t] /\ through[t] <= published[t]
    /\ phase[t] = "acking" => InBatch(t) \subseteq DOMAIN disposed[t]
    /\ \A o \in DOMAIN disposed[t] :
         disposed[t][o] \in {"ingested", "duplicate", "dead_lettered"}
    /\ pc[t] # "idle" =>
         /\ phase[t] = "ingesting" /\ Asked(t) # <<>>
         /\ batch[t] = BatchOf(t, committed[t] + 1, through[t])
         /\ DOMAIN disposed[t] = {o \in InBatch(t) : Decoding!Verdict(t, o) # "ok"}
    /\ pc[t] \in {"fold", "save", "record"} => Stored(Current(t)) = Touched(Current(t))

\* Inductive with the IInv of the service: what both keep of their calls.
PipelineIInv ==
    /\ published \in [Topic -> Nat] /\ committed \in [Topic -> Nat]
    /\ through \in [Topic -> Nat] /\ phase \in [Topic -> {"idle", "ingesting", "acking"}]
    /\ DOMAIN disposed = Topic
    /\ AcceptedKeys \cap RefusedKeys = {}
    /\ \A t \in Topic : CallerOK(t)
=============================================================================
