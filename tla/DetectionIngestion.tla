------------------------- MODULE DetectionIngestion -------------------------
(***************************************************************************)
(* DetectionIngestionService (src/application) over its two stores, the    *)
(* facing repository and the idempotency ledger.  A handler runs one       *)
(* ingestBatch call; it is cut at every await, so other handlers and a     *)
(* crash may come in between.                                              *)
(***************************************************************************)
EXTENDS FacingAggregate, FiniteSets

CONSTANTS
    Retailer,       \* partitions
    Onboarded,      \* the <<retailer, facing>> pairs the repository holds
    OpenedAt,       \* createdAt of every facing
    InitialState,   \* the states a facing may be created in
    Handler,        \* concurrent callers of ingestBatch
    Batches,        \* the batches producers may submit, any number of times
    Clock,          \* the readings of the platform clock
    MaxCrashes      \* bound: how often handlers may die mid-call

DetectionSource == SignalSource \ {"planogram_record"}

Observation == [facing : FacingId, reading : Reading]

DetectionEvent ==
    [id : EventId, retailer : Retailer, supported : BOOLEAN,
     system : DetectionSource, source : DetectionSource, at : Instant,
     observations : Seq(Observation)]

Batch == [retailer : Retailer, events : Seq(DetectionEvent)]

ASSUME IngestionAssumption ==
    /\ Onboarded \subseteq Retailer \X FacingId
    /\ OpenedAt \in Instant
    /\ InitialState \subseteq ShelfState
    /\ Batches \subseteq Batch
    /\ Clock \subseteq Instant
    /\ MaxCrashes \in Nat

NotAccepted == -1   \* the ledger holds no row for the key
NoBatch == [retailer |-> "none", events |-> <<>>]
NoWork  == [f \in {} |-> 0]

VARIABLES
    facings,     \* repository: the stored aggregate of each onboarded facing
    ledger,      \* first acceptance of each <<retailer, event>>
    pc,          \* what each handler awaits
    batch,       \* the batch it was handed
    outcomes,    \* its answers so far, in submission order
    working,     \* the aggregates it loaded for the current event, as folded
    folded,      \* how many observations of the current event it has folded
    acceptedAt,  \* its clock reading for the current event
    crashes      \* deaths so far

stores == <<facings, ledger>>
call   == <<pc, batch, outcomes, working, folded, acceptedAt>>
vars   == <<facings, ledger, pc, batch, outcomes, working, folded, acceptedAt,
            crashes>>

----------------------------------------------------------------------------
Init ==
    /\ facings \in [Onboarded -> {CreateFacing(OpenedAt, s) : s \in InitialState}]
    /\ ledger = [k \in Retailer \X EventId |-> NotAccepted]
    /\ pc = [h \in Handler |-> "idle"]
    /\ batch = [h \in Handler |-> NoBatch]
    /\ outcomes = [h \in Handler |-> <<>>]
    /\ working = [h \in Handler |-> NoWork]
    /\ folded = [h \in Handler |-> 0]
    /\ acceptedAt = [h \in Handler |-> 0]
    /\ crashes = 0

\* The event a handler is working on.
Current(h) == batch[h].events[Len(outcomes[h]) + 1]
HasNext(h) == Len(outcomes[h]) < Len(batch[h].events)
KeyOf(e)   == <<e.retailer, e.id>>

\* normalizeDetectionEvent: every observation is dated by the envelope.
SignalOf(e, i) ==
    [id |-> <<e.id, i>>, facing |-> e.observations[i].facing,
     source |-> e.source, at |-> e.at, reading |-> e.observations[i].reading]

Touched(e) == {e.observations[i].facing : i \in 1..Len(e.observations)}

Rejected(e, reason) == [event |-> e.id, status |-> "rejected", reason |-> reason]
Duplicate(e, at)    == [event |-> e.id, status |-> "duplicate", at |-> at]
Accepted(e, at)     == [event |-> e.id, status |-> "accepted", at |-> at]

\* The handler answers its current event and turns to the next.
Answer(h, outcome) ==
    /\ outcomes' = [outcomes EXCEPT ![h] = Append(@, outcome)]
    /\ pc' = [pc EXCEPT ![h] = "next"]
    /\ working' = [working EXCEPT ![h] = NoWork]
    /\ folded' = [folded EXCEPT ![h] = 0]
    /\ acceptedAt' = [acceptedAt EXCEPT ![h] = 0]
    /\ UNCHANGED batch

----------------------------------------------------------------------------
\* A producer's batch arrives; submitting one again is a redelivery.
Submit(h, b) ==
    /\ pc[h] = "idle"
    /\ pc' = [pc EXCEPT ![h] = "next"]
    /\ batch' = [batch EXCEPT ![h] = b]
    /\ UNCHANGED <<stores, outcomes, working, folded, acceptedAt, crashes>>

PartitionMismatch(b, e) == e.retailer # b.retailer

\* The checks before the first await, in the order the code makes them.
Refusal(b, e) ==
    IF PartitionMismatch(b, e) THEN "cross_retailer_mismatch"
    ELSE IF ~e.supported THEN "unsupported_schema_version"
    ELSE IF e.system # e.source THEN "schema_violation"
    ELSE "none"

Refuse(h) ==
    /\ pc[h] = "next"
    /\ HasNext(h)
    /\ Refusal(batch[h], Current(h)) # "none"
    /\ Answer(h, Rejected(Current(h), Refusal(batch[h], Current(h))))
    /\ UNCHANGED <<stores, crashes>>

\* ledger.firstAcceptedAt finds the key.
AnswerDuplicate(h) ==
    /\ pc[h] = "next"
    /\ HasNext(h)
    /\ Refusal(batch[h], Current(h)) = "none"
    /\ ledger[KeyOf(Current(h))] # NotAccepted
    /\ Answer(h, Duplicate(Current(h), ledger[KeyOf(Current(h))]))
    /\ UNCHANGED <<stores, crashes>>

\* ledger.firstAcceptedAt does not.
StartIngest(h) ==
    /\ pc[h] = "next"
    /\ HasNext(h)
    /\ Refusal(batch[h], Current(h)) = "none"
    /\ ledger[KeyOf(Current(h))] = NotAccepted
    /\ pc' = [pc EXCEPT ![h] = "load"]
    /\ UNCHANGED <<stores, batch, outcomes, working, folded, acceptedAt, crashes>>

Stored(e) == {f \in Touched(e) : <<e.retailer, f>> \in Onboarded}

RejectUnknownFacing(h) ==
    /\ pc[h] = "load"
    /\ Stored(Current(h)) # Touched(Current(h))
    /\ Answer(h, Rejected(Current(h), "unknown_facing"))
    /\ UNCHANGED <<stores, crashes>>

\* Mutant: a facing that is not there is opened, and the rest goes ahead.
MutantLoadAnyway(h) ==
    /\ pc[h] = "load"
    /\ working' = [working EXCEPT ![h] =
                     [f \in Touched(Current(h)) |->
                        IF f \in Stored(Current(h))
                        THEN facings[<<Current(h).retailer, f>>]
                        ELSE CreateFacing(OpenedAt, "unknown")]]
    /\ pc' = [pc EXCEPT ![h] = "fold"]
    /\ UNCHANGED <<stores, batch, outcomes, folded, acceptedAt, crashes>>

\* facings.loadMany: every facing of the event, as stored now.
Load(h) ==
    /\ pc[h] = "load"
    /\ Stored(Current(h)) = Touched(Current(h))
    /\ working' = [working EXCEPT ![h] =
                     [f \in Touched(Current(h)) |->
                        facings[<<Current(h).retailer, f>>]]]
    /\ pc' = [pc EXCEPT ![h] = "fold"]
    /\ UNCHANGED <<stores, batch, outcomes, folded, acceptedAt, crashes>>

\* One turn of the loop over the signals; a throw ends the call.
Fold(h) ==
    /\ pc[h] = "fold"
    /\ folded[h] < Len(Current(h).observations)
    /\ LET s == SignalOf(Current(h), folded[h] + 1)
           f == working[h][s.facing]
       IN  /\ pc' = [pc EXCEPT ![h] = IF SignalOutcome(f, s) = "threw"
                                      THEN "threw" ELSE "fold"]
           /\ working' = [working EXCEPT ![h][s.facing] = RecordSignal(f, s)]
    /\ folded' = [folded EXCEPT ![h] = @ + 1]
    /\ UNCHANGED <<stores, batch, outcomes, acceptedAt, crashes>>

\* Mutant: the ledger is written before the aggregates.
MutantRecordFirst(h, now) ==
    /\ pc[h] = "fold"
    /\ folded[h] = Len(Current(h).observations)
    /\ acceptedAt' = [acceptedAt EXCEPT ![h] = now]
    /\ ledger' = [ledger EXCEPT ![KeyOf(Current(h))] = now]
    /\ pc' = [pc EXCEPT ![h] = "save"]
    /\ UNCHANGED <<facings, batch, outcomes, working, folded, crashes>>

\* acceptedAt is read off the clock before the save is awaited.
StampAcceptance(h, now) ==
    /\ pc[h] = "fold"
    /\ folded[h] = Len(Current(h).observations)
    /\ acceptedAt' = [acceptedAt EXCEPT ![h] = now]
    /\ pc' = [pc EXCEPT ![h] = "save"]
    /\ UNCHANGED <<stores, batch, outcomes, working, folded, crashes>>

\* facings.saveAll: one unit, and unconditional.
Save(h) ==
    /\ pc[h] = "save"
    /\ facings' = [p \in Onboarded |->
                     IF /\ p[1] = Current(h).retailer
                        /\ p[2] \in DOMAIN working[h]
                     THEN working[h][p[2]] ELSE facings[p]]
    /\ pc' = [pc EXCEPT ![h] = "record"]
    /\ UNCHANGED <<ledger, batch, outcomes, working, folded, acceptedAt, crashes>>

\* What ledger.record answers: the instant already stored, if there is one.
Winner(h) ==
    IF ledger[KeyOf(Current(h))] = NotAccepted THEN acceptedAt[h]
    ELSE ledger[KeyOf(Current(h))]

\* Mutant: what ledger.record answers is not compared with the own instant.
MutantAnswerOwn(h) ==
    /\ pc[h] = "record"
    /\ ledger' = [ledger EXCEPT ![KeyOf(Current(h))] = Winner(h)]
    /\ Answer(h, Accepted(Current(h), acceptedAt[h]))
    /\ UNCHANGED <<facings, crashes>>

Record(h) ==
    /\ pc[h] = "record"
    /\ ledger' = [ledger EXCEPT ![KeyOf(Current(h))] = Winner(h)]
    /\ Answer(h, IF Winner(h) = acceptedAt[h]
                 THEN Accepted(Current(h), acceptedAt[h])
                 ELSE Duplicate(Current(h), Winner(h)))
    /\ UNCHANGED <<facings, crashes>>

Forget(h) ==
    /\ pc' = [pc EXCEPT ![h] = "idle"]
    /\ batch' = [batch EXCEPT ![h] = NoBatch]
    /\ outcomes' = [outcomes EXCEPT ![h] = <<>>]
    /\ working' = [working EXCEPT ![h] = NoWork]
    /\ folded' = [folded EXCEPT ![h] = 0]
    /\ acceptedAt' = [acceptedAt EXCEPT ![h] = 0]

\* Every event is answered and the call returns.
Return(h) ==
    /\ pc[h] = "next"
    /\ ~HasNext(h)
    /\ Forget(h)
    /\ UNCHANGED <<stores, crashes>>

\* The process dies, or a store call fails and the error propagates: the call
\* is gone, what was stored stays.
Crash(h) ==
    /\ pc[h] # "idle"
    /\ crashes < MaxCrashes
    /\ crashes' = crashes + 1
    /\ Forget(h)
    /\ UNCHANGED stores

Work(h) ==
    \/ Refuse(h) \/ AnswerDuplicate(h) \/ StartIngest(h)
    \/ RejectUnknownFacing(h) \/ Load(h) \/ Fold(h)
    \/ \E now \in Clock : StampAcceptance(h, now)
    \/ Save(h) \/ Record(h)

Next ==
    \E h \in Handler :
        \/ \E b \in Batches : Submit(h, b)
        \/ Work(h)
        \/ Return(h)
        \/ Crash(h)

Spec == Init /\ [][Next]_vars

----------------------------------------------------------------------------
CallState == {"idle", "next", "load", "fold", "save", "record", "threw"}

Outcome ==
    [event : EventId, status : {"accepted", "duplicate"}, at : Instant]
    \cup [event : EventId, status : {"rejected"},
          reason : {"cross_retailer_mismatch", "unsupported_schema_version",
                    "schema_violation", "unknown_facing"}]

\* The stores hold aggregates and acceptance instants, and every handler a
\* batch, its answers so far and a working set of aggregates.
TypeOK ==
    /\ facings \in [Onboarded -> Facing]
    /\ ledger \in [Retailer \X EventId -> Instant \cup {NotAccepted}]
    /\ pc \in [Handler -> CallState]
    /\ batch \in [Handler -> Batches \cup {NoBatch}]
    /\ outcomes \in [Handler -> Seq(Outcome)]
    /\ folded \in [Handler -> Nat]
    /\ acceptedAt \in [Handler -> Instant]
    /\ crashes \in Nat
    /\ DOMAIN working = Handler
    /\ \A h \in Handler :
         /\ DOMAIN working[h] \subseteq FacingId
         /\ \A f \in DOMAIN working[h] : working[h][f] \in Facing

----------------------------------------------------------------------------
(***************************************************************************)
(* Properties that hold for any number of handlers.                        *)
(***************************************************************************)

\* Every stored aggregate is a well-formed log whose facing agrees with it,
\* whatever order signals arrived in, whichever handlers raced over it and
\* wherever they died (appendEvent's checks, facing.ts's use of them).
HistoriesWellFormed == \A p \in Onboarded : FacingOK(facings[p])

\* recordSignal never builds an event that appendEvent refuses, so no call ends
\* in OutOfOrderEventError: the staleness test in front of it covers every
\* order in which signals can reach a loaded aggregate.
NoCallThrows == \A h \in Handler : pc[h] # "threw"

\* Whatever a handler answers is what the ledger says: an accepted or duplicate
\* answer carries the ledger's instant.
AnswersMatchLedger ==
    \A h \in Handler : \A i \in 1..Len(outcomes[h]) :
        LET o == outcomes[h][i]
        IN  o.status \in {"accepted", "duplicate"}
              => ledger[<<batch[h].retailer, o.event>>] = o.at

\* A batch writes only into the partition it was submitted for, whatever
\* retailer its events name.
WritesStayInPartition ==
    [][\A p \in Onboarded : facings'[p] # facings[p] =>
         \E h \in Handler : batch[h].retailer = p[1] /\ pc[h] = "save"]_vars

\* Where a call stands between its awaits, beyond the types: it holds no batch
\* when idle and answers no more events than it was given; it is past the first
\* await only with an event that passed every check; folding starts at the first
\* observation; its working set is exactly the facings of that event, and is as
\* well-formed as the stored aggregates.
CallOK(h) ==
    /\ pc[h] # "threw"
    /\ pc[h] = "idle" => batch[h] = NoBatch
    /\ Len(outcomes[h]) <= Len(batch[h].events)
    /\ pc[h] \in {"idle", "next", "load"} => folded[h] = 0
    /\ pc[h] \in {"load", "fold", "save", "record"} =>
         /\ HasNext(h)
         /\ Refusal(batch[h], Current(h)) = "none"
    /\ pc[h] \in {"fold", "save", "record"} =>
         /\ DOMAIN working[h] = Touched(Current(h))
         /\ folded[h] <= Len(Current(h).observations)
    /\ \A f \in DOMAIN working[h] : FacingOK(working[h][f])

\* The inductive invariant behind the properties above.
IInv ==
    /\ TypeOK
    /\ HistoriesWellFormed
    /\ AnswersMatchLedger
    /\ \A h \in Handler : CallOK(h)

----------------------------------------------------------------------------
(***************************************************************************)
(* Properties of a repository whose facings one call at a time works on.   *)
(***************************************************************************)

\* The facings a call has loaded and not saved yet, and what the callers owe the
\* service, since saveAll is unconditional: no two calls hold one facing.
Held(h) ==
    IF pc[h] \in {"fold", "save"}
    THEN {<<Current(h).retailer, f>> : f \in Touched(Current(h))} ELSE {}
HeldApart == \A g, h \in Handler : g # h => Held(g) \cap Held(h) = {}

EventsOf(b) == {b.events[i] : i \in 1..Len(b.events)}
Submitted == UNION {EventsOf(b) : b \in Batches}
Deliverable ==
    UNION {{e \in EventsOf(b) : /\ Refusal(b, e) = "none"
                                /\ Touched(e) = Stored(e)} : b \in Batches}
WasAccepted(e) == ledger[KeyOf(e)] # NotAccepted

\* An idempotency key names one event.
KeysAreUnique == \A e, d \in Submitted : KeyOf(e) = KeyOf(d) => e = d

\* Every facing the event names is there and holds its observation.
Applied(e) ==
    \A f \in Touched(e) :
        /\ <<e.retailer, f>> \in Onboarded
        /\ facings[<<e.retailer, f>>].observed[e.source] >= e.at

\* The log of new continues that of old, and none of its snapshots is older.
Continues(new, old) ==
    LET was == old.history.events
        is  == new.history.events
    IN  /\ Len(was) <= Len(is)
        /\ \A i \in 1..Len(was) : is[i] = was[i]
        /\ \A s \in SignalSource : new.observed[s] >= old.observed[s]

\* "Append-only": no stored history ever loses or rewrites an event, and no
\* source's snapshot goes back in time.
AppendOnly == [][\A p \in Onboarded : Continues(facings'[p], facings[p])]_vars

\* No silently dropped observation: an event the ledger calls accepted has
\* reached every facing it observed, even across crashes (the reason the ledger
\* is written after the aggregates).
AcceptedIsApplied == \A e \in Deliverable : WasAccepted(e) => Applied(e)

\* An entry of the log of some facing was caused by an observation of the event.
HasMoved(e) ==
    \E p \in Onboarded : \E i \in 1..Len(facings[p].history.events) :
        p[1] = e.retailer /\ facings[p].history.events[i].cause[1] = e.id

\* One event is one decision about a bay: of all events submitted, those with an
\* unknown facing and those refused for any other reason included, one that has
\* moved a stored facing has all of its observations stored.
NeverHalfApplied == \A e \in Submitted : HasMoved(e) => Applied(e)

\* "a replay is a no-op": an observation causes at most one transition, also
\* when a crash before the ledger write makes its event run again.
ReplayIsNoOp ==
    \A p \in Onboarded :
        LET log == facings[p].history.events
        IN  \A i, j \in 1..Len(log) : log[i].cause = log[j].cause => i = j

\* Two events about one facing are dated apart, and an event has one observation
\* of a facing.
DatedApart ==
    /\ \A e, d \in Deliverable :
         e.retailer = d.retailer /\ Touched(e) \cap Touched(d) # {} /\ e.at = d.at => e = d
    /\ \A e \in Deliverable : \A i, j \in 1..Len(e.observations) :
         e.observations[i].facing = e.observations[j].facing => i = j

\* An entry of the log of p tells of an observation of p, and dates it.
Tells(v, p, e) ==
    /\ e.retailer = p[1] /\ v.at = e.at
    /\ \E i \in 1..Len(e.observations) :
         /\ e.observations[i].facing = p[2] /\ v.cause = <<e.id, i>>
         /\ v.to = StockCall(e.observations[i].reading)

\* All that ever moved a facing is told by one of the events.
Whole(p, f, events) ==
    \A i \in 1..Len(f.history.events) : \E e \in events : Tells(f.history.events[i], p, e)

\* What a stored aggregate, or the copy a call works on, shows of past calls.
Explained(p, f) ==
    LET log == f.history.events
    IN  /\ Whole(p, f, Deliverable)
        /\ \A i \in 1..Len(log) : log[i].at <= LatestInstant(f.history)
        /\ \A i, j \in 1..Len(log) : log[i].cause = log[j].cause => i = j

\* Inductive with IInv when events are dated apart: what calls carry is explained.
ReplayInv ==
    /\ \A p \in Onboarded : Explained(p, facings[p])
    /\ \A h \in Handler : pc[h] \in {"fold", "save", "record"} =>
         /\ Current(h) \in Deliverable
         /\ \A f \in DOMAIN working[h] : Explained(<<Current(h).retailer, f>>, working[h][f])

\* Inductive with IInv as long as calls hold facings apart.  What moved a stored
\* facing is applied; what moved a copy is applied or is the event of the call.
Settled == {e \in Deliverable : Applied(e)}

CallKeeps(h) ==
    LET e == Current(h)
    IN  /\ pc[h] \in {"fold", "save", "record"} => e \in Deliverable
        /\ pc[h] = "record" => Applied(e)
        /\ pc[h] = "save" => folded[h] = Len(e.observations)
        /\ pc[h] \in {"fold", "save"} =>
             /\ \A f \in Touched(e) :
                  /\ Continues(working[h][f], facings[<<e.retailer, f>>])
                  /\ Whole(<<e.retailer, f>>, working[h][f], Settled \cup {e})
             /\ \A i \in 1..folded[h] :
                  working[h][e.observations[i].facing].observed[e.source] >= e.at

SerialInv ==
    /\ AcceptedIsApplied
    /\ \A p \in Onboarded : Whole(p, facings[p], Settled)
    /\ \A h \in Handler : CallKeeps(h)

\* The stock calls that events have made about a facing since it was created.
CallsAbout(p) ==
    UNION {{[at |-> e.at, call |-> StockCall(o.reading)] :
               o \in {o \in Observation : /\ o.facing = p[2]
                                          /\ StockCall(o.reading) # "no_evidence"
                                          /\ \E i \in 1..Len(e.observations) :
                                                e.observations[i] = o}} :
           e \in {e \in Deliverable : e.retailer = p[1] /\ e.at >= OpenedAt}}

\* "ordered by occurredAt, never by arrival": once everything deliverable is
\* accepted and no call is open, a facing is in the state that the latest
\* observation of it reported.
OrderedByOccurrence ==
    (/\ \A h \in Handler : pc[h] = "idle"
     /\ \A e \in Deliverable : WasAccepted(e)) =>
        \A p \in Onboarded : CallsAbout(p) # {} =>
            \E c \in CallsAbout(p) :
                /\ facings[p].state = c.call
                /\ \A d \in CallsAbout(p) : d.at <= c.at

============================================================================
