----------------------------- MODULE Dashboard -----------------------------
(***************************************************************************)
(* The web dashboard: one reducer over the panels' slices, and the effects *)
(* that fetch them with an abort per slice and a bounded retry per request *)
(* (web/src/state, web/src/models/async-data.ts, services/http-client.ts). *)
(* A value is the question it answers: what a panel shows is what it asked.*)
(***************************************************************************)
EXTENDS Integers, Sequences, FiniteSets, Functions, SequencesExt

CONSTANTS
    Panels,       \* the slices that are followed, in the order loadAll starts them
    Views,        \* the scopes a user moves between
    QueueIds,     \* the queues that can be selected; NoQueue is none
    Filters,
    Orders,       \* the sorts of the rows and of the records
    MaxAttempts,  \* tries of one request
    MaxRequests,  \* requests the dashboard makes
    MaxChanges    \* times the user changes something

VARIABLES
    ui,           \* the state of the store
    calls,        \* the requests under way, by id
    inFlight,     \* the request whose controller the effects hold, per slice
    changes       \* counts changes, for MaxChanges
dashboardVars == <<ui, calls, inFlight, changes>>

SliceNames == {"availabilityIndex", "availabilityRecords", "taskWorkRate", "resolvedGapRate",
               "detectionToResolution", "adoption", "storeAdoption", "departmentalOutcomes",
               "taskQueues", "taskQueueItems"}
ScopedSlices == SliceNames \ {"taskQueues", "taskQueueItems"}
Slices  == ToSet(Panels)

ASSUME PanelsAssumption == Panels \in Seq(SliceNames) /\ IsInjective(Panels)

NoQueue == 0
NoValue == [asked |-> "nothing"]
NoCall  == 0    \* ids start at 1

----------------------------------------------------------------------------
\* What a slice knows: whether it waits, what it shows, whether the last try failed.
Idle == [status |-> "idle"]

HeldValue(data) ==
    IF data.status \in {"refreshing", "success", "error"} THEN data.value ELSE NoValue

BeginLoad(current, id) ==
    IF HeldValue(current) = NoValue THEN [status |-> "loading", requestId |-> id]
    ELSE [status |-> "refreshing", requestId |-> id, value |-> HeldValue(current)]

Succeed(value) == [status |-> "success", value |-> value]

\* The last good value is kept, stale.
Failed(current) == [status |-> "error", value |-> HeldValue(current)]

PendingRequestId(data) ==
    IF data.status \in {"loading", "refreshing"} THEN data.requestId ELSE NoCall

\* Mutant: any slice that waits takes the answer.
MutantAnyPending(data, id) == PendingRequestId(data) # NoCall

IsCurrentRequest(data, id) == PendingRequestId(data) = id

----------------------------------------------------------------------------
\* The reducer.  A scope change forgets the reports and leaves the live queues; a
\* queue or a filter forgets the rows of the queue; an order forgets nothing.
WithScope(state, scope) ==
    [state EXCEPT !.scope = scope,
                  !.slices = [s \in Slices |-> IF s \in ScopedSlices THEN Idle ELSE @[s]]]

WithoutItems(state) ==
    [state EXCEPT !.slices = [s \in Slices |-> IF s = "taskQueueItems" THEN Idle ELSE @[s]]]

QueueSelected(state, queue) ==
    IF queue = state.selectedQueueId THEN state
    ELSE [WithoutItems(state) EXCEPT !.selectedQueueId = queue]

FilterChanged(state, filter) == [WithoutItems(state) EXCEPT !.queueFilter = filter]

\* The slices that ids is about begin to load, under the ids it gives them.
FetchStarted(state, ids) ==
    [state EXCEPT !.slices = [s \in Slices |-> IF s \in DOMAIN ids THEN BeginLoad(@[s], ids[s])
                                               ELSE @[s]],
                  !.nextRequestId = @ + Cardinality(DOMAIN ids)]

SettleSlice(state, slice, id, next) ==
    IF IsCurrentRequest(state.slices[slice], id)
    THEN [state EXCEPT !.slices[slice] = next]
    ELSE state

----------------------------------------------------------------------------
\* What a load of a slice asks for, read from the store when it starts.
Ask(state, slice) ==
    CASE slice = "taskQueues"          -> [asked |-> slice, filter |-> state.queueFilter]
      [] slice = "taskQueueItems"      -> [asked |-> slice, queue |-> state.selectedQueueId,
                                           filter |-> state.queueFilter, sort |-> state.queueSort]
      [] slice = "availabilityRecords" -> [asked |-> slice, scope |-> state.scope,
                                           sort |-> state.recordSort]
      [] OTHER                         -> [asked |-> slice, scope |-> state.scope]

Abort(cs, ids) == [id \in DOMAIN cs |-> IF id \in ids THEN [cs[id] EXCEPT !.aborted = TRUE]
                                        ELSE cs[id]]

\* The slices of a turn take the next ids in the order of the panels.
Turn(slice) == CHOOSE i \in DOMAIN Panels : Panels[i] = slice

NextIds(started) ==
    [s \in started |-> ui.nextRequestId + Cardinality({t \in started : Turn(t) < Turn(s)})]

Request(slice) ==
    [slice |-> slice, ask |-> Ask(ui, slice), attempt |-> 1, aborted |-> FALSE,
     phase |-> "asking"]

\* run, for each of some slices in one turn of the event loop: abort its last request,
\* begin this one.  The rows of no queue are not asked for.
Run(slices) ==
    LET started == {s \in slices : s # "taskQueueItems" \/ ui.selectedQueueId # NoQueue}
        ids     == NextIds(started)
        kept    == Abort(calls, {inFlight[s] : s \in started})
    IN  /\ ui' = FetchStarted(ui, ids)
        /\ calls' = [id \in DOMAIN kept \cup Range(ids) |->
                       IF id \in DOMAIN kept THEN kept[id]
                       ELSE Request(CHOOSE s \in started : ids[s] = id)]
        /\ inFlight' = [s \in Slices |-> IF s \in started THEN ids[s] ELSE inFlight[s]]
        /\ UNCHANGED changes

\* A bound.
WithinRequests == ui'.nextRequestId <= MaxRequests + 1

Load(slice) == Run({slice}) /\ WithinRequests
LoadAll     == Run(Slices) /\ WithinRequests

\* The dashboard unmounts: the slices stay as they are.
CancelAll ==
    /\ calls' = Abort(calls, Range(inFlight))
    /\ inFlight' = [s \in Slices |-> NoCall]
    /\ UNCHANGED <<ui, changes>>

----------------------------------------------------------------------------
\* The user.
Change(state) ==
    /\ changes < MaxChanges /\ changes' = changes + 1
    /\ ui' = state
    /\ UNCHANGED <<calls, inFlight>>

ChangeScope(scope)   == Change(WithScope(ui, scope))
SelectQueue(queue)   == Change(QueueSelected(ui, queue))
ChangeFilter(filter) == Change(FilterChanged(ui, filter))
ChangeQueueSort(o)   == Change([ui EXCEPT !.queueSort = o])
ChangeRecordSort(o)  == Change([ui EXCEPT !.recordSort = o])

----------------------------------------------------------------------------
\* Mutant: a timer that fires and a caller that aborts are told as one.
MutantOneAbort(happens, aborted) == IF happens = "timeout" THEN "cancelled" ELSE happens

\* How an attempt ends.  Once the caller has aborted, the fetch rejects and that is a
\* cancellation; an answer whose status was already in still counts as it came.
AttemptOutcome(happens, aborted) ==
    IF aborted /\ happens \in {"ok", "timeout", "network"} THEN "cancelled" ELSE happens

IsRetryable(outcome) == outcome \in {"timeout", "network", "unavailable"}

\* One attempt of the bounded retry is over, by an answer or by its timer.
Attempt(id) ==
    /\ id \in DOMAIN calls /\ calls[id].phase = "asking"
    /\ \E happens \in {"ok", "timeout", "network", "unavailable", "refused", "undecodable"} :
          LET outcome == AttemptOutcome(happens, calls[id].aborted)
          IN  calls' = [calls EXCEPT ![id].phase =
                          CASE outcome \in {"ok", "cancelled"} -> outcome
                            [] IsRetryable(outcome) /\ calls[id].attempt < MaxAttempts -> "sleeping"
                            [] OTHER -> "failed"]
    /\ UNCHANGED <<ui, inFlight, changes>>

\* The backoff is over; the next attempt is made unless the caller has aborted.
Wake(id) ==
    /\ id \in DOMAIN calls /\ calls[id].phase = "sleeping"
    /\ LET c == calls[id]
       IN  calls' = [calls EXCEPT ![id] =
                       IF c.aborted THEN [c EXCEPT !.phase = "cancelled"]
                       ELSE [c EXCEPT !.phase = "asking", !.attempt = c.attempt + 1]]
    /\ UNCHANGED <<ui, inFlight, changes>>

\* The result reaches the effect, in a later turn than the attempt's end.  A
\* cancellation is not told to the store.
Settle(id) ==
    /\ id \in DOMAIN calls /\ calls[id].phase \notin {"asking", "sleeping"}
    /\ LET c == calls[id]
       IN  ui' = CASE c.phase = "ok" -> SettleSlice(ui, c.slice, id, Succeed(c.ask))
                   [] c.phase = "cancelled" -> ui
                   [] OTHER -> SettleSlice(ui, c.slice, id, Failed(ui.slices[c.slice]))
    /\ calls' = [other \in DOMAIN calls \ {id} |-> calls[other]]
    /\ UNCHANGED <<inFlight, changes>>

Proceed(id) == Attempt(id) \/ Wake(id) \/ Settle(id)

DashboardInit ==
    /\ ui = [slices |-> [s \in Slices |-> Idle], scope |-> CHOOSE v \in Views : TRUE,
             selectedQueueId |-> NoQueue, queueFilter |-> CHOOSE f \in Filters : TRUE,
             queueSort |-> CHOOSE o \in Orders : TRUE,
             recordSort |-> CHOOSE o \in Orders : TRUE, nextRequestId |-> 1]
    /\ calls = <<>> /\ inFlight = [s \in Slices |-> NoCall] /\ changes = 0

DashboardNext ==
    \/ (\E s \in Slices : Load(s)) \/ LoadAll \/ CancelAll
    \/ (\E v \in Views : ChangeScope(v)) \/ (\E q \in QueueIds \cup {NoQueue} : SelectQueue(q))
    \/ (\E f \in Filters : ChangeFilter(f))
    \/ \E o \in Orders : ChangeQueueSort(o) \/ ChangeRecordSort(o)
    \/ \E id \in 1..MaxRequests : Proceed(id)

\* An attempt ends by its answer or its own timer, a sleep by its timer, and a settled
\* promise resumes its awaiter: every step of a request comes, whatever the service does.
DashboardFairness == \A id \in 1..MaxRequests : WF_dashboardVars(Proceed(id))

DashboardSpec == DashboardInit /\ [][DashboardNext]_dashboardVars /\ DashboardFairness

----------------------------------------------------------------------------
\* No figure of another scope, and no row of another queue or filter, is ever on the
\* screen, however late the answers come: a held value, fresh, refreshing or stale,
\* answers the question of now (reducer.ts, async-data.ts).
ShowsWhatIsAsked ==
    \A s \in Slices :
      LET shown == HeldValue(ui.slices[s])
      IN  shown # NoValue =>
            /\ shown.asked = s
            /\ s \in ScopedSlices => shown.scope = ui.scope
            /\ s = "taskQueueItems" => /\ shown.queue = ui.selectedQueueId
                                       /\ shown.filter = ui.queueFilter

\* A panel that waits is answered, by a value or an error, unless the dashboard goes
\* away: nothing it waits on is cancelled in silence (effects.ts, http-client.ts).
RequestsSettle ==
    \A s \in Slices, id \in 1..MaxRequests :
      PendingRequestId(ui.slices[s]) = id
        ~> (PendingRequestId(ui.slices[s]) # id \/ inFlight[s] = NoCall)
=============================================================================
