-------------------------- MODULE FacingAggregate --------------------------
(***************************************************************************)
(* The facing aggregate (src/domain/facing): one product in one slot of    *)
(* one shelf.  It keeps the freshest signal of each source and the         *)
(* append-only log of its stock transitions.  Everything here is a pure    *)
(* function of its arguments, as in the source; the modules that own       *)
(* facings as state build their actions from RecordSignal.                 *)
(***************************************************************************)
EXTENDS Integers, Sequences

CONSTANTS FacingId,   \* the facings of a partition
          EventId     \* identities (idempotency keys) of detection events

\* streamSignalId: an event's identity and the position of the observation.
SignalId == EventId \X Nat

ShelfState == {"in_stock", "out_of_stock", "unknown"}

SignalSource == {"shopper_scan", "arpalus_detection", "caper_frame",
                 "planogram_record", "carrot_tag_label", "pos_movement"}

\* What a payload says once the thresholds of the interpretation policy have
\* been applied to its numbers; one name per branch of interpretSignal.
Reading == {"found", "not_found", "substituted",      \* shopper_scan
            "stocked", "voided",                      \* arpalus_detection
            "visible", "wide_gap", "narrow_gap",      \* caper_frame
            "doubtful",                               \* low-confidence vision
            "active", "delisted",                     \* planogram_record
            "label",                                  \* carrot_tag_label
            "selling", "phantom", "thin_forecast"}    \* pos_movement

\* Instants are epoch milliseconds.
Instant == Nat

\* Sorts before every instant: a source that has never reported.
NeverObserved == -1

Signal == [id : SignalId, facing : FacingId, source : SignalSource,
           at : Instant, reading : Reading]

FacingStateEvent == [sequence : Nat, at : Instant, from : ShelfState,
                     to : ShelfState, cause : SignalId]

History == [openedAt : Instant, initialState : ShelfState,
            events : Seq(FacingStateEvent)]

Facing == [state : ShelfState, stateSince : Instant, updatedAt : Instant,
           observed : [SignalSource -> Instant \cup {NeverObserved}],
           history : History]

----------------------------------------------------------------------------
(***************************************************************************)
(* interpretSignal: the stock call of a reading, or "no_evidence".         *)
(***************************************************************************)
StockCall(reading) ==
    CASE reading \in {"found", "stocked", "visible", "selling"} -> "in_stock"
      [] reading \in {"not_found", "substituted", "voided", "wide_gap",
                      "phantom"}                     -> "out_of_stock"
      [] reading = "delisted"                        -> "unknown"
      [] reading \in {"doubtful", "narrow_gap", "active", "label",
                      "thin_forecast"}               -> "no_evidence"

----------------------------------------------------------------------------
(***************************************************************************)
(* The event history.                                                      *)
(***************************************************************************)
LastEvent(h) == h.events[Len(h.events)]

NextSequence(h) == IF h.events = <<>> THEN 1 ELSE LastEvent(h).sequence + 1

CurrentState(h) == IF h.events = <<>> THEN h.initialState ELSE LastEvent(h).to

\* The time before which nothing may be appended.
LatestInstant(h) == IF h.events = <<>> THEN h.openedAt ELSE LastEvent(h).at

\* Every check of appendEvent; it throws OutOfOrderEventError unless they hold.
CanAppend(h, e) ==
    /\ e.at >= LatestInstant(h)
    /\ e.sequence = NextSequence(h)
    /\ e.from = CurrentState(h)
    /\ e.from # e.to

AppendEvent(h, e) == [h EXCEPT !.events = Append(h.events, e)]

----------------------------------------------------------------------------
(***************************************************************************)
(* createFacing and recordSignal.                                          *)
(***************************************************************************)
CreateFacing(createdAt, initialState) ==
    [state      |-> initialState,
     stateSince |-> createdAt,
     updatedAt  |-> createdAt,
     observed   |-> [s \in SignalSource |-> NeverObserved],
     history    |-> [openedAt |-> createdAt, initialState |-> initialState,
                     events |-> <<>>]]

Later(a, b) == IF a > b THEN a ELSE b

\* Mutant: the last signal to arrive always takes its source's slot.
MutantRefreshOnArrival(f, s) ==
    [f EXCEPT !.observed[s.source] = s.at,
              !.updatedAt = Later(s.at, f.updatedAt)]

\* The snapshot keeps the signal unless its source has reported a later one.
RefreshSnapshot(f, s) ==
    IF s.at >= f.observed[s.source]
    THEN [f EXCEPT !.observed[s.source] = s.at,
                   !.updatedAt = Later(s.at, f.updatedAt)]
    ELSE f

\* The event recordSignal builds from the facing and the signal.
TransitionEvent(f, s) ==
    [sequence |-> NextSequence(f.history), at |-> s.at, from |-> f.state,
     to |-> StockCall(s.reading), cause |-> s.id]

\* Mutant: no staleness test in front of appendEvent.
MutantNoStalenessTest(f, s) ==
    IF StockCall(s.reading) = "no_evidence" THEN "no_stock_evidence"
    ELSE IF StockCall(s.reading) = f.state THEN "reaffirmed"
    ELSE IF CanAppend(f.history, TransitionEvent(f, s)) THEN "transitioned"
    ELSE "threw"

\* Mutant: whatever arrives is newer than what is known.
MutantTrustArrival(f, s) ==
    IF StockCall(s.reading) = "no_evidence" THEN "no_stock_evidence"
    ELSE IF StockCall(s.reading) = f.state THEN "reaffirmed"
    ELSE "transitioned"

\* The outcome of folding s into f; "threw" when appendEvent refuses the event.
SignalOutcome(f, s) ==
    IF StockCall(s.reading) = "no_evidence" THEN "no_stock_evidence"
    ELSE IF s.at < f.stateSince THEN "stale_ignored"
    ELSE IF StockCall(s.reading) = f.state THEN "reaffirmed"
    ELSE IF CanAppend(f.history, TransitionEvent(f, s)) THEN "transitioned"
    ELSE "threw"

\* Mutant: the transition does not restart stateSince.
MutantKeepStateSince(f, s) ==
    LET seen == RefreshSnapshot(f, s)
        log  == AppendEvent(f.history, TransitionEvent(f, s))
    IN  IF SignalOutcome(f, s) = "transitioned"
        THEN [seen EXCEPT !.state   = CurrentState(log),
                          !.history = log]
        ELSE seen

RecordSignal(f, s) ==
    LET seen == RefreshSnapshot(f, s)
        log  == AppendEvent(f.history, TransitionEvent(f, s))
    IN  IF SignalOutcome(f, s) = "transitioned"
        THEN [seen EXCEPT !.state      = CurrentState(log),
                          !.stateSince = s.at,
                          !.history    = log,
                          !.updatedAt  = Later(s.at, seen.updatedAt)]
        ELSE seen

----------------------------------------------------------------------------
(***************************************************************************)
(* A history is an exact description of a step function: numbered from     *)
(* one, in time order, every event leaving the state the previous one      *)
(* entered, and no event that changes nothing.                             *)
(***************************************************************************)
HistoryWellFormed(h) ==
    \A i \in 1..Len(h.events) :
        LET e == h.events[i]
        IN  /\ e.sequence = i
            /\ e.from # e.to
            /\ e.at >= (IF i = 1 THEN h.openedAt ELSE h.events[i-1].at)
            /\ e.from = (IF i = 1 THEN h.initialState ELSE h.events[i-1].to)

\* The facing's own fields are what its log says they are.
FacingAgreesWithHistory(f) ==
    /\ f.state = CurrentState(f.history)
    /\ f.stateSince = LatestInstant(f.history)
    /\ f.updatedAt >= f.stateSince

FacingOK(f) == HistoryWellFormed(f.history) /\ FacingAgreesWithHistory(f)
============================================================================
