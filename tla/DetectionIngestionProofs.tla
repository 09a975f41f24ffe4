---------------------- MODULE DetectionIngestionProofs ----------------------
(***************************************************************************)
(* What holds of the facing aggregate for every set of facings and events, *)
(* and of DetectionIngestion for every set of partitions, facings,         *)
(* handlers and batches, every clock, and any number of crashes.           *)
(***************************************************************************)
EXTENDS DetectionIngestion, TLAPS

----------------------------------------------------------------------------
(***************************************************************************)
(* The aggregate: folding any signal into a well-formed facing gives a     *)
(* well-formed facing and never builds an event that the history refuses.  *)
(***************************************************************************)

\* A stock call is a shelf state or no evidence.
LEMMA StockCallType ==
    \A r \in Reading : StockCall(r) \in ShelfState \cup {"no_evidence"}
BY DEF Reading, StockCall, ShelfState

\* A facing starts well-formed, with an empty log.
LEMMA CreateFacingOK ==
    ASSUME NEW at \in Instant, NEW s \in ShelfState
    PROVE  CreateFacing(at, s) \in Facing /\ FacingOK(CreateFacing(at, s))
BY DEF CreateFacing, Facing, FacingOK, HistoryWellFormed, History,
       FacingAgreesWithHistory, CurrentState, LatestInstant, NeverObserved, Instant

\* Refreshing the snapshot touches neither the state nor the log.
LEMMA RefreshSnapshotKeeps ==
    ASSUME NEW f \in Facing, NEW s \in Signal
    PROVE  /\ RefreshSnapshot(f, s) \in Facing
           /\ RefreshSnapshot(f, s).state = f.state
           /\ RefreshSnapshot(f, s).stateSince = f.stateSince
           /\ RefreshSnapshot(f, s).history = f.history
           /\ RefreshSnapshot(f, s).updatedAt >= f.updatedAt
<1>1. f.observed \in [SignalSource -> Instant \cup {NeverObserved}]
      /\ f.updatedAt \in Instant /\ s.at \in Instant /\ s.source \in SignalSource
  BY DEF Facing, Signal
<1>2. Later(s.at, f.updatedAt) \in Instant /\ Later(s.at, f.updatedAt) >= f.updatedAt
  BY <1>1 DEF Later, Instant
<1>3. CASE s.at >= f.observed[s.source]
  <2> DEFINE o == [f.observed EXCEPT ![s.source] = s.at]
  <2>1. o \in [SignalSource -> Instant \cup {NeverObserved}]
    BY <1>1
  <2>2. RefreshSnapshot(f, s)
          = [f EXCEPT !.observed = o, !.updatedAt = Later(s.at, f.updatedAt)]
    BY <1>3, Zenon DEF RefreshSnapshot
  <2>. HIDE DEF o
  <2>. QED
    BY <1>1, <1>2, <2>1, <2>2 DEF Facing
<1>4. CASE ~(s.at >= f.observed[s.source])
  BY <1>1, <1>4 DEF RefreshSnapshot, Instant
<1>. QED
  BY <1>3, <1>4

\* Appending an event that passes appendEvent's checks keeps a log well-formed.
LEMMA AppendKeepsHistory ==
    ASSUME NEW h \in History, HistoryWellFormed(h),
           NEW e \in FacingStateEvent, CanAppend(h, e)
    PROVE  /\ AppendEvent(h, e) \in History
           /\ HistoryWellFormed(AppendEvent(h, e))
           /\ CurrentState(AppendEvent(h, e)) = e.to
           /\ LatestInstant(AppendEvent(h, e)) = e.at
<1> DEFINE g == AppendEvent(h, e)
           n == Len(h.events)
<1>1. /\ h.events \in Seq(FacingStateEvent)
      /\ n \in Nat
      /\ g.events = Append(h.events, e)
      /\ g.openedAt = h.openedAt /\ g.initialState = h.initialState
      /\ g \in History
  BY DEF AppendEvent, History
<1>2. /\ Len(g.events) = n + 1
      /\ \A i \in 1..n : g.events[i] = h.events[i]
      /\ g.events[n + 1] = e
      /\ g.events # <<>>
  BY <1>1
<1>3. /\ CurrentState(g) = e.to
      /\ LatestInstant(g) = e.at
  BY <1>2 DEF CurrentState, LatestInstant, LastEvent
<1>4. SUFFICES ASSUME NEW i \in 1..(n + 1)
               PROVE  /\ g.events[i].sequence = i
                      /\ g.events[i].from # g.events[i].to
                      /\ g.events[i].at >= (IF i = 1 THEN g.openedAt
                                            ELSE g.events[i-1].at)
                      /\ g.events[i].from = (IF i = 1 THEN g.initialState
                                             ELSE g.events[i-1].to)
  BY <1>1, <1>2, <1>3 DEF HistoryWellFormed
<1>5. CASE i \in 1..n
  <2>1. i = 1 \/ i - 1 \in 1..n
    BY <1>1, <1>5
  <2>. QED
    BY <1>1, <1>2, <1>5, <2>1 DEF HistoryWellFormed
<1>6. CASE i = n + 1 /\ n = 0
  <2>1. h.events = <<>>
    BY <1>1, <1>6
  <2>. QED
    BY <1>1, <1>2, <1>6, <2>1 DEF CanAppend, NextSequence, CurrentState, LatestInstant
<1>7. CASE i = n + 1 /\ n # 0
  <2>1. h.events # <<>> /\ n \in 1..n /\ i # 1 /\ i - 1 = n
    BY <1>1, <1>7
  <2>2. LastEvent(h).sequence = n /\ g.events[i-1] = LastEvent(h)
    BY <1>1, <1>2, <2>1 DEF HistoryWellFormed, LastEvent
  <2>. QED
    BY <1>2, <1>7, <2>1, <2>2 DEF CanAppend, NextSequence, CurrentState, LatestInstant
<1>. QED
  BY <1>1, <1>5, <1>6, <1>7

\* The sequence number of the next event is a number.
LEMMA NextSequenceType ==
    ASSUME NEW h \in History
    PROVE  NextSequence(h) \in Nat
<1>1. CASE h.events = <<>>
  BY <1>1 DEF NextSequence
<1>2. CASE h.events # <<>>
  <2>1. LastEvent(h) \in FacingStateEvent
    BY <1>2 DEF LastEvent, History
  <2>. QED
    BY <1>2, <2>1 DEF NextSequence, FacingStateEvent
<1>. QED
  BY <1>1, <1>2

\* recordSignal keeps a facing well-formed and never trips appendEvent, whatever
\* signal it is given.
LEMMA RecordSignalOK ==
    ASSUME NEW f \in Facing, FacingOK(f), NEW s \in Signal
    PROVE  /\ SignalOutcome(f, s) # "threw"
           /\ RecordSignal(f, s) \in Facing
           /\ FacingOK(RecordSignal(f, s))
<1> DEFINE e == TransitionEvent(f, s)
           seen == RefreshSnapshot(f, s)
           log == AppendEvent(f.history, e)
           moves == /\ StockCall(s.reading) # "no_evidence"
                    /\ ~(s.at < f.stateSince)
                    /\ StockCall(s.reading) # f.state
<1>1. /\ f.history \in History /\ f.state \in ShelfState
      /\ f.stateSince \in Instant /\ f.updatedAt \in Instant
      /\ s.at \in Instant /\ s.id \in SignalId /\ s.reading \in Reading
      /\ StockCall(s.reading) \in ShelfState \cup {"no_evidence"}
  BY StockCallType DEF Facing, Signal
<1>2. /\ seen \in Facing /\ seen.state = f.state
      /\ seen.stateSince = f.stateSince /\ seen.history = f.history
      /\ seen.updatedAt >= f.updatedAt
  BY RefreshSnapshotKeeps
<1>3. ASSUME moves PROVE e \in FacingStateEvent /\ CanAppend(f.history, e)
  <2>1. e \in FacingStateEvent
    BY <1>1, <1>3, NextSequenceType DEF TransitionEvent, FacingStateEvent
  <2>2. CanAppend(f.history, e)
    BY <1>1, <1>3 DEF CanAppend, TransitionEvent, FacingOK,
                      FacingAgreesWithHistory, Instant
  <2>. QED
    BY <2>1, <2>2
<1>4. SignalOutcome(f, s) # "threw"
  BY <1>3 DEF SignalOutcome
<1>5. SignalOutcome(f, s) = "transitioned" => moves
  BY DEF SignalOutcome
<1>6. CASE SignalOutcome(f, s) = "transitioned"
  <2>1. /\ log \in History /\ HistoryWellFormed(log)
        /\ CurrentState(log) = StockCall(s.reading)
        /\ LatestInstant(log) = s.at
    <3>1. HistoryWellFormed(f.history)
      BY DEF FacingOK
    <3>. QED
      BY <1>1, <1>3, <1>5, <1>6, <3>1, AppendKeepsHistory DEF TransitionEvent
  <2>2. /\ Later(s.at, seen.updatedAt) \in Instant
        /\ Later(s.at, seen.updatedAt) >= s.at
    BY <1>1, <1>2 DEF Later, Instant, Facing
  <2>3. RecordSignal(f, s) =
          [seen EXCEPT !.state = CurrentState(log), !.stateSince = s.at,
                       !.history = log, !.updatedAt = Later(s.at, seen.updatedAt)]
    BY <1>6 DEF RecordSignal
  <2>4. StockCall(s.reading) \in ShelfState
    BY <1>1, <1>5, <1>6
  <2>5. /\ RecordSignal(f, s) \in Facing
        /\ RecordSignal(f, s).state = CurrentState(log)
        /\ RecordSignal(f, s).stateSince = s.at
        /\ RecordSignal(f, s).history = log
        /\ RecordSignal(f, s).updatedAt = Later(s.at, seen.updatedAt)
    BY <1>1, <1>2, <2>1, <2>2, <2>3, <2>4 DEF Facing
  <2>. QED
    BY <1>4, <2>1, <2>2, <2>5 DEF FacingOK, FacingAgreesWithHistory
<1>7. CASE SignalOutcome(f, s) # "transitioned"
  <2>1. RecordSignal(f, s) = seen
    BY <1>7 DEF RecordSignal
  <2>2. seen.updatedAt >= seen.stateSince
    BY <1>1, <1>2 DEF FacingOK, FacingAgreesWithHistory, Instant, Facing
  <2>. QED
    BY <1>2, <1>4, <2>1, <2>2 DEF FacingOK, FacingAgreesWithHistory
<1>. QED
  BY <1>6, <1>7

----------------------------------------------------------------------------
(***************************************************************************)
(* The calls.                                                              *)
(***************************************************************************)

\* A handler's current event is a detection event of one of the batches.
LEMMA CurrentType ==
    ASSUME TypeOK, NEW h \in Handler, HasNext(h)
    PROVE  /\ batch[h] \in Batches
           /\ Current(h) \in DetectionEvent
           /\ KeyOf(Current(h)) \in Retailer \X EventId
<1>1. outcomes[h] \in Seq(Outcome) /\ Len(outcomes[h]) \in Nat
  BY DEF TypeOK
<1>2. batch[h] \in Batches \cup {NoBatch}
  BY DEF TypeOK
<1>3. batch[h] # NoBatch
  BY <1>1 DEF HasNext, NoBatch
<1>4. batch[h] \in Batches /\ batch[h].events \in Seq(DetectionEvent)
  BY <1>2, <1>3, IngestionAssumption DEF Batch
<1>5. Len(outcomes[h]) + 1 \in 1..Len(batch[h].events)
  BY <1>1, <1>4 DEF HasNext
<1>6. Current(h) \in DetectionEvent
  BY <1>4, <1>5 DEF Current
<1>. QED
  BY <1>4, <1>6 DEF KeyOf, DetectionEvent

\* Each observation becomes a well-typed signal about a touched facing.
LEMMA SignalOfType ==
    ASSUME NEW e \in DetectionEvent, NEW i \in 1..Len(e.observations)
    PROVE  SignalOf(e, i) \in Signal /\ SignalOf(e, i).facing \in Touched(e)
<1>1. /\ e.observations[i] \in Observation
      /\ e.id \in EventId /\ e.at \in Instant /\ e.source \in SignalSource
  BY DEF DetectionEvent, DetectionSource
<1>2. i \in Nat
  BY DEF DetectionEvent
<1>. QED
  BY <1>1, <1>2 DEF SignalOf, Signal, SignalId, Touched, Observation

\* The facings of an event are facings.
LEMMA TouchedType ==
    ASSUME NEW e \in DetectionEvent
    PROVE  Touched(e) \subseteq FacingId
<1>1. \A i \in 1..Len(e.observations) : e.observations[i] \in Observation
  BY DEF DetectionEvent
<1>. QED
  BY <1>1 DEF Touched, Observation

\* Answering an event keeps a call well-typed, and leaves it between events.
LEMMA AnswerType ==
    ASSUME TypeOK, NEW h \in Handler, NEW o \in Outcome, Answer(h, o),
           facings' \in [Onboarded -> Facing],
           ledger' \in [Retailer \X EventId -> Instant \cup {NotAccepted}],
           crashes' = crashes
    PROVE  TypeOK'
<1>1. /\ outcomes' \in [Handler -> Seq(Outcome)]
      /\ pc' \in [Handler -> CallState]
      /\ batch' \in [Handler -> Batches \cup {NoBatch}]
      /\ folded' \in [Handler -> Nat]
      /\ acceptedAt' \in [Handler -> Instant]
  BY DEF TypeOK, Answer, CallState, Instant
<1>2. \A g \in Handler : working'[g] = IF g = h THEN NoWork ELSE working[g]
  BY DEF TypeOK, Answer
<1>3. DOMAIN working' = Handler
  BY DEF TypeOK, Answer
<1>4. DOMAIN NoWork = {}
  BY DEF NoWork
<1>5. \A g \in Handler : /\ DOMAIN working'[g] \subseteq FacingId
                         /\ \A f \in DOMAIN working'[g] : working'[g][f] \in Facing
  BY <1>2, <1>4 DEF TypeOK
<1>. QED
  BY <1>1, <1>3, <1>5 DEF TypeOK

\* Everything but the ledger that CallOK and AnswersMatchLedger read of a handler.
SameCall(g) ==
    /\ pc'[g] = pc[g]
    /\ batch'[g] = batch[g]
    /\ outcomes'[g] = outcomes[g]
    /\ working'[g] = working[g]
    /\ folded'[g] = folded[g]

\* A handler that a step leaves alone stays where it was.
LEMMA SameCallKeepsOK ==
    ASSUME NEW g, SameCall(g), CallOK(g)
    PROVE  CallOK(g)'
<1>1. Current(g)' = Current(g) /\ HasNext(g)' = HasNext(g)
  BY DEF SameCall, Current, HasNext
<1>2. Refusal(batch[g], Current(g))' = Refusal(batch[g], Current(g))
  BY <1>1 DEF SameCall, Refusal, PartitionMismatch
<1>. QED
  BY <1>1, <1>2 DEF SameCall, CallOK

\* What a handler has answered is what the ledger says.
AnswersOK(h) ==
    \A i \in 1..Len(outcomes[h]) :
        outcomes[h][i].status \in {"accepted", "duplicate"}
          => ledger[<<batch[h].retailer, outcomes[h][i].event>>] = outcomes[h][i].at

LEMMA AnswersMatchLedgerByHandler ==
    AnswersMatchLedger <=> \A h \in Handler : AnswersOK(h)
BY DEF AnswersMatchLedger, AnswersOK

\* No accepted row is replaced.
LedgerGrows ==
    \A k \in Retailer \X EventId : ledger[k] # NotAccepted => ledger'[k] = ledger[k]

\* An answer that carries an instant carries a real one, of a real key.
LEMMA AnsweredKey ==
    ASSUME TypeOK, NEW h \in Handler, CallOK(h), NEW i \in 1..Len(outcomes[h]),
           outcomes[h][i].status \in {"accepted", "duplicate"}
    PROVE  /\ outcomes[h][i].at \in Instant
           /\ <<batch[h].retailer, outcomes[h][i].event>> \in Retailer \X EventId
<1>1. outcomes[h] \in Seq(Outcome) /\ outcomes[h][i] \in Outcome
  BY DEF TypeOK
<1>2. outcomes[h][i].at \in Instant /\ outcomes[h][i].event \in EventId
  BY <1>1 DEF Outcome
<1>3. batch[h] # NoBatch
  BY <1>1 DEF CallOK, NoBatch
<1>4. batch[h] \in Batch
  BY <1>3, IngestionAssumption DEF TypeOK
<1>. QED
  BY <1>2, <1>4 DEF Batch

\* Answers stay true as long as the ledger only grows.
LEMMA SameAnswersKeepOK ==
    ASSUME TypeOK, NEW g \in Handler, CallOK(g), AnswersOK(g), LedgerGrows,
           outcomes'[g] = outcomes[g], batch'[g] = batch[g]
    PROVE  AnswersOK(g)'
<1>1. SUFFICES ASSUME NEW i \in 1..Len(outcomes[g]),
                      outcomes[g][i].status \in {"accepted", "duplicate"}
               PROVE  ledger'[<<batch[g].retailer, outcomes[g][i].event>>]
                        = outcomes[g][i].at
  BY DEF AnswersOK
<1>2. ledger[<<batch[g].retailer, outcomes[g][i].event>>] = outcomes[g][i].at
  BY <1>1 DEF AnswersOK
<1>3. /\ outcomes[g][i].at \in Instant
      /\ <<batch[g].retailer, outcomes[g][i].event>> \in Retailer \X EventId
  BY <1>1, AnsweredKey
<1>4. outcomes[g][i].at # NotAccepted
  BY <1>3 DEF Instant, NotAccepted
<1>. QED
  BY <1>2, <1>3, <1>4 DEF LedgerGrows

\* Forgetting a call, by returning or by dying, leaves an idle handler.
LEMMA ForgetOK ==
    ASSUME TypeOK, NEW h \in Handler, Forget(h)
    PROVE  /\ pc' \in [Handler -> CallState]
           /\ batch' \in [Handler -> Batches \cup {NoBatch}]
           /\ outcomes' \in [Handler -> Seq(Outcome)]
           /\ folded' \in [Handler -> Nat]
           /\ acceptedAt' \in [Handler -> Instant]
           /\ DOMAIN working' = Handler
           /\ \A g \in Handler :
                /\ DOMAIN working'[g] \subseteq FacingId
                /\ \A f \in DOMAIN working'[g] : working'[g][f] \in Facing
           /\ CallOK(h)' /\ AnswersOK(h)'
           /\ \A g \in Handler \ {h} : SameCall(g)
<1>1. /\ pc' \in [Handler -> CallState]
      /\ batch' \in [Handler -> Batches \cup {NoBatch}]
      /\ outcomes' \in [Handler -> Seq(Outcome)]
      /\ folded' \in [Handler -> Nat]
      /\ acceptedAt' \in [Handler -> Instant]
      /\ DOMAIN working' = Handler
  BY DEF TypeOK, Forget, CallState, Instant
<1>2. \A g \in Handler : working'[g] = IF g = h THEN NoWork ELSE working[g]
  BY DEF TypeOK, Forget
<1>3. DOMAIN NoWork = {}
  BY DEF NoWork
<1>4. \A g \in Handler : /\ DOMAIN working'[g] \subseteq FacingId
                         /\ \A f \in DOMAIN working'[g] : working'[g][f] \in Facing
  BY <1>2, <1>3 DEF TypeOK
<1>5. pc'[h] = "idle" /\ batch'[h] = NoBatch /\ outcomes'[h] = <<>> /\ folded'[h] = 0
  BY DEF TypeOK, Forget
<1>6. CallOK(h)'
  BY <1>2, <1>3, <1>5 DEF CallOK, NoBatch
<1>7. AnswersOK(h)'
  BY <1>5 DEF AnswersOK
<1>8. \A g \in Handler \ {h} : SameCall(g)
  BY DEF TypeOK, Forget, SameCall
<1>. QED
  BY <1>1, <1>4, <1>6, <1>7, <1>8

\* Giving an answer that the ledger agrees with keeps every call in order.
LEMMA AnswerOK ==
    ASSUME IInv, NEW h \in Handler, HasNext(h), NEW o \in Outcome, Answer(h, o),
           LedgerGrows, ledger' \in [Retailer \X EventId -> Instant \cup {NotAccepted}],
           o.status \in {"accepted", "duplicate"}
             => ledger'[<<batch[h].retailer, o.event>>] = o.at,
           facings' = facings, crashes' = crashes
    PROVE  IInv'
<1>0. TypeOK /\ \A g \in Handler : CallOK(g) /\ AnswersOK(g)
  BY AnswersMatchLedgerByHandler DEF IInv
<1>1. TypeOK'
  BY AnswerType DEF IInv, TypeOK
<1>2. HistoriesWellFormed'
  BY DEF IInv, HistoriesWellFormed
<1>3. \A g \in Handler \ {h} : SameCall(g)
  BY DEF IInv, TypeOK, Answer, SameCall
<1>4. /\ pc'[h] = "next" /\ batch'[h] = batch[h] /\ working'[h] = NoWork
      /\ folded'[h] = 0
      /\ outcomes'[h] = Append(outcomes[h], o)
      /\ outcomes[h] \in Seq(Outcome)
  BY DEF IInv, TypeOK, Answer
<1>5. CallOK(h)'
  <2>1. DOMAIN NoWork = {}
    BY DEF NoWork
  <2>2. batch[h] \in Batch
    BY CurrentType, IngestionAssumption DEF IInv
  <2>3. Len(batch[h].events) \in Nat
    BY <2>2 DEF Batch
  <2>4. Len(outcomes'[h]) <= Len(batch'[h].events)
    BY <1>4, <2>3 DEF HasNext
  <2>. QED
    BY <1>4, <2>1, <2>4 DEF CallOK
<1>6. AnswersOK(h)'
  <2>1. SUFFICES ASSUME NEW i \in 1..Len(outcomes'[h]),
                        outcomes'[h][i].status \in {"accepted", "duplicate"}
                 PROVE  ledger'[<<batch[h].retailer, outcomes'[h][i].event>>]
                          = outcomes'[h][i].at
    BY <1>4 DEF AnswersOK
  <2>2. CASE i = Len(outcomes[h]) + 1
    <3>1. outcomes'[h][i] = o
      BY <1>4, <2>2
    <3>. QED
      BY <2>1, <3>1
  <2>3. CASE i \in 1..Len(outcomes[h])
    <3>1. outcomes'[h][i] = outcomes[h][i]
      BY <1>4, <2>3
    <3>2. outcomes[h][i].status \in {"accepted", "duplicate"}
      BY <2>1, <3>1
    <3>3. ledger[<<batch[h].retailer, outcomes[h][i].event>>] = outcomes[h][i].at
      BY <2>3, <3>2, <1>0 DEF AnswersOK
    <3>4. /\ outcomes[h][i].at \in Instant
          /\ <<batch[h].retailer, outcomes[h][i].event>> \in Retailer \X EventId
      BY <1>0, <2>3, <3>2, AnsweredKey
    <3>5. outcomes[h][i].at # NotAccepted
      BY <3>4 DEF Instant, NotAccepted
    <3>. QED
      BY <3>1, <3>3, <3>4, <3>5 DEF LedgerGrows
  <2>4. Len(outcomes[h]) \in Nat /\ Len(outcomes'[h]) = Len(outcomes[h]) + 1
    BY <1>4
  <2>. QED
    BY <2>2, <2>3, <2>4
<1>7. \A g \in Handler : CallOK(g)'
  BY <1>0, <1>3, <1>5, SameCallKeepsOK
<1>8. \A g \in Handler : AnswersOK(g)'
  BY <1>0, <1>3, <1>6, SameAnswersKeepOK DEF SameCall
<1>9. AnswersMatchLedger'
  BY <1>8 DEF AnswersMatchLedger, AnswersOK
<1>. QED
  BY <1>1, <1>2, <1>7, <1>9 DEF IInv

\* A step of one handler that writes to neither store and answers nothing:
\* what remains to be shown is the types and the handler's own place.
LEMMA LocalStepOK ==
    ASSUME IInv, NEW h \in Handler, TypeOK', CallOK(h)', AnswersOK(h)',
           UNCHANGED stores, \A g \in Handler \ {h} : SameCall(g)
    PROVE  IInv'
<1>0. TypeOK /\ \A g \in Handler : CallOK(g) /\ AnswersOK(g)
  BY AnswersMatchLedgerByHandler DEF IInv
<1>1. HistoriesWellFormed' /\ LedgerGrows
  BY DEF IInv, HistoriesWellFormed, stores, LedgerGrows
<1>2. \A g \in Handler : CallOK(g)'
  BY <1>0, SameCallKeepsOK
<1>3. \A g \in Handler : AnswersOK(g)'
  BY <1>0, <1>1, SameAnswersKeepOK DEF SameCall
<1>4. AnswersMatchLedger'
  BY <1>3 DEF AnswersMatchLedger, AnswersOK
<1>. QED
  BY <1>1, <1>2, <1>4 DEF IInv

----------------------------------------------------------------------------
(***************************************************************************)
(* Each action preserves the invariant.                                    *)
(***************************************************************************)

LEMMA InitOK == Init => IInv
<1>. SUFFICES ASSUME Init PROVE IInv
  OBVIOUS
<1>1. \A p \in Onboarded : facings[p] \in Facing /\ FacingOK(facings[p])
  BY CreateFacingOK, IngestionAssumption DEF Init
<1>2. DOMAIN NoWork = {}
  BY DEF NoWork
<1>3. TypeOK
  BY <1>1, <1>2 DEF Init, TypeOK, CallState, Instant, NotAccepted
<1>4. \A h \in Handler : CallOK(h)
  BY <1>2 DEF Init, CallOK, NoBatch
<1>. QED
  BY <1>1, <1>3, <1>4 DEF Init, IInv, HistoriesWellFormed, AnswersMatchLedger

LEMMA SubmitOK ==
    ASSUME IInv, NEW h \in Handler, NEW b \in Batches, Submit(h, b)
    PROVE  IInv'
<1>1. TypeOK'
  BY DEF IInv, TypeOK, Submit, stores, CallState
<1>2. /\ pc'[h] = "next" /\ batch'[h] = b
      /\ outcomes'[h] = outcomes[h] /\ working'[h] = working[h]
      /\ folded'[h] = folded[h]
  BY DEF IInv, TypeOK, Submit
<1>3. Len(outcomes[h]) = 0
  BY DEF IInv, TypeOK, CallOK, Submit, NoBatch
<1>4. Len(b.events) \in Nat
  BY IngestionAssumption DEF Batch
<1>5. CallOK(h)'
  BY <1>2, <1>3, <1>4 DEF IInv, CallOK, Submit
<1>6. AnswersOK(h)'
  BY <1>2, <1>3 DEF AnswersOK
<1>7. \A g \in Handler \ {h} : SameCall(g)
  BY DEF IInv, TypeOK, Submit, SameCall
<1>. QED
  BY <1>1, <1>5, <1>6, <1>7, LocalStepOK DEF Submit

LEMMA RefuseOK ==
    ASSUME IInv, NEW h \in Handler, Refuse(h)
    PROVE  IInv'
<1> DEFINE o == Rejected(Current(h), Refusal(batch[h], Current(h)))
<1>1. Current(h) \in DetectionEvent
  BY CurrentType DEF IInv, Refuse
<1>2. o \in Outcome /\ o.status = "rejected"
  BY <1>1 DEF Refuse, Rejected, Refusal, Outcome, DetectionEvent
<1>3. LedgerGrows /\ ledger' \in [Retailer \X EventId -> Instant \cup {NotAccepted}]
  BY DEF IInv, TypeOK, Refuse, stores, LedgerGrows
<1>4. HasNext(h) /\ Answer(h, o) /\ facings' = facings /\ crashes' = crashes
  BY DEF Refuse, stores
<1>. QED
  BY <1>2, <1>3, <1>4, AnswerOK

LEMMA RejectUnknownFacingOK ==
    ASSUME IInv, NEW h \in Handler, RejectUnknownFacing(h)
    PROVE  IInv'
<1> DEFINE o == Rejected(Current(h), "unknown_facing")
<1>1. HasNext(h)
  BY DEF IInv, CallOK, RejectUnknownFacing
<1>2. Current(h) \in DetectionEvent
  BY <1>1, CurrentType DEF IInv
<1>3. o \in Outcome /\ o.status = "rejected"
  BY <1>2 DEF Rejected, Outcome, DetectionEvent
<1>4. LedgerGrows /\ ledger' \in [Retailer \X EventId -> Instant \cup {NotAccepted}]
  BY DEF IInv, TypeOK, RejectUnknownFacing, stores, LedgerGrows
<1>5. Answer(h, o) /\ facings' = facings /\ crashes' = crashes
  BY DEF RejectUnknownFacing, stores
<1>. QED
  BY <1>1, <1>3, <1>4, <1>5, AnswerOK

LEMMA AnswerDuplicateOK ==
    ASSUME IInv, NEW h \in Handler, AnswerDuplicate(h)
    PROVE  IInv'
<1> DEFINE o == Duplicate(Current(h), ledger[KeyOf(Current(h))])
<1>1. Current(h) \in DetectionEvent /\ KeyOf(Current(h)) \in Retailer \X EventId
  BY CurrentType DEF IInv, AnswerDuplicate
<1>2. ledger[KeyOf(Current(h))] \in Instant
  BY <1>1 DEF IInv, TypeOK, AnswerDuplicate
<1>3. o \in Outcome /\ o.event = Current(h).id /\ o.at = ledger[KeyOf(Current(h))]
  BY <1>1, <1>2 DEF Duplicate, Outcome, DetectionEvent
<1>4. Current(h).retailer = batch[h].retailer
  BY DEF AnswerDuplicate, Refusal, PartitionMismatch
<1>5. ledger'[<<batch[h].retailer, o.event>>] = o.at
  BY <1>3, <1>4 DEF AnswerDuplicate, stores, KeyOf
<1>6. LedgerGrows /\ ledger' \in [Retailer \X EventId -> Instant \cup {NotAccepted}]
  BY DEF IInv, TypeOK, AnswerDuplicate, stores, LedgerGrows
<1>7. HasNext(h) /\ Answer(h, o) /\ facings' = facings /\ crashes' = crashes
  BY DEF AnswerDuplicate, stores
<1>. QED
  BY <1>3, <1>5, <1>6, <1>7, AnswerOK

LEMMA StartIngestOK ==
    ASSUME IInv, NEW h \in Handler, StartIngest(h)
    PROVE  IInv'
<1>1. TypeOK'
  BY DEF IInv, TypeOK, StartIngest, stores, CallState
<1>2. pc'[h] = "load" /\ \A g \in Handler \ {h} : SameCall(g)
  BY DEF IInv, TypeOK, StartIngest, SameCall
<1>3. Current(h)' = Current(h) /\ HasNext(h)' = HasNext(h)
  BY DEF StartIngest, Current, HasNext
<1>4. CallOK(h)'
  BY <1>2, <1>3 DEF IInv, CallOK, StartIngest, Refusal, PartitionMismatch
<1>5. AnswersOK(h)'
  BY AnswersMatchLedgerByHandler DEF IInv, AnswersOK, StartIngest, stores
<1>. QED
  BY <1>1, <1>2, <1>4, <1>5, LocalStepOK DEF StartIngest

LEMMA LoadOK ==
    ASSUME IInv, NEW h \in Handler, Load(h)
    PROVE  IInv'
<1> DEFINE e == Current(h)
           loaded == [f \in Touched(e) |-> facings[<<e.retailer, f>>]]
<1>1. HasNext(h) /\ Refusal(batch[h], e) = "none"
  BY DEF IInv, CallOK, Load
<1>2. e \in DetectionEvent /\ Touched(e) \subseteq FacingId
      /\ Len(e.observations) \in Nat
  <2>1. e \in DetectionEvent
    BY <1>1, CurrentType DEF IInv
  <2>. QED
    BY <2>1, TouchedType DEF DetectionEvent
<1>3. \A f \in Touched(e) : /\ <<e.retailer, f>> \in Onboarded
                            /\ loaded[f] \in Facing /\ FacingOK(loaded[f])
  <2>1. \A f \in Touched(e) : <<e.retailer, f>> \in Onboarded
    BY DEF Load, Stored
  <2>. QED
    BY <2>1 DEF IInv, TypeOK, HistoriesWellFormed
<1>4. DOMAIN loaded = Touched(e)
  OBVIOUS
<1>5. /\ pc' = [pc EXCEPT ![h] = "fold"] /\ working' = [working EXCEPT ![h] = loaded]
      /\ UNCHANGED <<stores, batch, outcomes, folded, acceptedAt, crashes>>
  BY DEF Load
<1>. HIDE DEF loaded
<1>6. /\ pc'[h] = "fold" /\ working'[h] = loaded
      /\ \A g \in Handler \ {h} : SameCall(g)
  BY <1>5 DEF IInv, TypeOK, SameCall
<1>7. TypeOK'
  <2>1. \A g \in Handler : working'[g] = IF g = h THEN loaded ELSE working[g]
    BY <1>5 DEF IInv, TypeOK
  <2>2. \A g \in Handler : /\ DOMAIN working'[g] \subseteq FacingId
                           /\ \A f \in DOMAIN working'[g] : working'[g][f] \in Facing
    BY <1>2, <1>3, <1>4, <2>1 DEF IInv, TypeOK
  <2>. QED
    BY <1>5, <2>2 DEF IInv, TypeOK, stores, CallState
<1>8. Current(h)' = e /\ HasNext(h)'
  BY <1>1, <1>5 DEF Current, HasNext
<1>9. folded'[h] = 0
  BY <1>5 DEF IInv, CallOK, Load
<1>10. CallOK(h)'
  <2>1. batch'[h] = batch[h] /\ outcomes'[h] = outcomes[h]
    BY <1>5
  <2>2. Refusal(batch[h], e)' = "none"
    BY <1>1, <1>8, <2>1 DEF Refusal, PartitionMismatch
  <2>3. \A f \in DOMAIN working'[h] : FacingOK(working[h][f])'
    BY <1>3, <1>4, <1>6
  <2>. QED
    BY <1>2, <1>4, <1>6, <1>8, <1>9, <2>1, <2>2, <2>3 DEF IInv, CallOK
<1>11. AnswersOK(h)'
  BY <1>5, AnswersMatchLedgerByHandler DEF IInv, AnswersOK, stores
<1>. QED
  BY <1>5, <1>6, <1>7, <1>10, <1>11, LocalStepOK

LEMMA FoldOK ==
    ASSUME IInv, NEW h \in Handler, Fold(h)
    PROVE  IInv'
<1> DEFINE e == Current(h)
           s == SignalOf(e, folded[h] + 1)
           f == working[h][s.facing]
           w == [working[h] EXCEPT ![s.facing] = RecordSignal(f, s)]
<1>1. /\ HasNext(h) /\ Refusal(batch[h], e) = "none"
      /\ DOMAIN working[h] = Touched(e)
      /\ \A x \in DOMAIN working[h] : FacingOK(working[h][x])
  BY DEF IInv, CallOK, Fold
<1>2. e \in DetectionEvent /\ Touched(e) \subseteq FacingId
  BY <1>1, CurrentType, TouchedType DEF IInv
<1>3. /\ folded[h] \in Nat /\ folded[h] < Len(e.observations)
      /\ Len(e.observations) \in Nat
  BY <1>2 DEF IInv, TypeOK, Fold, DetectionEvent
<1>4. s \in Signal /\ s.facing \in Touched(e)
  <2>1. folded[h] + 1 \in 1..Len(e.observations)
    BY <1>3
  <2>. QED
    BY <1>2, <2>1, SignalOfType
<1>5. f \in Facing /\ FacingOK(f)
  BY <1>1, <1>4 DEF IInv, TypeOK
<1>6. /\ SignalOutcome(f, s) # "threw"
      /\ RecordSignal(f, s) \in Facing /\ FacingOK(RecordSignal(f, s))
  BY <1>4, <1>5, RecordSignalOK
<1>7. /\ pc' = [pc EXCEPT ![h] = "fold"]
      /\ working' = [working EXCEPT ![h] = w]
      /\ folded' = [folded EXCEPT ![h] = @ + 1]
      /\ UNCHANGED <<stores, batch, outcomes, acceptedAt, crashes>>
  BY <1>6 DEF Fold
<1>8. /\ DOMAIN w = Touched(e)
      /\ \A x \in DOMAIN w : w[x] \in Facing /\ FacingOK(w[x])
  BY <1>1, <1>4, <1>6 DEF IInv, TypeOK
<1>. HIDE DEF w, f, s
<1>9. /\ pc'[h] = "fold" /\ working'[h] = w /\ folded'[h] = folded[h] + 1
      /\ \A g \in Handler \ {h} : SameCall(g)
  BY <1>7 DEF IInv, TypeOK, SameCall
<1>10. TypeOK'
  <2>1. \A g \in Handler : working'[g] = IF g = h THEN w ELSE working[g]
    BY <1>7 DEF IInv, TypeOK
  <2>2. \A g \in Handler : /\ DOMAIN working'[g] \subseteq FacingId
                           /\ \A x \in DOMAIN working'[g] : working'[g][x] \in Facing
    BY <1>2, <1>8, <2>1 DEF IInv, TypeOK
  <2>. QED
    BY <1>7, <2>2 DEF IInv, TypeOK, stores, CallState
<1>11. Current(h)' = e /\ HasNext(h)'
  BY <1>1, <1>7 DEF Current, HasNext
<1>12. CallOK(h)'
  <2>1. batch'[h] = batch[h] /\ outcomes'[h] = outcomes[h]
    BY <1>7
  <2>2. Refusal(batch[h], e)' = "none"
    BY <1>1, <1>11, <2>1 DEF Refusal, PartitionMismatch
  <2>3. \A x \in DOMAIN working'[h] : FacingOK(working[h][x])'
    BY <1>8, <1>9
  <2>4. DOMAIN working'[h] = Touched(Current(h))'
    BY <1>8, <1>9, <1>11 DEF Touched
  <2>. QED
    BY <1>3, <1>9, <1>11, <2>1, <2>2, <2>3, <2>4 DEF IInv, CallOK
<1>13. AnswersOK(h)'
  BY <1>7, AnswersMatchLedgerByHandler DEF IInv, AnswersOK, stores
<1>. QED
  BY <1>7, <1>9, <1>10, <1>12, <1>13, LocalStepOK

LEMMA StampAcceptanceOK ==
    ASSUME IInv, NEW h \in Handler, NEW now \in Clock, StampAcceptance(h, now)
    PROVE  IInv'
<1>1. TypeOK'
  BY IngestionAssumption DEF IInv, TypeOK, StampAcceptance, stores, CallState
<1>2. pc'[h] = "save" /\ \A g \in Handler \ {h} : SameCall(g)
  BY DEF IInv, TypeOK, StampAcceptance, SameCall
<1>3. /\ Current(h)' = Current(h) /\ HasNext(h)' = HasNext(h)
      /\ batch' = batch /\ outcomes' = outcomes /\ working' = working
      /\ folded' = folded
  BY DEF StampAcceptance, Current, HasNext
<1>4. Refusal(batch[h], Current(h))' = Refusal(batch[h], Current(h))
  BY <1>3 DEF Refusal, PartitionMismatch
<1>5. CallOK(h)'
  BY <1>2, <1>3, <1>4 DEF IInv, CallOK, StampAcceptance
<1>6. AnswersOK(h)'
  BY AnswersMatchLedgerByHandler DEF IInv, AnswersOK, StampAcceptance, stores
<1>. QED
  BY <1>1, <1>2, <1>5, <1>6, LocalStepOK DEF StampAcceptance

LEMMA SaveOK ==
    ASSUME IInv, NEW h \in Handler, Save(h)
    PROVE  IInv'
<1>1. /\ facings' \in [Onboarded -> Facing]
      /\ \A p \in Onboarded : FacingOK(facings'[p])
  BY DEF IInv, TypeOK, HistoriesWellFormed, CallOK, Save
<1>2. TypeOK'
  BY <1>1 DEF IInv, TypeOK, Save, CallState
<1>3. pc'[h] = "record" /\ \A g \in Handler \ {h} : SameCall(g)
  BY DEF IInv, TypeOK, Save, SameCall
<1>4. /\ Current(h)' = Current(h) /\ HasNext(h)' = HasNext(h)
      /\ batch' = batch /\ outcomes' = outcomes /\ working' = working
      /\ folded' = folded /\ ledger' = ledger
  BY DEF Save, Current, HasNext
<1>5. Refusal(batch[h], Current(h))' = Refusal(batch[h], Current(h))
  BY <1>4 DEF Refusal, PartitionMismatch
<1>6. CallOK(h)'
  BY <1>3, <1>4, <1>5 DEF IInv, CallOK, Save
<1>7. \A g \in Handler : CallOK(g)'
  BY <1>3, <1>6, SameCallKeepsOK DEF IInv
<1>8. AnswersMatchLedger'
  BY <1>4 DEF IInv, AnswersMatchLedger
<1>. QED
  BY <1>1, <1>2, <1>7, <1>8 DEF IInv, HistoriesWellFormed

LEMMA RecordOK ==
    ASSUME IInv, NEW h \in Handler, Record(h)
    PROVE  IInv' /\ LedgerGrows
<1> DEFINE e == Current(h)
           o == IF Winner(h) = acceptedAt[h] THEN Accepted(e, acceptedAt[h])
                ELSE Duplicate(e, Winner(h))
<1>1. HasNext(h) /\ Refusal(batch[h], e) = "none"
  BY DEF IInv, CallOK, Record
<1>2. e \in DetectionEvent /\ KeyOf(e) \in Retailer \X EventId
  BY <1>1, CurrentType DEF IInv
<1>3. Winner(h) \in Instant
  BY <1>2 DEF IInv, TypeOK, Winner
<1>4. o \in Outcome /\ o.event = e.id /\ o.at = Winner(h)
  <2>1. CASE Winner(h) = acceptedAt[h]
    BY <1>2, <1>3, <2>1 DEF Accepted, Outcome, DetectionEvent
  <2>2. CASE Winner(h) # acceptedAt[h]
    BY <1>2, <1>3, <2>2 DEF Duplicate, Outcome, DetectionEvent
  <2>. QED
    BY <2>1, <2>2
<1>5. ledger' = [ledger EXCEPT ![KeyOf(e)] = Winner(h)]
  BY DEF Record
<1>6. /\ ledger' \in [Retailer \X EventId -> Instant \cup {NotAccepted}]
      /\ ledger'[KeyOf(e)] = Winner(h)
  BY <1>2, <1>3, <1>5 DEF IInv, TypeOK
<1>7. LedgerGrows
  BY <1>2, <1>5 DEF IInv, TypeOK, LedgerGrows, Winner
<1>8. KeyOf(e) = <<batch[h].retailer, o.event>>
  BY <1>1, <1>4 DEF Refusal, PartitionMismatch, KeyOf
<1>9. Answer(h, o) /\ facings' = facings /\ crashes' = crashes
  BY DEF Record
<1>. HIDE DEF o
<1>. QED
  BY <1>1, <1>4, <1>6, <1>7, <1>8, <1>9, AnswerOK

LEMMA ReturnOK ==
    ASSUME IInv, NEW h \in Handler, Return(h)
    PROVE  IInv'
<1>1. TypeOK'
  BY ForgetOK DEF IInv, TypeOK, Return, stores
<1>. QED
  BY <1>1, ForgetOK, LocalStepOK DEF IInv, Return

LEMMA CrashOK ==
    ASSUME IInv, NEW h \in Handler, Crash(h)
    PROVE  IInv'
<1>1. TypeOK'
  BY ForgetOK DEF IInv, TypeOK, Crash, stores
<1>. QED
  BY <1>1, ForgetOK, LocalStepOK DEF IInv, Crash

LEMMA StutterOK ==
    ASSUME IInv, UNCHANGED vars
    PROVE  IInv'
<1>1. TypeOK' /\ HistoriesWellFormed' /\ AnswersMatchLedger'
  BY DEF IInv, vars, TypeOK, HistoriesWellFormed, AnswersMatchLedger
<1>2. \A g \in Handler : SameCall(g)
  BY DEF vars, SameCall
<1>. QED
  BY <1>1, <1>2, SameCallKeepsOK DEF IInv

LEMMA NextOK ==
    ASSUME IInv, [Next]_vars
    PROVE  IInv'
<1>1. ASSUME NEW h \in Handler, NEW b \in Batches, Submit(h, b) PROVE IInv'
  BY <1>1, SubmitOK
<1>2. ASSUME NEW h \in Handler, Refuse(h) PROVE IInv'
  BY <1>2, RefuseOK
<1>3. ASSUME NEW h \in Handler, AnswerDuplicate(h) PROVE IInv'
  BY <1>3, AnswerDuplicateOK
<1>4. ASSUME NEW h \in Handler, StartIngest(h) PROVE IInv'
  BY <1>4, StartIngestOK
<1>5. ASSUME NEW h \in Handler, RejectUnknownFacing(h) PROVE IInv'
  BY <1>5, RejectUnknownFacingOK
<1>6. ASSUME NEW h \in Handler, Load(h) PROVE IInv'
  BY <1>6, LoadOK
<1>7. ASSUME NEW h \in Handler, Fold(h) PROVE IInv'
  BY <1>7, FoldOK
<1>8. ASSUME NEW h \in Handler, NEW now \in Clock, StampAcceptance(h, now) PROVE IInv'
  BY <1>8, StampAcceptanceOK
<1>9. ASSUME NEW h \in Handler, Save(h) PROVE IInv'
  BY <1>9, SaveOK
<1>10. ASSUME NEW h \in Handler, Record(h) PROVE IInv'
  BY <1>10, RecordOK
<1>11. ASSUME NEW h \in Handler, Return(h) PROVE IInv'
  BY <1>11, ReturnOK
<1>12. ASSUME NEW h \in Handler, Crash(h) PROVE IInv'
  BY <1>12, CrashOK
<1>13. ASSUME UNCHANGED vars PROVE IInv'
  BY <1>13, StutterOK
<1>. QED
  BY <1>1, <1>2, <1>3, <1>4, <1>5, <1>6, <1>7, <1>8, <1>9, <1>10, <1>11,
     <1>12, <1>13 DEF Next, Work

----------------------------------------------------------------------------
(***************************************************************************)
(* The theorems.                                                           *)
(***************************************************************************)

\* The invariant holds throughout, however the calls interleave and die.
THEOREM Invariance == Spec => []IInv
<1>1. IInv /\ [Next]_vars => IInv'
  BY NextOK
<1>. QED
  BY InitOK, <1>1, PTL DEF Spec

\* The stores and the calls keep their types.
THEOREM TypeCorrectness == Spec => []TypeOK
<1>1. IInv => TypeOK
  BY DEF IInv
<1>. QED
  BY Invariance, <1>1, PTL

\* Stored histories stay well-formed logs that their facings agree with,
\* however many handlers of however many topics race over a facing.
THEOREM WellFormedness == Spec => []HistoriesWellFormed
<1>1. IInv => HistoriesWellFormed
  BY DEF IInv
<1>. QED
  BY Invariance, <1>1, PTL

\* No order of arrival makes ingestBatch throw out of appendEvent.
THEOREM NeverThrows == Spec => []NoCallThrows
<1>1. IInv => NoCallThrows
  BY DEF IInv, CallOK, NoCallThrows
<1>. QED
  BY Invariance, <1>1, PTL

\* What a producer is told about an event is what the ledger holds for it.
THEOREM AnswersAgree == Spec => []AnswersMatchLedger
<1>1. IInv => AnswersMatchLedger
  BY DEF IInv
<1>. QED
  BY Invariance, <1>1, PTL

\* A call writes only into the partition it was submitted for.
THEOREM PartitionsAreKept == Spec => WritesStayInPartition
<1> DEFINE Writer(p) == \E h \in Handler : batch[h].retailer = p[1] /\ pc[h] = "save"
<1>1. ASSUME IInv, [Next]_vars, NEW p \in Onboarded, facings'[p] # facings[p]
      PROVE  Writer(p)
  <2>1. ASSUME NEW h \in Handler, Save(h) PROVE Writer(p)
    <3>1. Refusal(batch[h], Current(h)) = "none"
      BY <1>1, <2>1 DEF IInv, CallOK, Save
    <3>2. Current(h).retailer = batch[h].retailer
      BY <3>1 DEF Refusal, PartitionMismatch
    <3>3. p[1] = Current(h).retailer
      BY <1>1, <2>1 DEF Save
    <3>. QED
      BY <2>1, <3>2, <3>3 DEF Save
  <2>2. ASSUME facings' = facings PROVE FALSE
    BY <1>1, <2>2
  <2>. QED
    BY <1>1, <2>1, <2>2 DEF Next, Work, Submit, Refuse, AnswerDuplicate, StartIngest,
       RejectUnknownFacing, Load, Fold, StampAcceptance, Record, Return, Crash, stores, vars
<1>2. IInv /\ [Next]_vars =>
        [\A p \in Onboarded : facings'[p] # facings[p] =>
           \E h \in Handler : batch[h].retailer = p[1] /\ pc[h] = "save"]_vars
  BY <1>1
<1>. QED
  BY Invariance, <1>2, PTL DEF Spec, WritesStayInPartition

----------------------------------------------------------------------------
(***************************************************************************)
(* What one observation does to an aggregate.                              *)
(***************************************************************************)

LEMMA ContinuesItself ==
    ASSUME NEW f \in Facing
    PROVE  Continues(f, f)
BY DEF Continues, Facing, History, NeverObserved, Instant

LEMMA ContinuesOn ==
    ASSUME NEW f \in Facing, NEW g \in Facing, NEW k \in Facing,
           Continues(g, f), Continues(k, g)
    PROVE  Continues(k, f)
<1>1. /\ f.history.events \in Seq(FacingStateEvent)
      /\ g.history.events \in Seq(FacingStateEvent)
      /\ k.history.events \in Seq(FacingStateEvent)
      /\ \A s \in SignalSource : f.observed[s] \in Int /\ g.observed[s] \in Int
                                 /\ k.observed[s] \in Int
  BY DEF Facing, History, NeverObserved, Instant
<1>2. \A s \in SignalSource : k.observed[s] >= f.observed[s] BY <1>1 DEF Continues
<1>3. /\ Len(f.history.events) \in Nat /\ Len(g.history.events) \in Nat
      /\ Len(k.history.events) \in Nat
      /\ Len(f.history.events) <= Len(g.history.events)
      /\ Len(g.history.events) <= Len(k.history.events)
  BY <1>1 DEF Continues
<1>4. 1..Len(f.history.events) \subseteq 1..Len(g.history.events) BY <1>3
<1>5. \A i \in 1..Len(f.history.events) : k.history.events[i] = f.history.events[i]
  BY <1>4 DEF Continues
<1> QED BY <1>2, <1>3, <1>5 DEF Continues

\* The snapshot of the signal's source is at least as new as the signal, and no
\* other is older than it was.
LEMMA RefreshSnapshotObserves ==
    ASSUME NEW f \in Facing, NEW s \in Signal
    PROVE  /\ RefreshSnapshot(f, s).observed[s.source] >= s.at
           /\ \A x \in SignalSource : RefreshSnapshot(f, s).observed[x] >= f.observed[x]
<1>1. /\ f.observed \in [SignalSource -> Instant \cup {NeverObserved}]
      /\ s.at \in Instant /\ s.source \in SignalSource
  BY DEF Facing, Signal
<1>2. \A x \in SignalSource : f.observed[x] \in Int
  BY <1>1 DEF NeverObserved, Instant
<1>3. CASE s.at >= f.observed[s.source]
  <2> DEFINE o == [f.observed EXCEPT ![s.source] = s.at]
  <2>1. RefreshSnapshot(f, s)
          = [f EXCEPT !.observed = o, !.updatedAt = Later(s.at, f.updatedAt)]
    BY <1>3, Zenon DEF RefreshSnapshot
  <2>2. /\ o[s.source] = s.at
        /\ \A x \in SignalSource : o[x] >= f.observed[x]
    BY <1>1, <1>2, <1>3 DEF Instant
  <2> HIDE DEF o
  <2>3. RefreshSnapshot(f, s).observed = o BY <2>1 DEF Facing
  <2> QED BY <1>1, <2>2, <2>3 DEF Instant
<1>4. CASE ~(s.at >= f.observed[s.source])
  BY <1>1, <1>2, <1>4 DEF RefreshSnapshot, Instant
<1> QED BY <1>3, <1>4

\* The log is left alone, or the signal's transition is its new last entry.
LEMMA RecordSignalEffect ==
    ASSUME NEW f \in Facing, FacingOK(f), NEW s \in Signal
    PROVE  /\ RecordSignal(f, s).observed[s.source] >= s.at
           /\ Continues(RecordSignal(f, s), f)
           /\ \/ RecordSignal(f, s).history = f.history
              \/ /\ RecordSignal(f, s).history = AppendEvent(f.history, TransitionEvent(f, s))
                 /\ TransitionEvent(f, s) \in FacingStateEvent
                 /\ CanAppend(f.history, TransitionEvent(f, s))
<1> DEFINE e == TransitionEvent(f, s)
           seen == RefreshSnapshot(f, s)
           log == AppendEvent(f.history, e)
<1>1. seen \in Facing /\ seen.history = f.history BY RefreshSnapshotKeeps
<1>2. /\ f.history.events \in Seq(FacingStateEvent)
      /\ f.history \in History /\ f.state \in ShelfState
      /\ s.at \in Instant /\ s.id \in SignalId
      /\ StockCall(s.reading) \in ShelfState \cup {"no_evidence"}
  BY StockCallType DEF Facing, History, Signal
<1>3. CASE SignalOutcome(f, s) = "transitioned"
  <2>1. /\ RecordSignal(f, s).history = log
        /\ RecordSignal(f, s).observed = seen.observed
    <3>1. RecordSignal(f, s) =
            [seen EXCEPT !.state = CurrentState(log), !.stateSince = s.at,
                         !.history = log, !.updatedAt = Later(s.at, seen.updatedAt)]
      BY <1>3 DEF RecordSignal
    <3> QED BY <1>1, <3>1 DEF Facing
  <2>2. CanAppend(f.history, e) /\ StockCall(s.reading) # "no_evidence"
    BY <1>3 DEF SignalOutcome
  <2>3. e \in FacingStateEvent
    BY <1>2, <2>2, NextSequenceType DEF TransitionEvent, FacingStateEvent
  <2>4. log.events = Append(f.history.events, e) BY <1>2 DEF AppendEvent, History
  <2>5. /\ Len(f.history.events) <= Len(log.events)
        /\ \A i \in 1..Len(f.history.events) : log.events[i] = f.history.events[i]
    BY <1>2, <2>3, <2>4
  <2> QED BY <2>1, <2>2, <2>3, <2>5, RefreshSnapshotObserves DEF Continues
<1>4. CASE SignalOutcome(f, s) # "transitioned"
  <2>1. RecordSignal(f, s) = seen BY <1>4 DEF RecordSignal
  <2>2. Len(f.history.events) <= Len(f.history.events) BY <1>2
  <2> QED BY <1>1, <2>1, <2>2, RefreshSnapshotObserves DEF Continues
<1> QED BY <1>3, <1>4

----------------------------------------------------------------------------
(***************************************************************************)
(* The steps, as the serial properties see them.                           *)
(***************************************************************************)

\* A step of a handler that leaves the repository alone and works on no event when
\* it is done.
Aside(h) ==
    /\ facings' = facings
    /\ pc'[h] \notin {"fold", "save", "record"}
    /\ \A g \in Handler \ {h} : SameCall(g)

LEMMA AsideSteps ==
    ASSUME IInv, NEW h \in Handler,
           \/ \E b \in Batches : Submit(h, b)
           \/ Refuse(h) \/ AnswerDuplicate(h) \/ StartIngest(h) \/ RejectUnknownFacing(h)
           \/ Record(h) \/ Return(h) \/ Crash(h)
    PROVE  Aside(h)
<1>1. ASSUME NEW o, Answer(h, o)
      PROVE  pc'[h] = "next" /\ \A g \in Handler \ {h} : SameCall(g)
  BY <1>1 DEF IInv, TypeOK, Answer, SameCall
<1>2. CASE \E b \in Batches : Submit(h, b)
  BY <1>2 DEF IInv, TypeOK, Submit, SameCall, Aside, stores
<1>3. CASE Refuse(h) BY <1>1, <1>3 DEF Refuse, Aside, stores
<1>4. CASE AnswerDuplicate(h) BY <1>1, <1>4 DEF AnswerDuplicate, Aside, stores
<1>5. CASE StartIngest(h)
  BY <1>5 DEF IInv, TypeOK, StartIngest, SameCall, Aside, stores
<1>6. CASE RejectUnknownFacing(h) BY <1>1, <1>6 DEF RejectUnknownFacing, Aside, stores
<1>7. CASE Record(h) BY <1>1, <1>7 DEF Record, Aside
<1>8. ASSUME Forget(h) PROVE pc'[h] = "idle" /\ \A g \in Handler \ {h} : SameCall(g)
  BY <1>8 DEF IInv, TypeOK, Forget, SameCall
<1>9. CASE Return(h) BY <1>8, <1>9 DEF Return, Aside, stores
<1>10. CASE Crash(h) BY <1>8, <1>10 DEF Crash, Aside, stores
<1> QED BY <1>2, <1>3, <1>4, <1>5, <1>6, <1>7, <1>9, <1>10

\* The step of a handler inside a call over its current event.
Within(h) ==
    /\ batch' = batch /\ outcomes' = outcomes
    /\ \A g \in Handler \ {h} : SameCall(g)

LEMMA WithinSteps ==
    ASSUME IInv, NEW h \in Handler,
           Load(h) \/ Fold(h) \/ (\E now \in Clock : StampAcceptance(h, now)) \/ Save(h)
    PROVE  Within(h) /\ ledger' = ledger
<1>1. CASE Load(h) BY <1>1 DEF IInv, TypeOK, Load, SameCall, Within, stores
<1>2. CASE Fold(h) BY <1>2 DEF IInv, TypeOK, Fold, SameCall, Within, stores
<1>3. CASE \E now \in Clock : StampAcceptance(h, now)
  BY <1>3 DEF IInv, TypeOK, StampAcceptance, SameCall, Within, stores
<1>4. CASE Save(h) BY <1>4 DEF IInv, TypeOK, Save, SameCall, Within
<1> QED BY <1>1, <1>2, <1>3, <1>4

\* Whoever is left alone has the same current event.
LEMMA SameCurrent ==
    ASSUME NEW g, SameCall(g)
    PROVE  Current(g)' = Current(g)
BY DEF SameCall, Current

\* What a call has passed its checks and loaded is deliverable.
LEMMA LoadedIsDeliverable ==
    ASSUME IInv, NEW h \in Handler, Load(h)
    PROVE  Current(h) \in Deliverable
<1> DEFINE e == Current(h)
<1>1. HasNext(h) /\ Refusal(batch[h], e) = "none" /\ Touched(e) = Stored(e)
  BY DEF IInv, CallOK, Load
<1>2. batch[h] \in Batches BY <1>1, CurrentType DEF IInv
<1>3. e \in EventsOf(batch[h])
  <2>1. Len(outcomes[h]) \in Nat /\ Len(batch[h].events) \in Nat
    BY <1>2, IngestionAssumption DEF IInv, TypeOK, Batch
  <2>2. Len(outcomes[h]) + 1 \in 1..Len(batch[h].events)
    BY <1>1, <2>1 DEF HasNext
  <2> QED BY <2>2 DEF Current, EventsOf
<1> HIDE DEF e
<1>4. e \in {d \in EventsOf(batch[h]) :
               Refusal(batch[h], d) = "none" /\ Touched(d) = Stored(d)}
  BY <1>1, <1>3
<1> QED BY <1>2, <1>4, Zenon DEF Deliverable, e

LEMMA DeliverableSubmitted == Deliverable \subseteq Submitted
BY DEF Deliverable, Submitted

LEMMA DeliverableType ==
    ASSUME NEW e \in Deliverable
    PROVE  /\ e \in DetectionEvent
           /\ \A f \in Touched(e) : <<e.retailer, f>> \in Onboarded
           /\ \A i \in 1..Len(e.observations) : e.observations[i].facing \in Touched(e)
           /\ e.at \in Instant /\ e.source \in SignalSource
<1>1. PICK b \in Batches : e \in EventsOf(b) /\ Touched(e) = Stored(e)
  BY DEF Deliverable
<1>2. b.events \in Seq(DetectionEvent) BY IngestionAssumption DEF Batch
<1>3. e \in DetectionEvent BY <1>1, <1>2 DEF EventsOf
<1> QED BY <1>1, <1>3 DEF Stored, DetectionEvent, DetectionSource, Touched

----------------------------------------------------------------------------
(***************************************************************************)
(* Calls that hold their facings apart.                                    *)
(***************************************************************************)

\* Nothing is applied and then not.
FacingsGrow == \A p \in Onboarded : Continues(facings'[p], facings[p])

LEMMA SettledStays ==
    ASSUME IInv, FacingsGrow, facings' \in [Onboarded -> Facing], NEW e \in Deliverable, Applied(e)
    PROVE  Applied(e)'
<1>1. \A p \in Onboarded, s \in SignalSource :
        /\ facings[p].observed[s] \in Int /\ facings'[p].observed[s] \in Int
        /\ facings'[p].observed[s] >= facings[p].observed[s]
  BY DEF IInv, TypeOK, FacingsGrow, Continues, Facing, NeverObserved, Instant
<1>2. /\ e.at \in Int /\ e.source \in SignalSource
      /\ \A f \in Touched(e) : <<e.retailer, f>> \in Onboarded
  BY DeliverableType DEF Instant
<1>3. \A f \in Touched(e) : facings'[<<e.retailer, f>>].observed[e.source] >= e.at
  BY <1>1, <1>2 DEF Applied
<1> QED BY <1>2, <1>3 DEF Applied

LEMMA SettledGrows ==
    ASSUME IInv, FacingsGrow, facings' \in [Onboarded -> Facing]
    PROVE  Settled \subseteq Settled'
BY SettledStays DEF Settled

LEMMA FacingsStayed ==
    ASSUME IInv, facings' = facings
    PROVE  FacingsGrow
BY ContinuesItself DEF IInv, TypeOK, FacingsGrow

\* A call that is left alone keeps what it carries, if its facings are.
LEMMA OtherCallKeeps ==
    ASSUME IInv, NEW g \in Handler, CallKeeps(g), SameCall(g), FacingsGrow,
           facings' \in [Onboarded -> Facing],
           \A p \in Held(g) : facings'[p] = facings[p]
    PROVE  CallKeeps(g)'
<1>0. PICK e : e = Current(g) OBVIOUS
<1>1. Current(g)' = e BY <1>0, SameCurrent
<1>2. /\ pc'[g] = pc[g] /\ folded'[g] = folded[g] /\ working'[g] = working[g]
  BY DEF SameCall
<1>3. ASSUME pc[g] \in {"fold", "save"}, NEW f \in Touched(e)
      PROVE  /\ Continues(working[g][f], facings'[<<e.retailer, f>>])
             /\ Whole(<<e.retailer, f>>, working[g][f], Settled' \cup {e})
  <2>1. <<e.retailer, f>> \in Held(g) BY <1>0, <1>3 DEF Held
  <2>2. /\ Continues(working[g][f], facings[<<e.retailer, f>>])
        /\ Whole(<<e.retailer, f>>, working[g][f], Settled \cup {e})
    BY <1>0, <1>3 DEF CallKeeps
  <2> QED BY <2>1, <2>2, SettledGrows DEF Whole
<1>4. pc[g] = "record" => Applied(e)' BY <1>0, SettledStays DEF CallKeeps
<1>5. /\ pc[g] \in {"fold", "save", "record"} => e \in Deliverable
      /\ pc[g] = "save" => folded[g] = Len(e.observations)
      /\ pc[g] \in {"fold", "save"} =>
           \A i \in 1..folded[g] :
             working[g][e.observations[i].facing].observed[e.source] >= e.at
  BY <1>0 DEF CallKeeps
<1>6. pc[g] = "record" => Applied(Current(g))'
  BY <1>1, <1>4 DEF Applied
<1> QED BY <1>1, <1>2, <1>3, <1>5, <1>6 DEF CallKeeps

LEMMA SettledInit ==
    ASSUME Init
    PROVE  SerialInv
<1>1. \A e \in Deliverable : ~WasAccepted(e)
  BY DeliverableType DEF Init, WasAccepted, KeyOf, DetectionEvent
<1>2. \A p \in Onboarded : facings[p].history.events = <<>>
  BY DEF Init, CreateFacing
<1>3. \A p \in Onboarded : Whole(p, facings[p], Settled) BY <1>2 DEF Whole
<1>4. \A h \in Handler : CallKeeps(h) BY DEF Init, CallKeeps
<1> QED BY <1>1, <1>3, <1>4 DEF SerialInv, AcceptedIsApplied

\* Nothing is accepted but what was saved.
LEMMA AsideKeeps ==
    ASSUME KeysAreUnique, IInv, SerialInv, NEW h \in Handler, Aside(h), TypeOK',
           ledger' = ledger \/ Record(h)
    PROVE  SerialInv'
<1>1. FacingsGrow /\ facings' \in [Onboarded -> Facing]
  BY FacingsStayed DEF Aside, TypeOK
<1>2. \A e : Applied(e)' <=> Applied(e) BY DEF Aside, Applied
<1>3. \A e \in Deliverable : WasAccepted(e)' => Applied(e)'
  <2>1. CASE ledger' = ledger
    BY <1>2, <2>1 DEF SerialInv, AcceptedIsApplied, WasAccepted
  <2>2. CASE Record(h)
    <3>1. Current(h) \in Deliverable /\ Applied(Current(h))
      BY <2>2 DEF SerialInv, CallKeeps, Record
    <3>2. \A k \in Retailer \X EventId : k # KeyOf(Current(h)) => ledger'[k] = ledger[k]
      BY <2>2 DEF IInv, TypeOK, Record
    <3>3. \A e \in Deliverable : KeyOf(e) \in Retailer \X EventId
      BY DeliverableType DEF KeyOf, DetectionEvent
    <3>4. ASSUME NEW e \in Deliverable, WasAccepted(e)' PROVE Applied(e)
      <4>1. CASE KeyOf(e) = KeyOf(Current(h)) BY <3>1, <4>1, DeliverableSubmitted DEF KeysAreUnique
      <4>2. CASE KeyOf(e) # KeyOf(Current(h))
        BY <3>2, <3>3, <3>4, <4>2 DEF SerialInv, AcceptedIsApplied, WasAccepted
      <4> QED BY <4>1, <4>2
    <3> QED BY <1>2, <3>4
  <2> QED BY <2>1, <2>2
<1>4. \A p \in Onboarded : Whole(p, facings[p], Settled)'
  <2>1. Settled' = Settled BY <1>2 DEF Settled
  <2> QED BY <2>1 DEF Aside, SerialInv, Whole
<1>5. CallKeeps(h)' BY DEF Aside, CallKeeps
<1>6. \A g \in Handler \ {h} : CallKeeps(g)'
  BY <1>1, OtherCallKeeps DEF Aside, SerialInv
<1> QED BY <1>3, <1>4, <1>5, <1>6 DEF SerialInv, AcceptedIsApplied

LEMMA WithinKeeps ==
    ASSUME IInv, SerialInv, NEW h \in Handler, Within(h), facings' = facings,
           ledger' = ledger, CallKeeps(h)'
    PROVE  SerialInv'
<1>1. FacingsGrow /\ facings' \in [Onboarded -> Facing]
  BY FacingsStayed DEF IInv, TypeOK
<1>2. \A e : Applied(e)' <=> Applied(e) BY DEF Applied
<1>3. \A e \in Deliverable : WasAccepted(e)' => Applied(e)'
  BY <1>2 DEF SerialInv, AcceptedIsApplied, WasAccepted
<1>4. \A p \in Onboarded : Whole(p, facings[p], Settled)'
  <2>1. Settled' = Settled BY <1>2 DEF Settled
  <2> QED BY <2>1 DEF SerialInv, Whole
<1>5. \A g \in Handler \ {h} : CallKeeps(g)'
  BY <1>1, OtherCallKeeps DEF Within, SerialInv
<1> QED BY <1>3, <1>4, <1>5 DEF SerialInv, AcceptedIsApplied

LEMMA LoadKeeps ==
    ASSUME IInv, SerialInv, NEW h \in Handler, Load(h)
    PROVE  SerialInv'
<1>0. PICK e : e = Current(h) OBVIOUS
<1>1. e \in Deliverable BY <1>0, LoadedIsDeliverable
<1>2. Within(h) /\ ledger' = ledger BY WithinSteps
<1>3. Current(h)' = e BY <1>0, <1>2 DEF Within, Current
<1>4. /\ pc'[h] = "fold" /\ folded'[h] = 0 /\ facings' = facings
      /\ \A f \in Touched(e) : working'[h][f] = facings[<<e.retailer, f>>]
  BY <1>0 DEF IInv, TypeOK, CallOK, Load, stores
<1>5. \A f \in Touched(e) :
        /\ Continues(working'[h][f], facings'[<<e.retailer, f>>])
        /\ Whole(<<e.retailer, f>>, working'[h][f], Settled \cup {e})
  BY <1>1, <1>4, DeliverableType, ContinuesItself DEF IInv, TypeOK, SerialInv, Whole
<1>6. Settled' = Settled BY <1>4 DEF Settled, Applied
<1>7. CallKeeps(h)'
  <2>1. pc'[h] = "fold" /\ folded'[h] = 0 BY <1>4
  <2>2. \A f \in Touched(e) :
          /\ Continues(working'[h][f], facings'[<<e.retailer, f>>])
          /\ Whole(<<e.retailer, f>>, working'[h][f], Settled' \cup {e})
    BY <1>5, <1>6
  <2>3. \A i \in 1..folded'[h] : FALSE BY <2>1
  <2>4. pc'[h] \notin {"save", "record"} BY <2>1
  <2> QED BY ONLY <1>1, <1>3, <2>2, <2>3, <2>4 DEF CallKeeps
<1> QED BY <1>2, <1>4, <1>7, WithinKeeps

\* Whatever the fold of an observation adds to a log tells of that observation.
LEMMA FoldedIsTold ==
    ASSUME NEW e \in DetectionEvent, NEW i \in 1..Len(e.observations),
           NEW f \in Facing, FacingOK(f), NEW events, e \in events,
           Whole(<<e.retailer, e.observations[i].facing>>, f, events)
    PROVE  Whole(<<e.retailer, e.observations[i].facing>>,
                 RecordSignal(f, SignalOf(e, i)), events)
<1> DEFINE s == SignalOf(e, i)
           p == <<e.retailer, e.observations[i].facing>>
           v == TransitionEvent(f, s)
           log == RecordSignal(f, s).history.events
<1>1. s \in Signal BY SignalOfType
<1>2. CASE RecordSignal(f, s).history = f.history BY <1>2 DEF Whole
<1>3. CASE /\ RecordSignal(f, s).history = AppendEvent(f.history, v)
           /\ v \in FacingStateEvent
  <2>1. /\ f.history \in History /\ f.history.events \in Seq(FacingStateEvent)
    BY DEF Facing, History
  <2>2. log = Append(f.history.events, v) BY <1>3, <2>1 DEF AppendEvent, History
  <2>3. Tells(v, p, e) BY DEF Tells, TransitionEvent, SignalOf
  <2> HIDE DEF log, v, p
  <2>4. \A j \in 1..Len(log) :
           \/ j \in 1..Len(f.history.events) /\ log[j] = f.history.events[j]
           \/ log[j] = v
    BY <1>3, <2>1, <2>2
  <2> QED BY <2>3, <2>4 DEF Whole, log, p
<1> QED BY <1>1, <1>2, <1>3, RecordSignalEffect

LEMMA FoldKeeps ==
    ASSUME IInv, SerialInv, NEW h \in Handler, Fold(h)
    PROVE  SerialInv'
<1>0. PICK e : e = Current(h) OBVIOUS
<1>1. PICK i : i = folded[h] + 1 OBVIOUS
<1>2. PICK s : s = SignalOf(e, i) OBVIOUS
<1>3. PICK f : f = working[h][s.facing] OBVIOUS
<1>4. e \in Deliverable /\ e \in DetectionEvent
  BY <1>0, DeliverableType DEF SerialInv, CallKeeps, Fold
<1>5. /\ DOMAIN working[h] = Touched(e)
      /\ \A x \in Touched(e) : working[h][x] \in Facing /\ FacingOK(working[h][x])
  BY <1>0 DEF IInv, TypeOK, CallOK, Fold
<1>6. /\ folded[h] \in Nat /\ i \in 1..Len(e.observations)
      /\ Len(e.observations) \in Nat
  BY <1>0, <1>1, <1>4 DEF IInv, TypeOK, Fold, DetectionEvent
<1>7. /\ s \in Signal /\ s.facing \in Touched(e)
      /\ s.facing = e.observations[i].facing /\ s.at = e.at /\ s.source = e.source
  BY <1>2, <1>4, <1>6, SignalOfType DEF SignalOf
<1>8. f \in Facing /\ FacingOK(f) BY <1>3, <1>5, <1>7
<1>9. /\ RecordSignal(f, s) \in Facing /\ SignalOutcome(f, s) # "threw"
      /\ RecordSignal(f, s).observed[s.source] >= s.at
      /\ Continues(RecordSignal(f, s), f)
  BY <1>7, <1>8, RecordSignalOK, RecordSignalEffect
<1>10. Within(h) /\ ledger' = ledger BY WithinSteps
<1>11. Current(h)' = e BY <1>0, <1>10 DEF Within, Current
<1>12. /\ pc'[h] = "fold" /\ folded'[h] = i /\ facings' = facings
       /\ \A x \in Touched(e) :
            working'[h][x] = IF x = s.facing THEN RecordSignal(f, s) ELSE working[h][x]
  BY <1>0, <1>1, <1>2, <1>3, <1>5, <1>9 DEF IInv, TypeOK, Fold, stores
<1>13. \A x \in Touched(e) :
         /\ working'[h][x] \in Facing
         /\ Continues(working'[h][x], working[h][x])
  BY <1>3, <1>5, <1>9, <1>12, ContinuesItself
<1>14. \A x \in Touched(e) : Continues(working'[h][x], facings'[<<e.retailer, x>>])
  <2> SUFFICES ASSUME NEW x \in Touched(e)
               PROVE  Continues(working'[h][x], facings[<<e.retailer, x>>])
    BY <1>12
  <2>1. Continues(working[h][x], facings[<<e.retailer, x>>])
    BY <1>0 DEF SerialInv, CallKeeps, Fold
  <2>2. facings[<<e.retailer, x>>] \in Facing
    BY <1>4, DeliverableType DEF IInv, TypeOK
  <2> QED BY <1>5, <1>13, <2>1, <2>2, ContinuesOn
<1>15. Settled' = Settled BY <1>12 DEF Settled, Applied
<1>16. \A x \in Touched(e) : Whole(<<e.retailer, x>>, working'[h][x], Settled' \cup {e})
  <2> SUFFICES ASSUME NEW x \in Touched(e)
               PROVE  Whole(<<e.retailer, x>>, working'[h][x], Settled \cup {e})
    BY <1>15
  <2>1. Whole(<<e.retailer, x>>, working[h][x], Settled \cup {e})
    BY <1>0 DEF SerialInv, CallKeeps, Fold
  <2>2. CASE x = s.facing
    <3>1. Whole(<<e.retailer, x>>, RecordSignal(f, SignalOf(e, i)), Settled \cup {e})
      BY <1>3, <1>4, <1>6, <1>7, <1>8, <2>1, <2>2, FoldedIsTold
    <3> QED BY <1>2, <1>12, <2>2, <3>1
  <2>3. CASE x # s.facing BY <1>12, <2>1, <2>3
  <2> QED BY <2>2, <2>3
<1>17. \A j \in 1..i : working'[h][e.observations[j].facing].observed[e.source] >= e.at
  <2> SUFFICES ASSUME NEW j \in 1..i
               PROVE  working'[h][e.observations[j].facing].observed[e.source] >= e.at
    OBVIOUS
  <2>1. CASE j = i BY <1>7, <1>9, <1>12, <2>1
  <2>2. CASE j # i
    <3> DEFINE x == e.observations[j].facing
    <3>1. x \in Touched(e) /\ j \in 1..folded[h]
      BY <1>1, <1>4, <1>6, <2>2, DeliverableType
    <3>2. working[h][x].observed[e.source] >= e.at
      BY <1>0, <3>1 DEF SerialInv, CallKeeps, Fold
    <3>3. working'[h][x].observed[e.source] >= working[h][x].observed[e.source]
      BY <1>4, <1>13, <3>1, DeliverableType DEF Continues
    <3> HIDE DEF x
    <3>4. /\ working'[h][x].observed[e.source] \in Int /\ e.at \in Int
          /\ working[h][x].observed[e.source] \in Int
      <4>1. working'[h][x] \in Facing /\ working[h][x] \in Facing BY <1>5, <1>13, <3>1
      <4>2. e.source \in SignalSource /\ e.at \in Int BY <1>4, DeliverableType DEF Instant
      <4> QED BY <4>1, <4>2 DEF Facing, Instant, NeverObserved
    <3>5. working'[h][x].observed[e.source] >= e.at BY <3>2, <3>3, <3>4
    <3> QED BY <3>5 DEF x
  <2> QED BY <2>1, <2>2
<1>18. CallKeeps(h)' BY <1>4, <1>11, <1>12, <1>14, <1>16, <1>17 DEF CallKeeps
<1> QED BY <1>10, <1>12, <1>18, WithinKeeps

LEMMA StampKeeps ==
    ASSUME IInv, SerialInv, NEW h \in Handler, NEW now \in Clock, StampAcceptance(h, now)
    PROVE  SerialInv'
<1>1. Within(h) /\ ledger' = ledger BY WithinSteps
<1>2. Current(h)' = Current(h) BY <1>1 DEF Within, Current
<1>3. /\ pc[h] = "fold" /\ pc'[h] = "save" /\ folded[h] = Len(Current(h).observations)
      /\ facings' = facings /\ working' = working /\ folded' = folded
  BY DEF IInv, TypeOK, StampAcceptance, stores
<1>4. \A e : Applied(e)' <=> Applied(e) BY <1>3 DEF Applied
<1>5. Settled' = Settled BY <1>4 DEF Settled
<1>6. CallKeeps(h)' BY <1>2, <1>3, <1>5 DEF SerialInv, CallKeeps
<1> QED BY <1>1, <1>3, <1>6, WithinKeeps

\* What a save stores is what its facings were, continued.
LEMMA SaveContinues ==
    ASSUME IInv, SerialInv, NEW h \in Handler, Save(h)
    PROVE  /\ FacingsGrow
           /\ facings' \in [Onboarded -> Facing]
           /\ \A p \in Onboarded \ Held(h) : facings'[p] = facings[p]
           /\ \A f \in Touched(Current(h)) :
                facings'[<<Current(h).retailer, f>>] = working[h][f]
<1>0. PICK e : e = Current(h) OBVIOUS
<1>1. /\ e \in Deliverable /\ \A f \in Touched(e) : <<e.retailer, f>> \in Onboarded
  BY <1>0, DeliverableType DEF SerialInv, CallKeeps, Save
<1>2. /\ DOMAIN working[h] = Touched(e)
      /\ \A x \in Touched(e) : working[h][x] \in Facing
  BY <1>0 DEF IInv, TypeOK, CallOK, Save
<1>3. \A p \in Onboarded : facings'[p] = IF p[1] = e.retailer /\ p[2] \in Touched(e)
                                         THEN working[h][p[2]] ELSE facings[p]
  BY <1>0, <1>2 DEF Save
<1>4. facings' \in [Onboarded -> Facing]
  BY <1>2, <1>3 DEF IInv, TypeOK, Save
<1>5. \A p \in Onboarded : p = <<p[1], p[2]>> BY IngestionAssumption
<1>6. FacingsGrow
  <2> SUFFICES ASSUME NEW p \in Onboarded PROVE Continues(facings'[p], facings[p])
    BY DEF FacingsGrow
  <2>1. CASE p[1] = e.retailer /\ p[2] \in Touched(e)
    <3>1. Continues(working[h][p[2]], facings[<<e.retailer, p[2]>>])
      BY <1>0, <2>1 DEF SerialInv, CallKeeps, Save
    <3> QED BY <1>3, <1>5, <2>1, <3>1
  <2>2. CASE ~(p[1] = e.retailer /\ p[2] \in Touched(e))
    BY <1>3, <2>2, ContinuesItself DEF IInv, TypeOK
  <2> QED BY <2>1, <2>2
<1>7. \A p \in Onboarded \ Held(h) : facings'[p] = facings[p]
  BY <1>0, <1>3, <1>5 DEF Held, Save
<1>8. \A f \in Touched(e) : facings'[<<e.retailer, f>>] = working[h][f]
  BY <1>1, <1>3
<1> QED BY <1>0, <1>4, <1>6, <1>7, <1>8

LEMMA SaveKeeps ==
    ASSUME IInv, SerialInv, HeldApart, NEW h \in Handler, Save(h)
    PROVE  SerialInv'
<1>0. PICK e : e = Current(h) OBVIOUS
<1>1. /\ e \in Deliverable /\ e \in DetectionEvent
      /\ folded[h] = Len(e.observations)
  BY <1>0, DeliverableType DEF SerialInv, CallKeeps, Save
<1>2. Within(h) /\ ledger' = ledger BY WithinSteps
<1>3. Current(h)' = e BY <1>0, <1>2 DEF Within, Current
<1>4. FacingsGrow /\ facings' \in [Onboarded -> Facing] BY SaveContinues
<1>5. \A f \in Touched(e) : facings'[<<e.retailer, f>>] = working[h][f]
  BY <1>0, SaveContinues
<1>6. Applied(e)'
  <2>1. \A f \in Touched(e) : \E i \in 1..folded[h] : f = e.observations[i].facing
    BY <1>1 DEF Touched
  <2>2. \A f \in Touched(e) : working[h][f].observed[e.source] >= e.at
    BY <1>0, <2>1 DEF SerialInv, CallKeeps, Save
  <2>3. \A f \in Touched(e) : <<e.retailer, f>> \in Onboarded BY <1>1, DeliverableType
  <2> QED BY <1>5, <2>2, <2>3 DEF Applied
<1>7. \A d \in Deliverable : WasAccepted(d)' => Applied(d)'
  BY <1>2, <1>4, SettledStays DEF SerialInv, AcceptedIsApplied, WasAccepted
<1>8. Settled \cup {e} \subseteq Settled'
  <2>1. Settled \subseteq Settled' BY <1>4, SettledGrows
  <2> QED BY <1>1, <1>6, <2>1 DEF Settled
<1>9. \A p \in Onboarded : Whole(p, facings[p], Settled)'
  <2> SUFFICES ASSUME NEW p \in Onboarded PROVE Whole(p, facings'[p], Settled')
    BY DEF Whole
  <2>1. CASE p \in Held(h)
    <3>1. PICK f \in Touched(e) : p = <<e.retailer, f>> BY <1>0, <2>1 DEF Held, Save
    <3>2. Whole(p, working[h][f], Settled \cup {e})
      BY <1>0, <3>1 DEF SerialInv, CallKeeps, Save
    <3> QED BY <1>5, <1>8, <3>1, <3>2 DEF Whole
  <2>2. CASE p \notin Held(h)
    BY <1>8, <2>2, SaveContinues DEF SerialInv, Whole
  <2> QED BY <2>1, <2>2
<1>10. CallKeeps(h)'
  <2>1. pc'[h] = "record" BY DEF IInv, TypeOK, Save
  <2>2. Applied(Current(h))' BY <1>3, <1>6 DEF Applied
  <2> QED BY <1>1, <1>3, <2>1, <2>2 DEF CallKeeps
<1>11. ASSUME NEW g \in Handler \ {h} PROVE CallKeeps(g)'
  <2>1. \A p \in Held(g) : p \in Onboarded
    <3>1. pc[g] \in {"fold", "save"} => Current(g) \in Deliverable
      BY DEF SerialInv, CallKeeps
    <3> QED BY <3>1, DeliverableType DEF Held
  <2>2. \A p \in Held(g) : facings'[p] = facings[p]
    BY <2>1, SaveContinues DEF HeldApart
  <2> QED BY <1>2, <1>4, <2>2, OtherCallKeeps DEF Within, SerialInv
<1> QED BY <1>7, <1>9, <1>10, <1>11 DEF SerialInv, AcceptedIsApplied

LEMMA SerialNext ==
    ASSUME KeysAreUnique, IInv, IInv', SerialInv, HeldApart, [Next]_vars
    PROVE  SerialInv' /\ FacingsGrow
<1>1. ASSUME NEW h \in Handler,
             \/ \E b \in Batches : Submit(h, b)
             \/ Refuse(h) \/ AnswerDuplicate(h) \/ StartIngest(h) \/ RejectUnknownFacing(h)
             \/ Record(h) \/ Return(h) \/ Crash(h)
      PROVE  SerialInv' /\ FacingsGrow
  <2>1. Aside(h) BY <1>1, AsideSteps
  <2>2. ledger' = ledger \/ Record(h)
    BY <1>1 DEF Submit, Refuse, AnswerDuplicate, StartIngest, RejectUnknownFacing, Return,
                Crash, stores
  <2> QED BY <2>1, <2>2, AsideKeeps, FacingsStayed DEF IInv, Aside
<1>2. ASSUME NEW h \in Handler, Load(h) PROVE SerialInv' /\ FacingsGrow
  BY <1>2, LoadKeeps, FacingsStayed DEF Load, stores
<1>3. ASSUME NEW h \in Handler, Fold(h) PROVE SerialInv' /\ FacingsGrow
  BY <1>3, FoldKeeps, FacingsStayed DEF Fold, stores
<1>4. ASSUME NEW h \in Handler, NEW now \in Clock, StampAcceptance(h, now)
      PROVE  SerialInv' /\ FacingsGrow
  BY <1>4, StampKeeps, FacingsStayed DEF StampAcceptance, stores
<1>5. ASSUME NEW h \in Handler, Save(h) PROVE SerialInv' /\ FacingsGrow
  BY <1>5, SaveKeeps, SaveContinues
<1>6. CASE UNCHANGED vars
  <2>1. \A e : Applied(e)' <=> Applied(e) BY <1>6 DEF vars, Applied
  <2>2. Settled' = Settled BY <2>1 DEF Settled
  <2>3. FacingsGrow BY <1>6, FacingsStayed DEF vars
  <2>4. \A g \in Handler : CallKeeps(g)'
    <3>1. \A g \in Handler : SameCall(g) BY <1>6 DEF vars, SameCall
    <3> QED BY <1>6, <2>3, <3>1, OtherCallKeeps DEF vars, SerialInv, IInv, TypeOK
  <2>5. \A p \in Onboarded : Whole(p, facings[p], Settled)'
    BY <1>6, <2>2 DEF vars, SerialInv, Whole
  <2>6. AcceptedIsApplied'
    BY <1>6, <2>1 DEF vars, SerialInv, AcceptedIsApplied, WasAccepted
  <2> QED BY <2>3, <2>4, <2>5, <2>6 DEF SerialInv
<1> QED BY <1>1, <1>2, <1>3, <1>4, <1>5, <1>6 DEF Next, Work

\* The serial invariant, and nothing taken back, as long as calls hold facings apart.
THEOREM SerialInvariance ==
    ASSUME KeysAreUnique
    PROVE  Spec /\ []HeldApart => []SerialInv /\ [][FacingsGrow]_vars
<1>1. IInv /\ IInv' /\ HeldApart /\ SerialInv /\ [Next]_vars => SerialInv' /\ FacingsGrow
  BY SerialNext
<1>2. Init => SerialInv BY SettledInit
<1> QED BY Invariance, <1>1, <1>2, PTL DEF Spec

\* No silently dropped observation: what the ledger calls accepted has reached every
\* facing it observed, across any crashes.
THEOREM AcceptedReachesFacings ==
    ASSUME KeysAreUnique
    PROVE  Spec /\ []HeldApart => []AcceptedIsApplied
<1>1. SerialInv => AcceptedIsApplied BY DEF SerialInv
<1> QED BY SerialInvariance, <1>1, PTL

\* An event is one decision about a bay, stored wholly or not at all: what moved a
\* facing is the event of a call that passed every check and found every facing, and
\* no other event has its key.
THEOREM EventsAreAtomic ==
    ASSUME KeysAreUnique
    PROVE  Spec /\ []HeldApart => []NeverHalfApplied
<1>1. SerialInv => NeverHalfApplied
  <2> SUFFICES ASSUME SerialInv, NEW e \in Submitted, NEW p \in Onboarded,
                      NEW i \in 1..Len(facings[p].history.events), p[1] = e.retailer,
                      facings[p].history.events[i].cause[1] = e.id
               PROVE  Applied(e)
    BY DEF NeverHalfApplied, HasMoved
  <2>1. PICK d \in Settled : Tells(facings[p].history.events[i], p, d)
    BY DEF SerialInv, Whole
  <2>2. KeyOf(d) = KeyOf(e) BY <2>1 DEF Tells, KeyOf
  <2>3. d \in Submitted /\ Applied(d) BY DeliverableSubmitted DEF Settled
  <2> QED BY <2>2, <2>3 DEF KeysAreUnique
<1> QED BY SerialInvariance, <1>1, PTL

\* Stored histories only grow, and no source's snapshot goes back in time.
THEOREM HistoriesAreAppendOnly ==
    ASSUME KeysAreUnique
    PROVE  Spec /\ []HeldApart => AppendOnly
<1>1. FacingsGrow => \A p \in Onboarded : Continues(facings'[p], facings[p])
  BY DEF FacingsGrow
<1> QED BY SerialInvariance, <1>1, PTL DEF AppendOnly

----------------------------------------------------------------------------
(***************************************************************************)
(* Replays.                                                                *)
(***************************************************************************)

\* An observation that is folded again finds its own transition in the log, and then
\* is stale or reaffirms it.
LEMMA FoldExplained ==
    ASSUME KeysAreUnique, DatedApart, NEW e \in Deliverable,
           NEW i \in 1..Len(e.observations), NEW f \in Facing, FacingOK(f),
           NEW p, p = <<e.retailer, e.observations[i].facing>>, Explained(p, f)
    PROVE  Explained(p, RecordSignal(f, SignalOf(e, i)))
<1>0. PICK s : s = SignalOf(e, i) OBVIOUS
<1>1. PICK v : v = TransitionEvent(f, s) OBVIOUS
<1>2. PICK old : old = f.history.events OBVIOUS
<1>3. PICK g : g = RecordSignal(f, s) OBVIOUS
<1>4. e \in DetectionEvent /\ s \in Signal /\ e.at \in Nat
  BY <1>0, DeliverableType, SignalOfType DEF Instant
<1>5. Whole(p, g, Deliverable)
  BY <1>0, <1>3, <1>4, FoldedIsTold DEF Explained
<1>6. CASE g.history = f.history
  <2>1. Explained(p, g) BY <1>5, <1>6 DEF Explained
  <2> QED BY <1>0, <1>3, <2>1
<1>7. CASE /\ g.history = AppendEvent(f.history, v)
           /\ v \in FacingStateEvent /\ CanAppend(f.history, v)
  <2>1. f.history \in History /\ old \in Seq(FacingStateEvent)
    BY <1>2 DEF Facing, History
  <2>2. g.history.events = Append(old, v) BY <1>2, <1>7, <2>1 DEF AppendEvent, History
  <2>3. LatestInstant(g.history) = v.at
    BY <1>7, <2>1, AppendKeepsHistory DEF FacingOK
  <2>4. PICK n \in Nat : n = Len(old) BY <2>1
  <2>5. /\ Len(g.history.events) = n + 1 /\ g.history.events[n + 1] = v
        /\ \A j \in 1..n : g.history.events[j] = old[j]
    BY <1>7, <2>1, <2>2, <2>4
  <2>6. /\ v.at = e.at /\ v.cause = <<e.id, i>>
        /\ v.to = StockCall(e.observations[i].reading)
    BY <1>0, <1>1 DEF TransitionEvent, SignalOf
  <2>7. v.at >= LatestInstant(f.history) /\ v.from = CurrentState(f.history) /\ v.from # v.to
    BY <1>7 DEF CanAppend
  <2>8. \A j \in 1..n : old[j].at \in Nat /\ old[j].at <= LatestInstant(f.history)
    <3>1. \A j \in 1..n : old[j] \in FacingStateEvent BY <2>1, <2>4
    <3> QED BY <1>2, <2>4, <3>1 DEF Explained, FacingStateEvent, Instant
  <2>9. n > 0 => /\ n \in 1..n /\ LatestInstant(f.history) = old[n].at
                 /\ CurrentState(f.history) = old[n].to
    BY <1>2, <2>4 DEF LatestInstant, CurrentState, LastEvent
  <2>10. ASSUME NEW j \in 1..n PROVE old[j].at <= v.at
    BY <1>4, <2>6, <2>7, <2>8, <2>9
  <2>11. ASSUME NEW j \in 1..n, old[j].cause = v.cause PROVE FALSE
    <3>1. PICK d \in Deliverable : Tells(old[j], p, d)
      BY <1>2, <2>4 DEF Explained, Whole
    <3>2. d.retailer = e.retailer /\ d.id = e.id /\ old[j].at = d.at
      BY <2>6, <2>11, <3>1 DEF Tells
    <3>3. old[j].at = e.at BY <3>2, DeliverableSubmitted DEF KeysAreUnique, KeyOf
    <3>4. n > 0 BY <2>4
    <3>5. old[n].at = e.at BY <2>6, <2>7, <2>8, <2>9, <3>3, <3>4, <1>4
    <3>6. PICK c \in Deliverable : Tells(old[n], p, c)
      BY <1>2, <2>4, <2>9, <3>4 DEF Explained, Whole
    <3>7. PICK k \in 1..Len(c.observations) :
            /\ c.observations[k].facing = e.observations[i].facing
            /\ old[n].to = StockCall(c.observations[k].reading)
      BY <3>6 DEF Tells
    <3>8. c.retailer = e.retailer /\ c.at = e.at BY <3>5, <3>6 DEF Tells
    <3>9. Touched(c) \cap Touched(e) # {} BY <3>7, DeliverableType
    <3>10. c = e BY <3>8, <3>9 DEF DatedApart
    <3>11. k = i BY <3>7, <3>10 DEF DatedApart
    <3> QED BY <2>6, <2>7, <2>9, <3>4, <3>7, <3>10, <3>11
  <2>12. \A j \in 1..Len(g.history.events) : g.history.events[j].at <= LatestInstant(g.history)
    BY <1>4, <2>3, <2>4, <2>5, <2>6, <2>10
  <2>13. \A j, k \in 1..n : old[j].cause = old[k].cause => j = k
    BY <1>2, <2>4 DEF Explained
  <2>14. ASSUME NEW j \in 1..(n + 1), NEW k \in 1..(n + 1),
                g.history.events[j].cause = g.history.events[k].cause
         PROVE  j = k
    <3>1. (j \in 1..n \/ j = n + 1) /\ (k \in 1..n \/ k = n + 1) BY <2>4
    <3> QED BY <2>5, <2>11, <2>13, <2>14, <3>1
  <2>15. Explained(p, g) BY <1>5, <2>5, <2>12, <2>14 DEF Explained
  <2> QED BY <1>0, <1>3, <2>15
<1>8. \/ g.history = f.history
      \/ /\ g.history = AppendEvent(f.history, v)
         /\ v \in FacingStateEvent /\ CanAppend(f.history, v)
  BY <1>1, <1>3, <1>4, RecordSignalEffect
<1> QED BY <1>0, <1>3, <1>6, <1>7, <1>8

ReplayKeeps(h) ==
    pc[h] \in {"fold", "save", "record"} =>
      /\ Current(h) \in Deliverable
      /\ \A f \in DOMAIN working[h] : Explained(<<Current(h).retailer, f>>, working[h][f])

\* What is left to show of a step that leaves the repository alone.
LEMMA ReplayFrame ==
    ASSUME ReplayInv, NEW h \in Handler, \A g \in Handler \ {h} : SameCall(g),
           \A p \in Onboarded : Explained(p, facings'[p]), ReplayKeeps(h)'
    PROVE  ReplayInv'
<1>1. ASSUME NEW g \in Handler \ {h} PROVE ReplayKeeps(g)'
  <2>1. ReplayKeeps(g) BY DEF ReplayInv, ReplayKeeps
  <2>2. Current(g)' = Current(g) BY SameCurrent
  <2> QED BY <2>1, <2>2 DEF SameCall, ReplayKeeps
<1>2. \A g \in Handler : ReplayKeeps(g)' BY <1>1
<1>3. \A p \in Onboarded : Explained(p, facings[p])' BY DEF Explained, Whole
<1> QED BY <1>2, <1>3 DEF ReplayInv, ReplayKeeps

LEMMA ReplayNext ==
    ASSUME KeysAreUnique, DatedApart, IInv, ReplayInv, [Next]_vars
    PROVE  ReplayInv'
<1>0. ASSUME facings' = facings PROVE \A p \in Onboarded : Explained(p, facings'[p])
  BY <1>0 DEF ReplayInv
<1>1. ASSUME NEW h \in Handler,
             \/ \E b \in Batches : Submit(h, b)
             \/ Refuse(h) \/ AnswerDuplicate(h) \/ StartIngest(h) \/ RejectUnknownFacing(h)
             \/ Record(h) \/ Return(h) \/ Crash(h)
      PROVE  ReplayInv'
  <2>1. Aside(h) BY <1>1, AsideSteps
  <2> QED BY <1>0, <2>1, ReplayFrame DEF Aside, ReplayKeeps
<1>2. ASSUME NEW h \in Handler, Load(h) PROVE ReplayInv'
  <2>0. PICK e : e = Current(h) OBVIOUS
  <2>1. e \in Deliverable BY <1>2, <2>0, LoadedIsDeliverable
  <2>2. Within(h) BY <1>2, WithinSteps
  <2>3. Current(h)' = e BY <2>0, <2>2 DEF Within, Current
  <2>4. /\ facings' = facings
        /\ working'[h] = [f \in Touched(e) |-> facings[<<e.retailer, f>>]]
    BY <1>2, <2>0 DEF IInv, TypeOK, Load, stores
  <2>5. \A f \in DOMAIN working'[h] : Explained(<<e.retailer, f>>, working'[h][f])
    BY <2>1, <2>4, DeliverableType DEF ReplayInv
  <2>6. ReplayKeeps(h)' BY <2>1, <2>3, <2>5 DEF ReplayKeeps
  <2> QED BY <1>0, <2>2, <2>4, <2>6, ReplayFrame DEF Within
<1>3. ASSUME NEW h \in Handler, Fold(h) PROVE ReplayInv'
  <2>0. PICK e : e = Current(h) OBVIOUS
  <2>1. PICK i : i = folded[h] + 1 OBVIOUS
  <2>2. PICK x : x = e.observations[i].facing OBVIOUS
  <2>3. e \in Deliverable /\ e \in DetectionEvent
    BY <1>3, <2>0, DeliverableType DEF ReplayInv, Fold
  <2>4. /\ DOMAIN working[h] = Touched(e)
        /\ \A y \in Touched(e) : working[h][y] \in Facing /\ FacingOK(working[h][y])
    BY <1>3, <2>0 DEF IInv, TypeOK, CallOK, Fold
  <2>5. i \in 1..Len(e.observations) /\ x \in Touched(e)
    <3>1. folded[h] \in Nat /\ Len(e.observations) \in Nat
      BY <2>3 DEF IInv, TypeOK, DetectionEvent
    <3>2. i \in 1..Len(e.observations) BY <1>3, <2>0, <2>1, <3>1 DEF Fold
    <3> QED BY <2>2, <2>3, <3>2, DeliverableType
  <2>6. Within(h) BY <1>3, WithinSteps
  <2>7. Current(h)' = e BY <2>0, <2>6 DEF Within, Current
  <2>8. /\ facings' = facings
        /\ DOMAIN working'[h] = Touched(e)
        /\ \A y \in Touched(e) :
             working'[h][y] = IF y = x THEN RecordSignal(working[h][x], SignalOf(e, i))
                              ELSE working[h][y]
    <3>1. SignalOf(e, i).facing = x BY <2>2 DEF SignalOf
    <3> QED BY <1>3, <2>0, <2>1, <2>4, <3>1 DEF IInv, TypeOK, Fold, stores
  <2>9. \A y \in Touched(e) : Explained(<<e.retailer, y>>, working[h][y])
    BY <1>3, <2>0, <2>4 DEF ReplayInv, Fold
  <2>10. \A y \in DOMAIN working'[h] : Explained(<<e.retailer, y>>, working'[h][y])
    BY <2>2, <2>3, <2>4, <2>5, <2>8, <2>9, FoldExplained
  <2>11. ReplayKeeps(h)' BY <2>3, <2>7, <2>10 DEF ReplayKeeps
  <2> QED BY <1>0, <2>6, <2>8, <2>11, ReplayFrame DEF Within
<1>4. ASSUME NEW h \in Handler, NEW now \in Clock, StampAcceptance(h, now)
      PROVE  ReplayInv'
  <2>1. Within(h) BY <1>4, WithinSteps
  <2>2. Current(h)' = Current(h) BY <2>1 DEF Within, Current
  <2>3. facings' = facings /\ working' = working /\ pc[h] = "fold"
    BY <1>4 DEF StampAcceptance, stores
  <2>4. ReplayKeeps(h)' BY <2>2, <2>3 DEF ReplayInv, ReplayKeeps
  <2> QED BY <1>0, <2>1, <2>3, <2>4, ReplayFrame DEF Within
<1>5. ASSUME NEW h \in Handler, Save(h) PROVE ReplayInv'
  <2>1. Within(h) BY <1>5, WithinSteps
  <2>2. Current(h)' = Current(h) BY <2>1 DEF Within, Current
  <2>3. working' = working /\ pc[h] = "save" BY <1>5 DEF Save
  <2>4. ReplayKeeps(h)' BY <2>2, <2>3 DEF ReplayInv, ReplayKeeps
  <2>5. ASSUME NEW p \in Onboarded PROVE Explained(p, facings'[p])
    <3>1. p = <<p[1], p[2]>> BY IngestionAssumption
    <3>2. CASE p[1] = Current(h).retailer /\ p[2] \in DOMAIN working[h]
      <4>1. facings'[p] = working[h][p[2]] BY <1>5, <3>2 DEF Save
      <4>2. Explained(<<Current(h).retailer, p[2]>>, working[h][p[2]])
        BY <2>3, <3>2 DEF ReplayInv
      <4> QED BY <3>1, <3>2, <4>1, <4>2
    <3>3. CASE ~(p[1] = Current(h).retailer /\ p[2] \in DOMAIN working[h])
      <4>1. facings'[p] = facings[p] BY <1>5, <3>3 DEF Save
      <4> QED BY <4>1 DEF ReplayInv
    <3> QED BY <3>2, <3>3
  <2> QED BY <2>1, <2>4, <2>5, ReplayFrame DEF Within
<1>6. CASE UNCHANGED vars
  <2>1. \A g \in Handler : ReplayKeeps(g)'
    <3> SUFFICES ASSUME NEW g \in Handler PROVE ReplayKeeps(g)'
      OBVIOUS
    <3>1. Current(g)' = Current(g) BY <1>6 DEF vars, Current
    <3> QED BY <1>6, <3>1 DEF vars, ReplayInv, ReplayKeeps
  <2> QED BY <1>6, <2>1 DEF vars, ReplayInv, ReplayKeeps
<1> QED BY <1>1, <1>2, <1>3, <1>4, <1>5, <1>6 DEF Next, Work

\* "A replay is a no-op", however calls interleave and die, when no two events about
\* a facing bear one date: an observation causes at most one transition.
THEOREM ReplaysChangeNothing ==
    ASSUME KeysAreUnique, DatedApart
    PROVE  Spec => []ReplayIsNoOp
<1>1. Init => ReplayInv
  <2> SUFFICES ASSUME Init PROVE ReplayInv
    OBVIOUS
  <2>1. \A p \in Onboarded : facings[p].history.events = <<>> BY DEF Init, CreateFacing
  <2> QED BY <2>1 DEF Init, ReplayInv, Explained, Whole
<1>2. IInv /\ ReplayInv /\ [Next]_vars => ReplayInv' BY ReplayNext
<1>3. ReplayInv => ReplayIsNoOp BY DEF ReplayInv, Explained, ReplayIsNoOp
<1> QED BY Invariance, <1>1, <1>2, <1>3, PTL DEF Spec
=============================================================================
