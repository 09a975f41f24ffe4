----------------------------- MODULE Reporting -----------------------------
(***************************************************************************)
(* The read side: availability reports, paged listings and sealed audit    *)
(* artifacts, over a store that goes on changing (adapters/reporting,      *)
(* domain/audit).  Sealing is split at its awaits.  A facing is a number,  *)
(* its id; a scope names the facings its stores and products select.       *)
(***************************************************************************)
EXTENDS OutcomeMetrics

CONSTANTS
    Facing,
    AisleOf,      \* the aisle of a facing
    Retained,     \* the histories there are to begin with
    Scopes,       \* what may be exported: [facings, period]
    Formats,      \* of "application/json", "application/x-ndjson" and "text/csv"
    MaxAt,        \* the last instant an event may have
    MaxEvents,    \* how many events a facing gets
    MaxEntries,   \* how many entries the trail
    MaxSeals,     \* how many artifacts are sealed
    PageLimit

\* A facing is known by its id, a time window does not end before it begins, and a
\* history is in time.
Event   == [at : Int, to : States, signal : Facing \X Nat]
History == [initialState : States, events : Seq(Event)]

ASSUME ReportingAssumption ==
    /\ Facing \subseteq Nat
    /\ Scopes \subseteq [facings : SUBSET Facing, period : [from : Nat, to : Nat]]
    /\ \A scope \in Scopes : /\ IsFiniteSet(scope.facings)
                             /\ scope.period.from <= scope.period.to
    /\ Retained \in [Facing -> History]
    /\ \A f \in Facing : \A i, j \in DOMAIN Retained[f].events :
          i <= j => Retained[f].events[i].at <= Retained[f].events[j].at
    /\ {MaxAt, PageLimit} \subseteq Int

VARIABLES
    histories,    \* the history of each facing, which ingestion appends to
    trail,        \* the instants of the audit entries
    retainedFrom, \* the earliest instant still exportable
    forgotten,    \* the signals whose producer is no longer known
    bodies,       \* the artifact store: bodies and manifests by artifact id
    manifests,
    call,         \* a sealArtifact call under way
    sealed,       \* how many calls there were
    reader        \* somebody paging through a listing
storeVars     == <<histories, trail, retainedFrom, forgotten>>
artifactVars  == <<bodies, manifests, call, sealed>>
reportingVars == <<storeVars, artifactVars, reader>>

----------------------------------------------------------------------------
\* One facing's row.  A gap is a transition into out-of-stock, not an empty facing.
AvailabilityRecordFor(f, h, w) ==
    LET available == ComputeFacingAvailability(TimelineFor(h, w), w)
        events    == EventsWithin(h, w)
    IN  [facing |-> f, startedAs |-> StateAt(h, w.from), endedAs |-> StateAt(h, w.to),
         inStock |-> available.inStock, measured |-> available.measured,
         unknown |-> available.unknown,
         gapCount |-> Cardinality({i \in DOMAIN events : events[i].to = "out_of_stock"})]

\* Orders of a listing.  An index that was not measured is last in both directions,
\* and the facing's id breaks every tie.
Sorts == {"index_asc", "index_desc", "out_of_stock_millis_desc", "gap_count_desc", "coverage_asc"}

Above(a, b, sort) ==
    LET Measured(r) == r.measured # 0
        index       == a.inStock * b.measured - b.inStock * a.measured
    IN  CASE sort = "index_asc"  -> IF Measured(a) /\ Measured(b) THEN index < 0
                                    ELSE Measured(a) /\ ~Measured(b)
          [] sort = "index_desc" -> IF Measured(a) /\ Measured(b) THEN index > 0
                                    ELSE Measured(a) /\ ~Measured(b)
          [] sort = "out_of_stock_millis_desc" -> a.measured - a.inStock > b.measured - b.inStock
          [] sort = "gap_count_desc" -> a.gapCount > b.gapCount
          [] sort = "coverage_asc"   -> a.measured < b.measured

\* Mutant: rows that tie stay in the order they were read in.
MutantNoTieBreak(records, sort) ==
    Arranged(records, {p \in Pairs(records) : Above(records[p[1]], records[p[2]], sort)})

Precedes(a, b, sort) == Above(a, b, sort) \/ (~Above(b, a, sort) /\ a.facing < b.facing)

SortAvailabilityRecords(records, sort) ==
    Arranged(records, {p \in Pairs(records) : Precedes(records[p[1]], records[p[2]], sort)})

IndexPointFor(hs, facings, w) ==
    LET order == SetToSeq(facings)
    IN  ComputeAvailabilityIndex([i \in DOMAIN order |-> TimelineFor(hs[order[i]], w)], w)

AvailabilityIndexReport(hs, facings, w, step) ==
    LET buckets  == BucketsFor(w, step)
        in(aisle) == {f \in facings : AisleOf[f] = aisle}
    IN  [overall    |-> IndexPointFor(hs, facings, w),
         series     |-> [i \in DOMAIN buckets |-> IndexPointFor(hs, facings, buckets[i])],
         breakdowns |-> [aisle \in {AisleOf[f] : f \in facings} |->
                            IndexPointFor(hs, in(aisle), w)]]

----------------------------------------------------------------------------
\* A page from an offset, and the offset of the next one (Null after the last).
PageOf(items, cursor, limit) ==
    LET offset == Max({0, cursor})
        slice  == SubSeq(items, offset + 1, Min({offset + Max({1, limit}), Len(items)}))
        next   == offset + Len(slice)
    IN  [items |-> slice, nextCursor |-> IF next < Len(items) THEN next ELSE Null,
         total |-> Len(items)]

\* A requested period, cut to what is still retained.
RetainedPeriod(period, retained) ==
    Window(Min({Max({period.from, retained}), period.to}), period.to)

AuditRecordFor(f, h, period, lost) ==
    LET available == ComputeFacingAvailability(TimelineFor(h, period), period)
        events    == EventsWithin(h, period)
    IN  [facing |-> f, period |-> period, stateAtPeriodStart |-> StateAt(h, period.from),
         transitions |-> [i \in DOMAIN events |->
             [at |-> events[i].at, to |-> events[i].to, signal |-> events[i].signal,
              traced |-> events[i].signal \notin lost]],
         inStock |-> available.inStock, measured |-> available.measured,
         unknown |-> available.unknown]

\* Mutant: the order the store read them in is kept.
MutantAsRead(records) == records

SortAuditRecords(records) ==
    Arranged(records, {p \in Pairs(records) : records[p[1]].facing < records[p[2]].facing})

\* A spreadsheet has a row per facing and counts its transitions; the other formats
\* carry the records whole.
RenderArtifactBody(records, format) ==
    [format |-> format,
     rows |-> IF format # "text/csv" THEN SortAuditRecords(records)
              ELSE [i \in DOMAIN records |->
                      [SortAuditRecords(records)[i] EXCEPT !.transitions = Len(@)]]]

\* The hash of a body stands for the body: two bodies with one hash are one body.
Sha256(body) == body

\* An artifact is addressed by its content, whatever was asked.
MintArtifactId(scope, contentHash) == contentHash

\* The store returns the facings of a scope in any order.
ReadOrders(facings) ==
    {order \in [1..Cardinality(facings) -> facings] : ToSet(order) = facings}

AuditRecords(order, hs, period, lost) ==
    SortAuditRecords([i \in DOMAIN order |->
        AuditRecordFor(order[i], hs[order[i]], period, lost)])

----------------------------------------------------------------------------
\* A call knows what it was asked, and what it has read and made of it so far.
NoCallYet == [at |-> "idle", format |-> Null, scope |-> Null, period |-> Null,
              order |-> Null, read |-> Null, records |-> Null, body |-> Null]

ReportingInit ==
    /\ histories = Retained
    /\ trail = <<>> /\ retainedFrom = 0 /\ forgotten = {}
    /\ bodies = <<>> /\ manifests = <<>> /\ sealed = 0
    /\ call = NoCallYet
    /\ reader = [listing |-> "none", cursor |-> Null]

\* The rest of the service goes on writing: a history and the trail only grow, and
\* never backwards.
LastAt(h) == IF h.events = <<>> THEN 0 ELSE Last(h.events).at

Ingest(f) ==
    LET h == histories[f]
    IN  /\ Len(h.events) < MaxEvents
        /\ \E at \in LastAt(h)..MaxAt, to \in {"in_stock", "out_of_stock"} :
              /\ to # StateAt(h, MaxAt)
              /\ histories' = [histories EXCEPT ![f].events =
                     Append(@, [at |-> at, to |-> to, signal |-> <<f, Len(@) + 1>>])]
        /\ UNCHANGED <<trail, retainedFrom, forgotten>>

AppendAudit ==
    /\ Len(trail) < MaxEntries
    /\ \E at \in (IF trail = <<>> THEN 0 ELSE Last(trail))..MaxAt : trail' = Append(trail, at)
    /\ UNCHANGED <<histories, retainedFrom, forgotten>>

AgesOut ==
    /\ retainedFrom < MaxAt /\ retainedFrom' = retainedFrom + 1
    /\ UNCHANGED <<histories, trail, forgotten>>

ForgetProducers ==
    /\ forgotten' = {e.signal : e \in UNION {ToSet(histories[f].events) : f \in Facing}}
    /\ forgotten' # forgotten
    /\ UNCHANGED <<histories, trail, retainedFrom>>

----------------------------------------------------------------------------
\* sealArtifact asks for what is retained, and answers for that period from here on.
SealArtifact ==
    /\ call.at = "idle" /\ sealed < MaxSeals
    /\ \E scope \in Scopes, format \in Formats :
          call' = [NoCallYet EXCEPT !.at = "scoped", !.format = format,
                     !.scope = [scope EXCEPT !.period = RetainedPeriod(@, retainedFrom)]]
    /\ sealed' = sealed + 1
    /\ UNCHANGED <<bodies, manifests>>

\* auditRecordsFor asks again, reads the facings, then who stood behind their events.
RetainAgain ==
    /\ call.at = "scoped"
    /\ call' = [call EXCEPT !.at = "retained",
                            !.period = RetainedPeriod(call.scope.period, retainedFrom)]
    /\ UNCHANGED <<bodies, manifests, sealed>>

ReadFacings ==
    /\ call.at = "retained"
    /\ \E order \in ReadOrders(call.scope.facings) :
          call' = [call EXCEPT !.at = "read", !.order = order, !.read = histories]
    /\ UNCHANGED <<bodies, manifests, sealed>>

Render ==
    /\ call.at = "read"
    /\ LET records == AuditRecords(call.order, call.read, call.period, forgotten)
       IN  call' = [call EXCEPT !.at = "rendered", !.records = records,
                                !.body = RenderArtifactBody(records, call.format)]
    /\ UNCHANGED <<bodies, manifests, sealed>>

ArtifactId == MintArtifactId(call.scope, Sha256(call.body))

\* A store with one more entry, or another under the same id.
With(store, id, value) ==
    [i \in DOMAIN store \cup {id} |-> IF i = id THEN value ELSE store[i]]

Put ==
    /\ call.at = "rendered"
    /\ bodies' = With(bodies, ArtifactId, call.body)
    /\ call' = [call EXCEPT !.at = "stored"]
    /\ UNCHANGED <<manifests, sealed>>

Total(records, key) == SumFunction([i \in DOMAIN records |-> records[i][key]])

Figures(records, period) ==
    [inStock |-> Total(records, "inStock"), measured |-> Total(records, "measured"),
     facingCount |-> Len(records),
     coverage |-> Fraction(Total(records, "measured"), Duration(period) * Len(records)),
     transitionCount |-> SumFunction([i \in DOMAIN records |-> Len(records[i].transitions)])]

\* Mutant: the figures are those of the shelf as it is when the artifact is sealed.
MutantRequeried == AuditRecords(call.order, histories, call.period, forgotten)

\* The figures are those of the records in the body.
Substantiated == call.records

\* For the properties: every facing was read past the end of the period, so nothing
\* can be ingested into it any more.
Closed == /\ call.period.from < call.period.to
          /\ \A f \in call.scope.facings : LastAt(call.read[f]) >= call.period.to

\* What is left awaits the artifact's own retention, the completeness and a signature;
\* none of it is changed by what is written meanwhile.
PutManifest ==
    /\ call.at = "stored"
    /\ manifests' = With(manifests, ArtifactId,
                         [scope |-> call.scope, format |-> call.format,
                          contentHash |-> Sha256(call.body),
                          figures |-> Figures(Substantiated, call.scope.period),
                          closed |-> Closed])
    /\ call' = NoCallYet
    /\ UNCHANGED <<bodies, sealed>>

\* Any of the awaits may reject; what was put stays.
SealFails == call.at # "idle" /\ call' = NoCallYet /\ UNCHANGED <<bodies, manifests, sealed>>

----------------------------------------------------------------------------
\* The facing log, the action trail, and the rows of a report, as the adapter lists
\* them for one page.  A page is cut from one reading of the store.
Listing(r, order) ==
    CASE r.listing = "log" ->
           LET rows == AuditRecords(order, histories,
                                    RetainedPeriod(r.scope.period, retainedFrom), forgotten)
           IN  [i \in DOMAIN rows |-> rows[i].facing]
      [] r.listing = "trail" ->
           LET period == RetainedPeriod(r.scope.period, retainedFrom)
           IN  Selected(trail, {i \in DOMAIN trail : InWindow(period, trail[i])})
      [] OTHER ->
           LET all  == [i \in DOMAIN order |-> AvailabilityRecordFor(order[i],
                                                  histories[order[i]], r.scope.period)]
               rows == Selected(all, {i \in DOMAIN all : all[i].gapCount >= r.minGapCount})
           IN  [i \in DOMAIN rows |-> SortAvailabilityRecords(rows, r.listing)[i].facing]

ReadPage(r) ==
    \E order \in ReadOrders(r.scope.facings) :
        LET page == PageOf(Listing(r, order), r.cursor, PageLimit)
        IN  reader' = [r EXCEPT !.cursor = page.nextCursor, !.got = @ \o page.items,
                                !.total = page.total]

\* A reader starts with no cursor.  One reader stands for all: nothing of a listing is
\* kept between the pages but the cursor in the reader's hand.
FirstPage ==
    /\ reader.listing = "none"
    /\ \E scope \in Scopes, listing \in Sorts \cup {"log", "trail"}, minGapCount \in 0..1 :
          ReadPage([listing |-> listing, scope |-> scope, minGapCount |-> minGapCount,
                    cursor |-> Null, got |-> <<>>, total |-> 0,
                    since |-> <<histories, retainedFrom>>])

NextPage == reader.cursor # Null /\ ReadPage(reader)

StoreNext == (\E f \in Facing : Ingest(f)) \/ AppendAudit \/ AgesOut \/ ForgetProducers
SealNext  == \/ SealArtifact \/ RetainAgain \/ ReadFacings \/ Render \/ Put
             \/ PutManifest \/ SealFails

ReportingNext ==
    \/ StoreNext /\ UNCHANGED <<artifactVars, reader>>
    \/ SealNext /\ UNCHANGED <<storeVars, reader>>
    \/ (FirstPage \/ NextPage) /\ UNCHANGED <<storeVars, artifactVars>>

ReportingSpec == ReportingInit /\ [][ReportingNext]_reportingVars

----------------------------------------------------------------------------
\* Whatever is ingested, aged out or sealed meanwhile, a manifest is about the body
\* that was stored under it: its figures are the sums over the rows of that body,
\* its rows end where its scope says, and from the rows of a recomputable format an
\* auditor computes those figures again (reporting.adapter.ts:421, artifacts.ts).
ManifestVouchesForItsBody ==
    \A id \in DOMAIN manifests :
      LET m    == manifests[id]
          rows == bodies[id].rows
          Recomputed(r) == ComputeFacingAvailability(
                             [stateAtWindowStart |-> r.stateAtPeriodStart,
                              events |-> r.transitions], r.period)
      IN  /\ id \in DOMAIN bodies /\ m.contentHash = Sha256(bodies[id])
          /\ m.figures.facingCount = Len(rows)
          /\ m.figures.inStock  = Total(rows, "inStock")
          /\ m.figures.measured = Total(rows, "measured")
          /\ m.format = "text/csv" =>
                m.figures.transitionCount = Total(rows, "transitions")
          /\ \A i \in DOMAIN rows :
                /\ rows[i].period.to = m.scope.period.to
                /\ rows[i].period.from >= m.scope.period.from
                /\ m.format # "text/csv" =>
                      Recomputed(rows[i]) = [inStock |-> rows[i].inStock,
                        measured |-> rows[i].measured, unknown |-> rows[i].unknown]

\* Once every facing of a period has been observed past its end, and while nothing of
\* it has aged out, sealing it again gives the artifact of the first time, whatever
\* order the store reads in; and the index report shows the figures of the manifest,
\* as does the sum over its buckets and over its aisles (reporting.adapter.ts:421).
ClosedPeriodsSealAlike ==
    \A id \in DOMAIN manifests :
      LET m       == manifests[id]
          rows    == bodies[id].rows
          signals == {e.signal : e \in UNION {ToSet(histories[f].events) : f \in m.scope.facings}}
          report  == AvailabilityIndexReport(histories, m.scope.facings, m.scope.period, 1)
          SumOf(points, key) == SumFunction([i \in DOMAIN points |-> points[i][key]])
      IN  (/\ m.closed /\ signals \cap forgotten = {}
           /\ \A i \in DOMAIN rows : rows[i].period = m.scope.period) =>
            /\ \A order \in ReadOrders(m.scope.facings) :
                  MintArtifactId(m.scope, Sha256(RenderArtifactBody(
                    AuditRecords(order, histories, m.scope.period, forgotten), m.format))) = id
            /\ \A key \in {"inStock", "measured"} :
                  /\ report.overall[key] = m.figures[key]
                  /\ SumOf(report.series, key) = m.figures[key]
                  /\ SumOf(report.breakdowns, key) = m.figures[key]

\* A reader who pages to the end gets every row of the listing once and in order: the
\* facing log whatever is written meanwhile, the trail while retention stands still
\* (it only grows), a report while no history changes (paging.ts, availability.ts).
PagesCoverEachOnce ==
    reader.listing # "none" /\ reader.cursor = Null =>
      LET now     == Listing(reader, SetToSeq(reader.scope.facings))
          settled == CASE reader.listing = "log"   -> TRUE
                       [] reader.listing = "trail" -> reader.since[2] = retainedFrom
                       [] OTHER                    -> reader.since[1] = histories
      IN  settled => /\ Len(reader.got) = reader.total
                     /\ IsPrefix(reader.got, now)
                     /\ reader.listing # "trail" => reader.got = now
=============================================================================
