--------------------------- MODULE OutcomeMetrics ---------------------------
(***************************************************************************)
(* One gap's journey through the loop, folded from what happens to it, and *)
(* the reports computed from sets of such records (outcome-metrics.ts).    *)
(* Instants and identities are natural numbers and Null is none; a record  *)
(* is known by its gap.                                                    *)
(***************************************************************************)
EXTENDS Availability

Null == -1

OpenOutcome(gap, department, at) ==
    [gap |-> gap, department |-> department, task_type |-> Null, taskId |-> Null,
     detectedAt |-> at, taskCreatedAt |-> Null, assignedAt |-> Null,
     acknowledgedAt |-> Null, lastAcknowledgedAt |-> Null, resolvedAt |-> Null,
     verifiedAt |-> Null, backInStockAt |-> Null, reopenCount |-> 0, terminal |-> "none"]

WithTask(record, taskId, type, createdAt) ==
    [record EXCEPT !.taskId = taskId, !.task_type = type, !.taskCreatedAt = createdAt]

OrElse(first, at) == IF first = Null THEN at ELSE first

\* Mutant: the first resolution is kept, as the first assignment is.
MutantFirstResolution(record, to, at) ==
    CASE to = "assigned"              -> [record EXCEPT !.assignedAt = OrElse(@, at)]
      [] to = "acknowledged"          -> [record EXCEPT !.acknowledgedAt = OrElse(@, at),
                                                        !.lastAcknowledgedAt = at]
      [] to = "awaiting_verification" -> [record EXCEPT !.resolvedAt = OrElse(@, at)]
      [] to = "verified"              -> [record EXCEPT !.resolvedAt = OrElse(@, at),
                                                        !.verifiedAt = at, !.terminal = to]
      [] to = "reopened"              -> [record EXCEPT !.reopenCount = @ + 1]
      [] to \in {"cancelled", "expired"} -> [record EXCEPT !.terminal = to]
      [] OTHER                        -> record

\* One transition of the task.  The first dispatch and the latest attempt are kept;
\* work that needs no verification is resolved when it is verified.
WithTransition(record, to, at) ==
    CASE to = "assigned"              -> [record EXCEPT !.assignedAt = OrElse(@, at)]
      [] to = "acknowledged"          -> [record EXCEPT !.acknowledgedAt = OrElse(@, at),
                                                        !.lastAcknowledgedAt = at]
      [] to = "awaiting_verification" -> [record EXCEPT !.resolvedAt = at]
      [] to = "verified"              -> [record EXCEPT !.resolvedAt = OrElse(@, at),
                                                        !.verifiedAt = at, !.terminal = to]
      [] to = "reopened"              -> [record EXCEPT !.reopenCount = @ + 1]
      [] to \in {"cancelled", "expired"} -> [record EXCEPT !.terminal = to]
      [] OTHER                        -> record

WithBackInStock(record, at) == [record EXCEPT !.backInStockAt = OrElse(@, at)]

----------------------------------------------------------------------------
\* The nearest rank: the smallest sample with the fraction at or below it.
Percentile(sorted, fraction) ==
    LET rank == (fraction * Len(sorted) + 99) \div 100
    IN  sorted[Min({Max({rank, 1}), Len(sorted)})]

DistributionOf(samples) ==
    LET sorted == Arranged(samples, {p \in Pairs(samples) : samples[p[1]] < samples[p[2]]})
    IN  IF samples = <<>>
        THEN [sampleSize |-> 0, p50 |-> Null, p90 |-> Null, p99 |-> Null,
              mean |-> Fraction(0, 0), max |-> Null]
        ELSE [sampleSize |-> Len(samples), p50 |-> Percentile(sorted, 50),
              p90 |-> Percentile(sorted, 90), p99 |-> Percentile(sorted, 99),
              mean |-> Fraction(SumFunction(sorted), Len(sorted)), max |-> Last(sorted)]

\* The time a record spent between two of its instants, never less than nothing.
Elapsed(record, stage) == Max({0, record[stage[2]] - record[stage[1]]})
Reached(record, stage) == record[stage[1]] # Null /\ record[stage[2]] # Null

SamplesOf(records, stage) ==
    LET reached == SetToSeq({r \in records : Reached(r, stage)})
    IN  [i \in DOMAIN reached |-> Elapsed(reached[i], stage)]

\* Windows that tile a window from its start; no step is one bucket.
BucketsFor(w, step) ==
    IF step = 0 \/ Duration(w) = 0 THEN <<w>>
    ELSE [i \in 1..((Duration(w) + step - 1) \div step) |->
            Window(w.from + (i - 1) * step, Min({w.from + i * step, w.to}))]

\* The records of each value of a dimension; one that has none is in no group.
GroupBy(records, dimension) ==
    [key \in {r[dimension] : r \in records} \ {Null} |->
       {r \in records : r[dimension] = key}]

\* Mutant: a gap detected on the edge is in both buckets.
MutantClosedCohort(records, w) == {r \in records : w.from <= r.detectedAt /\ r.detectedAt <= w.to}

\* A report is about the gaps detected in its window, whenever they closed.
Cohort(records, w) == {r \in records : InWindow(w, r.detectedAt)}

----------------------------------------------------------------------------
Stages ==
    [detectionToTask             |-> <<"detectedAt", "taskCreatedAt">>,
     taskToAssignment            |-> <<"taskCreatedAt", "assignedAt">>,
     assignmentToAcknowledgement |-> <<"assignedAt", "acknowledgedAt">>,
     acknowledgementToResolution |-> <<"lastAcknowledgedAt", "resolvedAt">>,
     resolutionToVerification    |-> <<"resolvedAt", "verifiedAt">>,
     detectionToVerification     |-> <<"detectedAt", "verifiedAt">>,
     detectionToBackInStock      |-> <<"detectedAt", "backInStockAt">>]

DetectionToResolutionPoint(records) ==
    [s \in DOMAIN Stages |-> DistributionOf(SamplesOf(records, Stages[s]))]

Count(records, Test(_)) == Cardinality({r \in records : Test(r)})

\* Resolved, neither verified nor closed, and not yet the rule's window ago.
AwaitsVerification(record, cutoff, within) ==
    /\ record.resolvedAt # Null
    /\ record.verifiedAt = Null
    /\ record.terminal = "none"
    /\ record.resolvedAt + within > cutoff

ResolvedGapRatePoint(records, cutoff, within) ==
    LET awaits(r) == AwaitsVerification(r, cutoff, within)
        detected  == Cardinality(records)
        tasked    == Count(records, LAMBDA r : r.taskId # Null)
        verified  == Count(records, LAMBDA r : r.verifiedAt # Null)
        awaiting  == Count(records, awaits)
    IN  [detectedGaps |-> detected, taskedGaps |-> tasked, verifiedGaps |-> verified,
         resolvedGaps |-> Count(records, LAMBDA r : r.resolvedAt # Null),
         selfResolvedGaps |-> Count(records, LAMBDA r : r.taskId = Null /\ r.backInStockAt # Null),
         unresolvedGaps |-> Count(records, LAMBDA r : /\ r.verifiedAt = Null
                                                      /\ r.backInStockAt = Null
                                                      /\ ~awaits(r)),
         awaitingVerification |-> awaiting,
         taskedGapRate   |-> Fraction(tasked, detected),
         resolvedGapRate |-> Fraction(verified, detected - awaiting)]

\* Without a labour feed (Null), or without hours, there is no rate per hour.
TaskWorkRatePoint(records, labourHours) ==
    LET Has(field) == Count(records, LAMBDA r : r[field] # Null)
        Ended(how) == Count(records, LAMBDA r : r.terminal = how)
        reopened   == SumFunction([r \in records |-> r.reopenCount])
    IN  [created      |-> Has("taskCreatedAt"), assigned |-> Has("assignedAt"),
         acknowledged |-> Has("acknowledgedAt"), resolved |-> Has("resolvedAt"),
         verified     |-> Has("verifiedAt"), reopened |-> reopened,
         cancelled    |-> Ended("cancelled"), expired |-> Ended("expired"),
         outstanding  |-> Count(records, LAMBDA r : r.taskId # Null /\ r.terminal = "none"),
         tasksPerLabourHour |-> IF labourHours <= 0 THEN Fraction(0, 0)
                                ELSE Fraction(Has("verifiedAt"), labourHours),
         completionRate |-> Fraction(Has("verifiedAt"), Has("taskCreatedAt")),
         reworkRate     |-> Fraction(reopened, Has("resolvedAt"))]

\* A report: a point over the window, one per bucket, one per slice.  Point(S, b) is
\* the point of the records S in the bucket b.
Report(records, w, step, dimension, Point(_, _)) ==
    LET mine == Cohort(records, w)
    IN  [overall    |-> Point(mine, w),
         series     |-> [i \in DOMAIN BucketsFor(w, step) |->
                           Point(Cohort(records, BucketsFor(w, step)[i]), BucketsFor(w, step)[i])],
         breakdowns |-> [key \in DOMAIN GroupBy(mine, dimension) |->
                           Point(GroupBy(mine, dimension)[key], w)]]

ComputeDetectionToResolution(records, w, step, dimension) ==
    Report(records, w, step, dimension, LAMBDA S, b : DetectionToResolutionPoint(S))

\* The cutoff is the end of the report's window in every bucket of it.
ComputeResolvedGapRate(records, w, step, dimension, within) ==
    Report(records, w, step, dimension, LAMBDA S, b : ResolvedGapRatePoint(S, w.to, within))

\* Hours are reported per window and never split over the slices of a breakdown.
ComputeTaskWorkRate(records, w, step, dimension, labourHoursFor) ==
    [Report(records, w, step, dimension, LAMBDA S, b : TaskWorkRatePoint(S, labourHoursFor[b]))
       EXCEPT !.breakdowns = [key \in DOMAIN @ |->
                  TaskWorkRatePoint(GroupBy(Cohort(records, w), dimension)[key], Null)]]
=============================================================================
