---------------------------- MODULE LoopOutcomes ----------------------------
(***************************************************************************)
(* The outcome records of some gaps while their tasks go through the loop: *)
(* every transition of a task is folded into the record of its gap.  The   *)
(* repository leaves the call of the fold to the service that embeds it.   *)
(***************************************************************************)
EXTENDS OutcomeMetrics, TaskLifecycle

CONSTANTS
    Gap,          \* gaps; gap g is found in department DepartmentOf[g]
    DepartmentOf,
    Worked,       \* the gaps a task is raised for; the others stay untasked
    MaxTime,
    Cuts,         \* the windows and grains reports are asked for
    MaxReopens    \* how often a task is put back

\* A gap is known by its id and was found in some department, and a time window does
\* not end before it begins.
ASSUME OutcomesAssumption ==
    /\ Gap \subseteq Nat /\ IsFiniteSet(Gap)
    /\ \A g \in Gap : DepartmentOf[g] \in Nat
    /\ Cuts \subseteq [window : [from : Nat, to : Nat], step : Nat]
    /\ \A cut \in Cuts : cut.window.from <= cut.window.to

VARIABLES
    tasks,        \* the task raised for a gap; NoTask until there is one
    records,      \* the outcome record of a gap; NoRecord until it is detected
    clock
outcomeVars == <<tasks, records, clock>>

NoTask   == [state |-> [status |-> "none"]]
NoRecord == [gap |-> Null]
Restock  == 1   \* the type of the tasks

OutcomesInit ==
    /\ tasks   = [g \in Gap |-> NoTask]
    /\ records = [g \in Gap |-> NoRecord]
    /\ clock = 0

Detect(g) ==
    /\ records[g] = NoRecord
    /\ records' = [records EXCEPT ![g] = OpenOutcome(g, DepartmentOf[g], clock)]
    /\ UNCHANGED <<tasks, clock>>

Raise(g) ==
    /\ g \in Worked /\ records[g] # NoRecord /\ tasks[g] = NoTask
    /\ \E needsShelf \in BOOLEAN :
          tasks' = [tasks EXCEPT ![g] = CreateTask(1, needsShelf, clock)]
    /\ records' = [records EXCEPT ![g] = WithTask(@, g, Restock, clock)]
    /\ UNCHANGED clock

\* A command that is taken is one transition, and the record follows it.
Work(g, command) ==
    /\ tasks[g] # NoTask
    /\ Legal(tasks[g], command)
    /\ command.kind = "reopen" => tasks[g].failedVerifications < MaxReopens
    /\ tasks'   = [tasks EXCEPT ![g] = ApplyTaskCommand(@, command)]
    /\ records' = [records EXCEPT ![g] = WithTransition(@, Target(tasks[g], command), command.at)]
    /\ UNCHANGED clock

Commands ==
    {[kind |-> "assign", assignee |-> e, at |-> clock] : e \in Employee}
      \cup {[kind |-> k, at |-> clock] : k \in {"acknowledge", "start", "resolve", "cancel", "expire"}}
      \cup {[kind |-> "reopen", at |-> clock, reason |-> "verification_regressed"],
            [kind |-> "confirm_verification", at |-> clock, firstPass |-> 1, secondPass |-> 2]}

\* Somebody puts the product back, worked on or not.
BackInStock(g) ==
    /\ records[g] # NoRecord
    /\ records' = [records EXCEPT ![g] = WithBackInStock(@, clock)]
    /\ UNCHANGED <<tasks, clock>>

Elapse == clock < MaxTime /\ clock' = clock + 1 /\ UNCHANGED <<tasks, records>>

OutcomesNext ==
    \/ \E g \in Gap : Detect(g) \/ Raise(g) \/ BackInStock(g)
    \/ \E g \in Gap, command \in Commands : Work(g, command)
    \/ Elapse

OutcomesSpec == OutcomesInit /\ [][OutcomesNext]_outcomeVars

----------------------------------------------------------------------------
Kept == {records[g] : g \in Gap} \ {NoRecord}

Ordered(instants) ==
    \A i, j \in DOMAIN instants :
        i < j /\ instants[i] # Null /\ instants[j] # Null => instants[i] <= instants[j]

\* The record and the task are two folds of the same transitions and never come
\* apart: the record ends as the task ends, counts the attempts the task counts, and
\* while an attempt stands its instants are those of that attempt, in their order
\* (outcome-metrics.ts, task.ts).
RecordTellsTheTask ==
    \A g \in Gap : tasks[g] # NoTask =>
      LET r == records[g]
          t == tasks[g]
      IN  /\ r.terminal = IF t.state.status \in TerminalStatuses THEN t.state.status ELSE "none"
          /\ r.reopenCount = t.failedVerifications
          /\ r.verifiedAt # Null <=> t.state.status = "verified"
          /\ t.state.status = "verified" => r.verifiedAt = t.state.at
          /\ t.state.status = "awaiting_verification" => r.resolvedAt = t.state.at
          /\ Ordered(<<r.detectedAt, r.taskCreatedAt, r.assignedAt, r.acknowledgedAt,
                       r.lastAcknowledgedAt>>)
          /\ t.state.status \in {"awaiting_verification", "verified"} =>
                Ordered(<<r.acknowledgedAt, r.lastAcknowledgedAt, r.resolvedAt, r.verifiedAt>>)

\* Whatever the grain, buckets and departments partition the gaps of a report: each
\* count of it is the sum over its buckets and over its departments.  Within a point
\* no gap is told twice: what is verified, what awaits verification and what is
\* unresolved are apart, no rate exceeds one, each stage has at most the tasks of the
\* one before, and every task raised has ended or is outstanding (outcome-metrics.ts).
LoopReportsAddUp ==
    \A cut \in Cuts :
      LET gaps  == ComputeResolvedGapRate(Kept, cut.window, cut.step, "department", 1)
          work  == ComputeTaskWorkRate(Kept, cut.window, cut.step, "department",
                                       [b \in {cut.window} \cup ToSet(BucketsFor(cut.window, cut.step))
                                          |-> Duration(b)])
          times == ComputeDetectionToResolution(Kept, cut.window, cut.step, "department")
          SumOf(points, key) == SumFunction([i \in DOMAIN points |-> points[i][key]])
          SumsUp(report, key) ==
              /\ SumOf(report.series, key) = report.overall[key]
              /\ SumOf(report.breakdowns, key) = report.overall[key]
          g == gaps.overall
          t == work.overall
      IN  /\ \A key \in {"detectedGaps", "taskedGaps", "verifiedGaps", "resolvedGaps",
                         "selfResolvedGaps", "unresolvedGaps", "awaitingVerification"} :
                SumsUp(gaps, key)
          /\ \A key \in {"created", "resolved", "verified", "reopened", "outstanding"} :
                SumsUp(work, key)
          /\ g.verifiedGaps + g.awaitingVerification + g.unresolvedGaps <= g.detectedGaps
          /\ g.resolvedGapRate.num <= g.resolvedGapRate.den
          /\ t.verified <= t.resolved /\ t.resolved <= t.acknowledged
          /\ t.acknowledged <= t.assigned /\ t.assigned <= t.created
          /\ t.created = t.verified + t.cancelled + t.expired + t.outstanding
          /\ \A s \in DOMAIN Stages :
                LET d == times.overall[s]
                    samples == SamplesOf(Cohort(Kept, cut.window), Stages[s])
                    AtMost(x) == Cardinality({i \in DOMAIN samples : samples[i] <= x})
                IN  d.sampleSize > 0 =>
                      /\ {d.p50, d.p90, d.p99, d.max} \subseteq ToSet(samples)
                      /\ 2 * AtMost(d.p50) >= Len(samples) /\ AtMost(d.max) = Len(samples)
                      /\ Ordered(<<d.p50, d.p90, d.p99, d.max>>)
=============================================================================
