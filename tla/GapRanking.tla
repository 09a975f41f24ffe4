----------------------------- MODULE GapRanking -----------------------------
(***************************************************************************)
(* The gaps read off a facing, the coverage of a category, and the order   *)
(* in which the gaps are worked (domain/gap, domain/merchandising).        *)
(* Scores and densities are exact fractions.                               *)
(***************************************************************************)
EXTENDS Arranging, SequencesExt

GapKind == {"availability_gap", "price_mismatch", "planogram_drift"}

TaskTypeForGap(kind) ==
    CASE kind = "availability_gap" -> "restock_out_of_stock"
      [] kind = "price_mismatch"   -> "price_label_correction"
      [] kind = "planogram_drift"  -> "planogram_correction"

\* What the planogram says of a slot, seen against the product and the count of
\* the last vision run (-1: none yet).
Drift(facing) ==
    LET plan == facing.plan
    IN  CASE plan.status # "active"                   -> "none"
          [] plan.expected # facing.product           -> "wrong_product"
          [] facing.detected \in 0..(plan.facings - 1) -> "under_faced"
          [] OTHER                                    -> "none"

\* The gaps of a facing as it stands; it may have one of each kind.
DetectGaps(facing) ==
    {k \in GapKind :
       CASE k = "availability_gap" -> facing.state = "out_of_stock"
         [] k = "price_mismatch"   -> facing.label = "price_mismatch"
         [] k = "planogram_drift"  -> Drift(facing) # "none"}

----------------------------------------------------------------------------
Ratio(num, den) == [num |-> num, den |-> den]
Less(a, b)      == a.num * b.den < b.num * a.den

\* Categories are measured per store.
Scope(of) == <<of.store, of.department, of.category>>

\* Every look at a facing of the category in the half-open window of some days,
\* over every facing of it, looked at or not; null without facings or days.
Coverage(scope, facings, passes, from, days) ==
    LET mine == {f \in facings : Scope(f) = scope}
        seen == {p \in passes : /\ p.at >= from /\ p.at < from + days
                                /\ \E f \in mine : f.id = p.facing}
    IN  [facingCount |-> Cardinality(mine),
         passCount   |-> Cardinality(seen),
         facingsPassed |-> Cardinality({p.facing : p \in seen}),
         density     |-> Ratio(Cardinality(seen), Cardinality(mine) * days)]

\* One coverage per category that has a facing.
MeasureCategoryCoverage(facings, passes, from, days) ==
    [s \in {Scope(f) : f \in facings} |-> Coverage(s, facings, passes, from, days)]

Unmeasured == Ratio(0, 0)
DensityOf(coverage, scope) ==
    IF scope \in DOMAIN coverage /\ coverage[scope].density.den # 0
    THEN coverage[scope].density ELSE Unmeasured

\* Two passes within a day is what closes a task.
MinRevisitDensity == Ratio(2, 1)

EvaluateServiceLevelScope(density, threshold) ==
    CASE density = Unmeasured      -> "unmeasured"
      [] Less(density, threshold)  -> "below_revisit_threshold"
      [] OTHER                     -> "in_scope"

CategoriesInServiceLevelScope(coverage, threshold) ==
    {s \in DOMAIN coverage :
       EvaluateServiceLevelScope(DensityOf(coverage, s), threshold) = "in_scope"}

\* Units sold over days; null (den = 0) for a window of no length.
SalesVelocityFromPos(sold, days) == Ratio(sold, days)

----------------------------------------------------------------------------
\* Weights are in tenths; a department that is not listed weighs one.
StandardPolicy ==
    [departmentWeights |-> <<>>, defaultDepartmentWeight |-> 10,
     kindWeights |-> [availability_gap |-> 10, price_mismatch |-> 6, planogram_drift |-> 4],
     assumedVelocity |-> Ratio(0, 1)]

\* density / (density + threshold)
EvidenceFactor(density, threshold) ==
    IF density.num = 0 \/ density = Unmeasured THEN Ratio(0, 1)
    ELSE Ratio(density.num * threshold.den,
               density.num * threshold.den + threshold.num * density.den)

DepartmentWeight(department, policy) ==
    IF department \in DOMAIN policy.departmentWeights
    THEN policy.departmentWeights[department] ELSE policy.defaultDepartmentWeight

Score(gap, velocity, density, policy, threshold) ==
    LET v == IF velocity.den = 0 THEN policy.assumedVelocity ELSE velocity
        e == EvidenceFactor(density, threshold)
    IN  Ratio(DepartmentWeight(gap.department, policy) * policy.kindWeights[gap.kind]
                * v.num * e.num,
              v.den * e.den)

\* Mutant: gaps at one score are left in the order they came in.
MutantNoTieBreak(a, b) == Less(b.score, a.score)

\* Score first, then the gap detected earlier, then the id.
ByPriority(a, b) ==
    \/ Less(b.score, a.score)
    \/ ~Less(a.score, b.score)
       /\ \/ a.gap.detectedAt < b.gap.detectedAt
          \/ a.gap.detectedAt = b.gap.detectedAt /\ a.gap.id < b.gap.id

\* A stable sort: rank i is the position in the result.
Numbered(ranked) ==
    Arranged(ranked, {p \in Pairs(ranked) : ByPriority(ranked[p[1]], ranked[p[2]])})

\* A gap with its score, and whether its category carries a commitment.  velocity is a
\* function on the facings that have one.
Ranked(gap, velocity, coverage, policy, threshold) ==
    LET density == DensityOf(coverage, Scope(gap))
    IN  [gap   |-> gap,
         level |-> EvaluateServiceLevelScope(density, threshold),
         score |-> Score(gap, IF gap.facing \in DOMAIN velocity THEN velocity[gap.facing]
                              ELSE Ratio(0, 0), density, policy, threshold)]

\* The gaps of a list in order, split by whether their category carries a commitment.
RankGaps(gaps, velocity, coverage, policy, threshold) ==
    LET all == [i \in DOMAIN gaps |-> Ranked(gaps[i], velocity, coverage, policy, threshold)]
    IN  [committed |-> Numbered(Selected(all, {i \in DOMAIN all : all[i].level = "in_scope"})),
         excluded  |-> Numbered(Selected(all, {i \in DOMAIN all : all[i].level # "in_scope"}))]

\* The committed list cut by department, each department re-ranked, departments in
\* the order of their best score, then of their names (given by their position).
RankedByDepartment(ranked, order) ==
    LET of(d)   == Numbered(SelectSeq(ranked, LAMBDA r : r.gap.department = d))
        there   == SelectSeq(order, LAMBDA d : of(d) # <<>>)
        best(d) == of(d)[1].score
        place(d) == CHOOSE i \in DOMAIN order : order[i] = d
    IN  SortSeq([i \in DOMAIN there |-> [department |-> there[i], gaps |-> of(there[i])]],
                LAMBDA a, b : \/ Less(b.gaps[1].score, a.gaps[1].score)
                              \/ /\ ~Less(a.gaps[1].score, b.gaps[1].score)
                                 /\ place(a.department) < place(b.department))

RankGapsForWindow(gaps, facings, passes, velocity, from, days, order) ==
    LET coverage == MeasureCategoryCoverage(facings, passes, from, days)
        ranking  == RankGaps(gaps, velocity, coverage, StandardPolicy, MinRevisitDensity)
    IN  [committed    |-> ranking.committed,
         excluded     |-> ranking.excluded,
         byDepartment |-> RankedByDepartment(ranking.committed, order),
         inScope      |-> CategoriesInServiceLevelScope(coverage, MinRevisitDensity)]
=============================================================================
