---------------------------- MODULE Availability ----------------------------
(***************************************************************************)
(* The availability index: the share of measured facing-time in stock, for *)
(* one facing and for a set of them, and the baseline it is compared with. *)
(* A history is what FacingAggregate keeps; a window is half-open.  The    *)
(* clock is the set of instants, so a span is the number of instants in it.*)
(***************************************************************************)
EXTENDS Integers, Sequences, SequencesExt, FiniteSetsExt, Functions, Arranging

States == {"in_stock", "out_of_stock", "unknown"}

Window(from, to)  == [from |-> from, to |-> to]
InWindow(w, at)   == w.from <= at /\ at < w.to
Duration(w)       == w.to - w.from

\* How much of [from, to) lies in the window.
Overlap(w, from, to) ==
    Max({0, Min({to, w.to}) - Max({from, w.from})})

\* The state at an instant: after the last event at or before it.
StateAt(h, at) ==
    LET past == {i \in DOMAIN h.events : h.events[i].at <= at}
    IN  IF past = {} THEN h.initialState ELSE h.events[Max(past)].to

EventsWithin(h, w) == Selected(h.events, {i \in DOMAIN h.events : InWindow(w, h.events[i].at)})

\* The state carried into the window is explicit: what broke yesterday counts
\* from the first instant of today.
TimelineFor(h, w) ==
    [stateAtWindowStart |-> StateAt(h, w.from), events |-> EventsWithin(h, w)]

----------------------------------------------------------------------------
Spent(walk, w, until) ==
    [walk.totals EXCEPT ![walk.state] = @ + Overlap(w, walk.cursor, until)]

\* Mutant: an event at the cursor is skipped, state and all.
MutantSkipInstant(walk, e, w) ==
    IF e.at <= walk.cursor \/ e.at >= w.to THEN walk
    ELSE [cursor |-> e.at, state |-> e.to, totals |-> Spent(walk, w, e.at)]

\* One event of the timeline.  A segment of no length still advances the state.
Advance(walk, e, w) ==
    CASE e.at <= walk.cursor -> [walk EXCEPT !.state = e.to]
      [] e.at >= w.to        -> walk
      [] OTHER -> [cursor |-> e.at, state |-> e.to, totals |-> Spent(walk, w, e.at)]

Fraction(num, den) == [num |-> num, den |-> den]    \* null when den = 0

ComputeFacingAvailability(timeline, w) ==
    LET start  == [cursor |-> w.from, state |-> timeline.stateAtWindowStart,
                   totals |-> [s \in States |-> 0]]
        walk   == FoldLeft(LAMBDA acc, e : Advance(acc, e, w), start, timeline.events)
        totals == Spent(walk, w, w.to)
    IN  [inStock  |-> totals["in_stock"],
         measured |-> totals["in_stock"] + totals["out_of_stock"],
         unknown  |-> totals["unknown"]]

\* Facing-time weighted: spans are added up, indices are never averaged.
ComputeAvailabilityIndex(timelines, w) ==
    LET per        == [i \in DOMAIN timelines |-> ComputeFacingAvailability(timelines[i], w)]
        Total(key) == SumFunction([i \in DOMAIN per |-> per[i][key]])
    IN  [facingCount |-> Len(timelines),
         inStock     |-> Total("inStock"),
         measured    |-> Total("measured"),
         unknown     |-> Total("unknown"),
         coverage    |-> Fraction(Total("measured"), Duration(w) * Len(timelines)),
         index       |-> Fraction(Total("inStock"), Total("measured"))]

----------------------------------------------------------------------------
\* A policy asks for a window, a number of facings and half the time measured.
StandardBaselinePolicy == [minWindow |-> 7, minFacings |-> 1, minCoverage |-> Fraction(1, 2)]

Shortfalls(index, w, policy) ==
    {s \in {"window_too_short", "too_few_facings", "nothing_measured", "insufficient_coverage"} :
       CASE s = "window_too_short" -> Duration(w) < policy.minWindow
         [] s = "too_few_facings"  -> index.facingCount < policy.minFacings
         [] s = "nothing_measured" -> index.measured = 0
         [] OTHER -> /\ index.measured # 0
                     /\ index.coverage.num * policy.minCoverage.den
                          < policy.minCoverage.num * index.coverage.den}

\* departments[i] is the department of the i-th facing.
EstablishAvailabilityBaseline(histories, departments, w, policy) ==
    LET timelines == [i \in DOMAIN histories |-> TimelineFor(histories[i], w)]
        index     == ComputeAvailabilityIndex(timelines, w)
        members(d) == Selected(timelines, {i \in DOMAIN timelines : departments[i] = d})
    IN  [shortfalls   |-> Shortfalls(index, w, policy),
         overall      |-> index,
         byDepartment |-> [d \in Range(departments) |->
                             ComputeAvailabilityIndex(members(d), w)]]

\* How far an index lies above the prior; no claim without an established one.
CompareToBaseline(baseline, current) ==
    LET prior == baseline.overall.index
        now   == current.index
    IN  IF baseline.shortfalls # {} \/ prior.den = 0 \/ now.den = 0
        THEN [comparable |-> FALSE, delta |-> Fraction(0, 0)]
        ELSE [comparable |-> TRUE,
              delta |-> Fraction(now.num * prior.den - prior.num * now.den,
                                 now.den * prior.den)]
=============================================================================
