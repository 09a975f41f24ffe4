---------------------------- MODULE Verification ----------------------------
(***************************************************************************)
(* The closed-loop verification rule: enough consecutive clean looks at    *)
(* the shelf after the work was reported done, each close to the one       *)
(* before.  evaluateVerification walks the looks in time order; Look is    *)
(* one round of its loop, so that the walk can be checked round by round   *)
(* (VerificationScan) and as a whole (VerificationLoop).                   *)
(***************************************************************************)
EXTENDS Integers, Sequences, FiniteSets

CONSTANTS
    Task,      \* the tasks that passes name
    Required,  \* the rule: how many consecutive clean passes,
    Within     \* and how far apart two of them may be

ASSUME RuleAssumption == Required \in Nat \ {0} /\ Within \in Nat

\* A look at the facing of a task.  Pass ids are ordered.
Pass == [id : Nat, of : Task, at : Nat, clean : BOOLEAN]

----------------------------------------------------------------------------
\* Mutant: a pass counts for every task at its facing.
MutantAnyTask(p, t, resolvedAt) == p.at > resolvedAt

\* Passes that can say something about a resolution of task t at resolvedAt.
Eligible(p, t, resolvedAt) == p.of = t /\ p.at > resolvedAt

\* sortPasses: by instant, then by id.
Before(p, q) == p.at < q.at \/ (p.at = q.at /\ p.id < q.id)

\* Each pass stands behind as many as come before it.
Sorted(passes) ==
    [i \in 1..Cardinality(passes) |->
       CHOOSE p \in passes : Cardinality({q \in passes : Before(q, p)}) = i - 1]

\* A redelivered pass is the same pass, so the passes at hand are a set.
Candidates(passes, t, resolvedAt) ==
    Sorted({p \in passes : Eligible(p, t, resolvedAt)})

----------------------------------------------------------------------------
\* Where the walk stands: the live streak, and whether a dirty pass was met.
Start == [streak |-> <<>>, dirtied |-> FALSE]

Complete(scan) == Len(scan.streak) >= Required

\* Whether a clean pass continues the streak or anchors a new one.
Continues(streak, p) ==
    /\ streak # <<>>
    /\ p.at - streak[Len(streak)].at \in 1..Within

\* Mutant: a dirty pass is noted and the streak goes on.
MutantKeepStreak(scan, p) ==
    CASE Complete(scan) -> scan
      [] ~Complete(scan) /\ ~p.clean -> [scan EXCEPT !.dirtied = TRUE]
      [] ~Complete(scan) /\ p.clean ->
           [scan EXCEPT !.streak =
              IF Continues(@, p) THEN Append(@, p) ELSE <<p>>]

\* Mutant: a pass out of the window is dropped instead of anchoring.
MutantDropStale(scan, p) ==
    CASE Complete(scan) -> scan
      [] ~Complete(scan) /\ ~p.clean -> [streak |-> <<>>, dirtied |-> TRUE]
      [] ~Complete(scan) /\ p.clean ->
           [scan EXCEPT !.streak =
              IF @ = <<>> \/ Continues(@, p) THEN Append(@, p) ELSE @]

\* One round: a completed streak ends the walk, a dirty pass clears the streak.
Look(scan, p) ==
    CASE Complete(scan) -> scan
      [] ~Complete(scan) /\ ~p.clean -> [streak |-> <<>>, dirtied |-> TRUE]
      [] ~Complete(scan) /\ p.clean ->
           [scan EXCEPT !.streak =
              IF Continues(@, p) THEN Append(@, p) ELSE <<p>>]

\* The scan after each number of rounds.
WalkOver(looks) ==
    LET scan[k \in 0..Len(looks)] ==
          IF k = 0 THEN Start ELSE Look(scan[k - 1], looks[k])
    IN  scan

\* evaluateVerification: the walk over all the candidates.
EvaluateVerification(passes, t, resolvedAt) ==
    LET looks == Candidates(passes, t, resolvedAt)
    IN  WalkOver(looks)[Len(looks)]

----------------------------------------------------------------------------
(* The rule, said without a walk.                                          *)

\* Looks first to last are clean, each soon after the one before.
CleanRun(looks, first, last) ==
    /\ \A i \in first..last : looks[i].clean
    /\ \A i \in first..(last - 1) : looks[i + 1].at - looks[i].at \in 1..Within

\* Enough of them end at last.
Satisfied(looks, last) ==
    /\ last >= Required
    /\ CleanRun(looks, last - Required + 1, last)

\* Where the walk stands after so many looks: the streak is the longest clean run
\* that ends there, no earlier look satisfied the rule, and any dirty one was noted.
WalkOK(looks, last, scan) ==
    LET run == Len(scan.streak)
    IN  /\ scan \in [streak : Seq(Pass), dirtied : BOOLEAN]
        /\ run <= last /\ run <= Required
        /\ \A i \in 1..run : scan.streak[i] = looks[last - run + i]
        /\ CleanRun(looks, last - run + 1, last)
        /\ \A first \in 1..last : CleanRun(looks, first, last) => last - first < run
        /\ \A m \in 1..last : Satisfied(looks, m) => m = last /\ Complete(scan)
        /\ scan.dirtied <=> \E m \in 1..last : ~looks[m].clean
=============================================================================
