-------------------------- MODULE VerificationScan --------------------------
(***************************************************************************)
(* The loop of evaluateVerification, one candidate pass a step.            *)
(***************************************************************************)
EXTENDS Verification

CONSTANT Inputs   \* the candidate sequences it is run on

ASSUME InputAssumption == Inputs \subseteq Seq(Pass)

VARIABLES
    looks,   \* the candidates, in time order
    n,       \* how many of them have been looked at
    scan     \* the streak and the flag of the walk

scanVars == <<looks, n, scan>>

ScanInit == looks \in Inputs /\ n = 0 /\ scan = Start

LookAtNext ==
    /\ n < Len(looks) /\ ~Complete(scan)
    /\ n' = n + 1
    /\ scan' = Look(scan, looks[n + 1])
    /\ UNCHANGED looks

Finished == n = Len(looks) \/ Complete(scan)
Answer   == Finished /\ UNCHANGED scanVars

ScanNext == LookAtNext \/ Answer
ScanSpec == ScanInit /\ [][ScanNext]_scanVars

----------------------------------------------------------------------------
\* The walk stays on its input.
ScanTypeOK ==
    /\ looks \in Seq(Pass)
    /\ n \in 0..Len(looks)
    /\ scan \in [streak : Seq(Pass), dirtied : BOOLEAN]

\* A streak that completes is the rule satisfied by the passes just looked at,
\* and nothing else closes a task.
ClosesByTheRule == Complete(scan) => Satisfied(looks, n)

\* "A task verifies at the instant its second clean pass landed": the walk goes
\* past no point where the rule is satisfied.
MissesNothing == \A m \in 1..n : Satisfied(looks, m) => m = n /\ Complete(scan)

\* Short of a streak, the outcome is a regression exactly when a look was dirty.
RegressesWhenDirty ==
    scan.dirtied <=> \E m \in 1..n : ~looks[m].clean

\* The inductive invariant behind the properties above.
ScanIInv == ScanTypeOK /\ WalkOK(looks, n, scan)
=============================================================================
