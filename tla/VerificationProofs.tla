------------------------- MODULE VerificationProofs -------------------------
(***************************************************************************)
(* The walk of evaluateVerification applies the rule, whatever the passes, *)
(* the number of them the rule asks for and the window: first round by     *)
(* round, then as a whole.  And what every command and tick of the loop    *)
(* keeps, for any tasks, employees, passes and rule: tasks stay            *)
(* well-formed, closed ones stay as they are, bounces are remembered; work *)
(* is closed on evidence and put back for cause.                           *)
(***************************************************************************)
EXTENDS VerificationLoop, VerificationScan, FiniteSetTheorems, WellFoundedInduction, TLAPS

USE RuleAssumption, InputAssumption

-----------------------------------------------------------------------------
(* The walk. *)

\* The three ways a round can go.
LEMMA Rounds ==
    ASSUME NEW s \in [streak : Seq(Pass), dirtied : BOOLEAN], NEW p \in Pass,
           ~Complete(s)
    PROVE  /\ ~p.clean => Look(s, p) = [streak |-> <<>>, dirtied |-> TRUE]
           /\ p.clean /\ Continues(s.streak, p) =>
                Look(s, p) = [streak |-> Append(s.streak, p), dirtied |-> s.dirtied]
           /\ p.clean /\ ~Continues(s.streak, p) =>
                Look(s, p) = [streak |-> <<p>>, dirtied |-> s.dirtied]
BY DEF Look, Pass

LEMMA StartOK == ASSUME NEW c PROVE WalkOK(c, 0, Start)
<1>1. Start = [streak |-> <<>>, dirtied |-> FALSE] BY DEF Start
<1>2. Start \in [streak : Seq(Pass), dirtied : BOOLEAN] BY <1>1
<1> QED BY <1>1, <1>2 DEF WalkOK, CleanRun

\* A clean run that ends one look later is one that ended here, prolonged.
LEMMA RunProlonged ==
    ASSUME NEW c \in Seq(Pass), NEW m \in Nat, m + 1 \in 1..Len(c),
           NEW first \in 1..m, CleanRun(c, first, m + 1)
    PROVE  /\ CleanRun(c, first, m)
           /\ c[m + 1].clean
           /\ c[m + 1].at - c[m].at \in 1..Within
<1>1. c[m + 1].clean
  BY DEF CleanRun
<1>2. c[m + 1].at - c[m].at \in 1..Within
  <2>1. m \in first..((m + 1) - 1) OBVIOUS
  <2> QED BY <2>1 DEF CleanRun
<1>3. CleanRun(c, first, m)
  BY DEF CleanRun
<1> QED BY <1>1, <1>2, <1>3

\* A round of an unfinished walk keeps the streak the longest clean run.
LEMMA LookKeeps ==
    ASSUME NEW c \in Seq(Pass), NEW m \in Nat, m + 1 \in 1..Len(c),
           NEW s, WalkOK(c, m, s), ~Complete(s)
    PROVE  WalkOK(c, m + 1, Look(s, c[m + 1]))
<1> DEFINE p == c[m + 1]
           k == Len(s.streak)
           z == Look(s, p)
<1>1. /\ p \in Pass
      /\ s \in [streak : Seq(Pass), dirtied : BOOLEAN]
      /\ k < Required /\ k \in Nat /\ k <= m
  BY DEF WalkOK, Complete
<1>2. /\ \A i \in 1..k : s.streak[i] = c[m - k + i]
      /\ CleanRun(c, m - k + 1, m)
      /\ \A first \in 1..m : CleanRun(c, first, m) => m - first < k
  BY DEF WalkOK
<1>3. Continues(s.streak, p) <=>
        k > 0 /\ m \in 1..Len(c) /\ p.at - c[m].at \in 1..Within
  <2>1. s.streak = <<>> <=> k = 0 BY <1>1
  <2>2. ASSUME k > 0 PROVE s.streak[k] = c[m]
    <3>1. k \in 1..k BY <2>2, <1>1
    <3>2. s.streak[k] = c[m - k + k] BY <3>1, <1>2
    <3> QED BY <3>2, <1>1
  <2> QED BY <2>1, <2>2, <1>1 DEF Continues
<1>4. \A first \in 1..m : CleanRun(c, first, m + 1) =>
        p.clean /\ Continues(s.streak, p) /\ m - first < k
  <2> SUFFICES ASSUME NEW first \in 1..m, CleanRun(c, first, m + 1)
               PROVE  p.clean /\ Continues(s.streak, p) /\ m - first < k
    OBVIOUS
  <2>1. CleanRun(c, first, m) /\ p.clean /\ p.at - c[m].at \in 1..Within
    BY <1>1, RunProlonged
  <2>2. m - first < k BY <2>1, <1>2
  <2> QED BY <2>1, <2>2, <1>1, <1>3
<1>5. CleanRun(c, m + 1, m + 1) <=> p.clean
  <2>1. (m + 1)..(m + 1) = {m + 1} /\ (m + 1)..((m + 1) - 1) = {} BY <1>1
  <2> QED BY <2>1 DEF CleanRun
<1>6. CASE ~p.clean
  <2>1. z = [streak |-> <<>>, dirtied |-> TRUE] BY <1>1, <1>6, Rounds
  <2>2. z \in [streak : Seq(Pass), dirtied : BOOLEAN]
    <3>1. <<>> \in Seq(Pass) OBVIOUS
    <3> QED BY <2>1, <3>1
  <2>3. CleanRun(c, m + 2, m + 1) BY <1>1 DEF CleanRun
  <2>4. \A first \in 1..(m + 1) : ~CleanRun(c, first, m + 1)
    BY <1>6, <1>1, <1>4, <1>5
  <2>5. \A i \in 1..(m + 1) : ~Satisfied(c, i)
    <3>1. ~Satisfied(c, m + 1)
      <4>1. m + 1 >= Required => (m + 1) - Required + 1 \in 1..(m + 1) OBVIOUS
      <4> QED BY <4>1, <2>4 DEF Satisfied
    <3>2. \A i \in 1..m : ~Satisfied(c, i) BY DEF WalkOK
    <3> QED BY <3>1, <3>2
  <2>6. z.streak = <<>> /\ Len(z.streak) = 0 /\ z.dirtied BY <2>1
  <2>7. \E i \in 1..(m + 1) : ~c[i].clean
    <3>1. m + 1 \in 1..(m + 1) OBVIOUS
    <3> QED BY <3>1, <1>6
  <2> QED BY <2>2, <2>3, <2>4, <2>5, <2>6, <2>7 DEF WalkOK
<1>7. CASE p.clean
  <2>1. /\ z.dirtied = s.dirtied
        /\ z \in [streak : Seq(Pass), dirtied : BOOLEAN]
        /\ Len(z.streak) = IF Continues(s.streak, p) THEN k + 1 ELSE 1
    <3>1. CASE Continues(s.streak, p)
      <4>1. z = [streak |-> Append(s.streak, p), dirtied |-> s.dirtied]
        BY <1>7, <3>1, <1>1, Rounds
      <4>2. Append(s.streak, p) \in Seq(Pass) /\ Len(Append(s.streak, p)) = k + 1
        BY <1>1
      <4> QED BY <3>1, <4>1, <4>2, <1>1
    <3>2. CASE ~Continues(s.streak, p)
      <4>1. z = [streak |-> <<p>>, dirtied |-> s.dirtied]
        BY <1>7, <3>2, <1>1, Rounds
      <4>2. <<p>> \in Seq(Pass) /\ Len(<<p>>) = 1 BY <1>1
      <4> QED BY <3>2, <4>1, <4>2, <1>1
    <3> QED BY <3>1, <3>2
  <2>2. /\ \A i \in 1..Len(z.streak) : z.streak[i] = c[(m + 1) - Len(z.streak) + i]
        /\ CleanRun(c, (m + 1) - Len(z.streak) + 1, m + 1)
        /\ \A first \in 1..(m + 1) :
             CleanRun(c, first, m + 1) => (m + 1) - first < Len(z.streak)
    <3>1. CASE Continues(s.streak, p)
      <4>1. z.streak = Append(s.streak, p) /\ Len(z.streak) = k + 1
        BY <1>7, <3>1, <1>1, Rounds
      <4>2. \A i \in 1..(k + 1) : z.streak[i] = c[(m + 1) - (k + 1) + i]
        BY <4>1, <1>1, <1>2
      <4>3. CleanRun(c, (m + 1) - (k + 1) + 1, m + 1)
        <5>1. \A i \in (m - k + 1)..(m + 1) : c[i].clean
          BY <1>7, <1>1, <1>2 DEF CleanRun
        <5>2. ASSUME NEW i \in (m - k + 1)..m
              PROVE  c[i + 1].at - c[i].at \in 1..Within
          <6>1. CASE i = m BY <6>1, <3>1, <1>3
          <6>2. CASE i # m
            <7>1. i \in (m - k + 1)..(m - 1) BY <6>2, <1>1
            <7> QED BY <7>1, <1>2 DEF CleanRun
          <6> QED BY <6>1, <6>2
        <5>3. (m + 1) - (k + 1) + 1 = m - k + 1 /\ (m + 1) - 1 = m BY <1>1
        <5> QED BY <5>1, <5>2, <5>3 DEF CleanRun
      <4>4. \A first \in 1..(m + 1) :
              CleanRun(c, first, m + 1) => (m + 1) - first < k + 1
        BY <1>1, <1>4
      <4> QED BY <4>1, <4>2, <4>3, <4>4, <1>1
    <3>2. CASE ~Continues(s.streak, p)
      <4>1. z.streak = <<p>> BY <1>7, <3>2, <1>1, Rounds
      <4>2. CleanRun(c, m + 1, m + 1) BY <1>7, <1>5
      <4>3. \A first \in 1..(m + 1) :
              CleanRun(c, first, m + 1) => (m + 1) - first < 1
        BY <3>2, <1>1, <1>4
      <4> QED BY <4>1, <4>2, <4>3, <1>1
    <3> QED BY <3>1, <3>2
  <2>3. Len(z.streak) <= m + 1 /\ Len(z.streak) <= Required /\ Len(z.streak) \in Nat
    BY <2>1, <1>1
  <2>4. \A i \in 1..(m + 1) : Satisfied(c, i) => i = m + 1 /\ Complete(z)
    <3>1. \A i \in 1..m : ~Satisfied(c, i) BY DEF WalkOK
    <3>2. ASSUME Satisfied(c, m + 1) PROVE Complete(z)
      <4>1. /\ (m + 1) - Required + 1 \in 1..(m + 1)
            /\ CleanRun(c, (m + 1) - Required + 1, m + 1)
        BY <3>2 DEF Satisfied
      <4>2. (m + 1) - ((m + 1) - Required + 1) < Len(z.streak)
        BY <4>1, <2>2
      <4> QED BY <4>2, <2>3 DEF Complete
    <3> QED BY <3>1, <3>2
  <2>5. z.dirtied <=> \E i \in 1..(m + 1) : ~c[i].clean
    <3>1. s.dirtied <=> \E i \in 1..m : ~c[i].clean BY DEF WalkOK
    <3> QED BY <3>1, <2>1, <1>7
  <2>6. WalkOK(c, m + 1, z)
    <3> HIDE DEF z
    <3> QED BY <2>1, <2>2, <2>3, <2>4, <2>5 DEF WalkOK
  <2> QED BY <2>6
<1> QED BY <1>6, <1>7

\* A completed streak ends the walk.
LEMMA CompleteStays ==
    ASSUME NEW s, NEW p, Complete(s)
    PROVE  Look(s, p) = s
BY DEF Look

----------------------------------------------------------------------------
(***************************************************************************)
(* The loop.                                                               *)
(***************************************************************************)
LEMMA ScanInitOK == ScanInit => ScanIInv
<1> SUFFICES ASSUME ScanInit PROVE ScanIInv OBVIOUS
<1>1. looks \in Seq(Pass) /\ n = 0 /\ scan = Start BY DEF ScanInit
<1>2. WalkOK(looks, n, scan) BY <1>1, StartOK
<1>3. ScanTypeOK BY <1>1, <1>2 DEF ScanTypeOK, WalkOK
<1> QED BY <1>2, <1>3 DEF ScanIInv

LEMMA ScanStepOK == ScanIInv /\ [ScanNext]_scanVars => ScanIInv'
<1> SUFFICES ASSUME ScanIInv, [ScanNext]_scanVars PROVE ScanIInv' OBVIOUS
<1>1. CASE UNCHANGED scanVars
  BY <1>1 DEF ScanIInv, scanVars, ScanTypeOK, WalkOK, Complete, CleanRun, Satisfied
<1>2. CASE LookAtNext
  <2>1. /\ looks \in Seq(Pass) /\ looks' = looks
        /\ n \in Nat /\ n + 1 \in 1..Len(looks) /\ n' = n + 1
        /\ scan' = Look(scan, looks[n + 1])
        /\ WalkOK(looks, n, scan) /\ ~Complete(scan)
    BY <1>2 DEF ScanIInv, ScanTypeOK, LookAtNext
  <2>2. WalkOK(looks, n + 1, Look(scan, looks[n + 1])) BY ONLY <2>1, LookKeeps
  <2>3. WalkOK(looks, n, scan)'
    BY <2>1, <2>2 DEF WalkOK, Complete, CleanRun, Satisfied
  <2>4. ScanTypeOK' BY <2>1, <2>3 DEF ScanTypeOK, WalkOK
  <2> QED BY <2>3, <2>4 DEF ScanIInv
<1> QED BY <1>1, <1>2 DEF ScanNext, Answer

\* The inductive invariant: the streak is the longest clean run ending at the
\* pass just looked at, and no earlier pass satisfied the rule.
THEOREM ScanInvariance == ScanSpec => []ScanIInv
BY ScanInitOK, ScanStepOK, PTL DEF ScanSpec

\* A task closes only on the passes the rule asks for.
THEOREM Soundness == ScanSpec => []ClosesByTheRule
<1>1. ScanIInv => ClosesByTheRule
  <2> SUFFICES ASSUME ScanIInv, Complete(scan) PROVE Satisfied(looks, n)
    BY DEF ClosesByTheRule
  <2>1. Len(scan.streak) = Required /\ Len(scan.streak) <= n
    BY DEF ScanIInv, ScanTypeOK, Complete, WalkOK
  <2> QED BY <2>1 DEF ScanIInv, WalkOK, Satisfied
<1> QED BY <1>1, ScanInvariance, PTL

\* A task closes at the first pass that satisfies the rule.
THEOREM Completeness == ScanSpec => []MissesNothing
<1>1. ScanIInv => MissesNothing BY DEF ScanIInv, WalkOK, MissesNothing
<1> QED BY <1>1, ScanInvariance, PTL

\* Without a streak, the outcome is a regression exactly when a look was dirty.
THEOREM Regression == ScanSpec => []RegressesWhenDirty
<1>1. ScanIInv => RegressesWhenDirty BY DEF ScanIInv, WalkOK, RegressesWhenDirty
<1> QED BY <1>1, ScanInvariance, PTL

----------------------------------------------------------------------------
(***************************************************************************)
(* The walk as a whole, over the passes in order.                          *)
(***************************************************************************)
\* What holds of 0 and of the successor of every number it holds of, holds of all.
LEMMA Upwards ==
    ASSUME NEW S, 0 \in S, \A m \in Nat : m \in S => m + 1 \in S
    PROVE  Nat \subseteq S
<1> DEFINE T == Nat \ S
           R == {x \in Nat \X Nat : x[1] < x[2]}
<1>1. SUFFICES ASSUME T # {} PROVE FALSE OBVIOUS
<1>2. IsWellFoundedOn(R, Nat)
  <2>1. R = OpToRel(<, Nat) BY DEF OpToRel
  <2> QED BY <2>1, NatLessThanWellFounded
<1>3. PICK x \in T : \A y \in T : ~(<<y, x>> \in R)
  <2> HIDE DEF R
  <2> QED BY <1>1, <1>2, WFMin
<1>4. x # 0 OBVIOUS
<1>5. x - 1 \in Nat /\ x - 1 < x BY <1>4
<1>6. x - 1 \notin T BY <1>3, <1>5
<1>7. (x - 1) + 1 \in S BY <1>5, <1>6
<1> QED BY <1>7

\* The walk is what its rounds make it.
LEMMA WalkStepByStep ==
    ASSUME NEW c, Len(c) \in Nat
    PROVE  /\ WalkOver(c)[0] = Start
           /\ \A k \in 1..Len(c) : WalkOver(c)[k] = Look(WalkOver(c)[k - 1], c[k])
<1> DEFINE Walked(w, m) == w = [k \in 0..m |-> IF k = 0 THEN Start
                                               ELSE Look(w[k - 1], c[k])]
           Good == {m \in Nat : \E w : Walked(w, m)}
<1>1. 0 \in Good
  <2> DEFINE w == [k \in 0..0 |-> Start]
  <2>1. Walked(w, 0) OBVIOUS
  <2> HIDE DEF w
  <2> QED BY <2>1
<1>2. ASSUME NEW m \in Nat, m \in Good PROVE m + 1 \in Good
  <2>1. PICK w : Walked(w, m) BY <1>2
  <2> DEFINE z == [k \in 0..(m + 1) |-> IF k = m + 1 THEN Look(w[m], c[m + 1]) ELSE w[k]]
             r == [k \in 0..(m + 1) |-> IF k = 0 THEN Start ELSE Look(z[k - 1], c[k])]
  <2>2. ASSUME NEW k \in 0..(m + 1) PROVE z[k] = r[k]
    <3>1. CASE k = 0
      <4>1. z[0] = w[0] /\ w[0] = Start BY <2>1
      <4> QED BY <3>1, <4>1
    <3>2. CASE k = m + 1
      <4>1. z[k] = Look(w[m], c[m + 1]) /\ z[m] = w[m] BY <3>2
      <4>2. r[k] = Look(z[m], c[m + 1])
        <5>1. k # 0 /\ k - 1 = m BY <3>2
        <5> HIDE DEF z
        <5> QED BY <3>2, <5>1
      <4> QED BY <4>1, <4>2
    <3>3. CASE k # 0 /\ k # m + 1
      <4>1. k - 1 \in 0..m /\ k \in 0..m BY <3>3
      <4>2. z[k] = w[k] /\ z[k - 1] = w[k - 1] BY <3>3, <4>1
      <4>3. w[k] = Look(w[k - 1], c[k]) BY <2>1, <3>3, <4>1
      <4>4. r[k] = Look(z[k - 1], c[k])
        <5> HIDE DEF z
        <5> QED BY <3>3
      <4> QED BY <4>2, <4>3, <4>4
    <3> QED BY <3>1, <3>2, <3>3
  <2>3. z = r
    <3>1. DOMAIN z = 0..(m + 1) /\ DOMAIN r = 0..(m + 1) OBVIOUS
    <3>2. z = [k \in 0..(m + 1) |-> z[k]] /\ r = [k \in 0..(m + 1) |-> r[k]] OBVIOUS
    <3> HIDE DEF z, r
    <3> QED BY <2>2, <3>1, <3>2
  <2>4. Walked(z, m + 1) BY <2>3
  <2> HIDE DEF z, Walked
  <2> QED BY <2>4
<1>3. Len(c) \in Good
  <2> HIDE DEF Good
  <2> QED BY <1>1, <1>2, Upwards
<1>4. \E w : Walked(w, Len(c)) BY <1>3
<1>5. WalkOver(c) = CHOOSE w : Walked(w, Len(c)) BY DEF WalkOver
<1>6. Walked(WalkOver(c), Len(c))
  <2> HIDE DEF Walked
  <2> QED BY <1>4, <1>5
<1> HIDE DEF Good
<1>7. DOMAIN WalkOver(c) = 0..Len(c)
  BY <1>6
<1>8. WalkOver(c)[0] = Start
  <2>1. 0 \in 0..Len(c) OBVIOUS
  <2> QED BY <1>6, <2>1
<1>9. ASSUME NEW k \in 1..Len(c) PROVE WalkOver(c)[k] = Look(WalkOver(c)[k - 1], c[k])
  <2>1. k \in 0..Len(c) /\ k # 0 OBVIOUS
  <2> QED BY <1>6, <2>1
<1> QED BY <1>8, <1>9

\* The walk stands as it should after the last look, or after the one that
\* completed the streak.
LEMMA WalkEndsOK ==
    ASSUME NEW c \in Seq(Pass)
    PROVE  \E m \in 0..Len(c) : /\ WalkOK(c, m, WalkOver(c)[Len(c)])
                                /\ m = Len(c) \/ Complete(WalkOver(c)[Len(c)])
<1> DEFINE w == WalkOver(c)
           Stands(k, m) == WalkOK(c, m, w[k]) /\ (m = k \/ Complete(w[k]))
           Good == {k \in Nat : k <= Len(c) => \E m \in 0..k : Stands(k, m)}
<1>1. /\ w[0] = Start
      /\ \A k \in 1..Len(c) : w[k] = Look(w[k - 1], c[k])
  BY WalkStepByStep
<1> HIDE DEF w
<1>2. 0 \in Good
  <2>1. Stands(0, 0) BY <1>1, StartOK
  <2> HIDE DEF Stands
  <2> QED BY <2>1
<1>3. ASSUME NEW k \in Nat, k \in Good PROVE k + 1 \in Good
  <2> SUFFICES ASSUME k + 1 <= Len(c) PROVE \E m \in 0..(k + 1) : Stands(k + 1, m)
    OBVIOUS
  <2>1. PICK m \in 0..k : Stands(k, m)
    <3> HIDE DEF Stands
    <3> QED BY <1>3
  <2>2. w[k + 1] = Look(w[k], c[k + 1])
    <3>1. k + 1 \in 1..Len(c) /\ (k + 1) - 1 = k OBVIOUS
    <3> QED BY <3>1, <1>1
  <2>3. CASE Complete(w[k])
    <3>1. w[k + 1] = w[k] BY <2>2, <2>3, CompleteStays
    <3>2. Stands(k + 1, m) BY <2>1, <2>3, <3>1
    <3> HIDE DEF Stands
    <3> QED BY <3>2
  <2>4. CASE ~Complete(w[k])
    <3>1. WalkOK(c, k, w[k]) BY <2>1, <2>4
    <3>2. k + 1 \in 1..Len(c) OBVIOUS
    <3>3. WalkOK(c, k + 1, Look(w[k], c[k + 1])) BY <3>1, <3>2, <2>4, LookKeeps
    <3>4. Stands(k + 1, k + 1) BY <2>2, <3>3
    <3> HIDE DEF Stands
    <3> QED BY <3>4
  <2> QED BY <2>3, <2>4
<1>4. Len(c) \in Good
  <2> HIDE DEF Good
  <2> QED BY <1>2, <1>3, Upwards
<1>5. PICK m \in 0..Len(c) : Stands(Len(c), m)
  <2> HIDE DEF Stands
  <2> QED BY <1>4
<1> QED BY <1>5 DEF w

----------------------------------------------------------------------------
(***************************************************************************)
(* How far a streak reaches.  "The span is measured first-to-last clean    *)
(* pass and must satisfy <= 24h", says verification.ts; the code compares  *)
(* neighbours.                                                             *)
(***************************************************************************)
SpanOf(streak) == streak[Len(streak)].at - streak[1].at

LEMMA OneMore ==
    ASSUME NEW a \in Nat, NEW b \in Nat
    PROVE  (a + 1) * b = a * b + b /\ a * b \in Nat
OBVIOUS

\* Passes of task t, each as late after the one before as the rule allows.
Spread(t) ==
    [i \in 1..Required |-> [id |-> i, of |-> t, at |-> (i - 1) * Within, clean |-> TRUE]]

\* Under a rule of three passes or more, the walk closes on a streak that spans more
\* than the window: for three passes, twice the window.
THEOREM SpanOutgrowsWindow ==
    ASSUME Required >= 3, Within >= 1, NEW t \in Task
    PROVE  \E sequence \in Seq(Pass) :
             LET end == WalkOver(sequence)[Len(sequence)]
             IN  /\ \A i \in 1..(Len(sequence) - 1) : Before(sequence[i], sequence[i + 1])
                 /\ Complete(end)
                 /\ SpanOf(end.streak) = (Required - 1) * Within
                 /\ SpanOf(end.streak) > Within
<1>1. PICK c : c = Spread(t) OBVIOUS
<1>2. ASSUME NEW i \in 1..Required
      PROVE  /\ i - 1 \in Nat /\ (i - 1) * Within \in Nat
             /\ c[i] \in Pass /\ c[i].at = (i - 1) * Within /\ c[i].clean /\ c[i].id = i
  <2>1. i - 1 \in Nat /\ i \in Nat OBVIOUS
  <2>2. (i - 1) * Within \in Nat BY <2>1, OneMore
  <2>3. c[i] = [id |-> i, of |-> t, at |-> (i - 1) * Within, clean |-> TRUE]
    BY <1>1 DEF Spread
  <2>4. c[i] \in Pass BY ONLY <2>1, <2>2, <2>3, t \in Task DEF Pass
  <2> QED BY <2>1, <2>2, <2>3, <2>4
<1>3. c \in Seq(Pass) /\ Len(c) = Required
  <2>1. c = [i \in 1..Required |-> c[i]] BY <1>1 DEF Spread
  <2>2. \A i \in 1..Required : c[i] \in Pass BY <1>2
  <2>3. c \in [1..Required -> Pass] BY ONLY <2>1, <2>2
  <2>4. Required \in Nat OBVIOUS
  <2> QED BY ONLY <2>3, <2>4
<1>4. ASSUME NEW i \in 1..(Required - 1)
      PROVE  c[i + 1].at - c[i].at = Within /\ Before(c[i], c[i + 1])
  <2>1. i \in 1..Required /\ i + 1 \in 1..Required /\ i - 1 \in Nat OBVIOUS
  <2>2. i * Within = (i - 1) * Within + Within /\ (i - 1) * Within \in Nat
    <3>1. (i - 1) + 1 = i OBVIOUS
    <3> QED BY ONLY <2>1, <3>1, OneMore, Within \in Nat
  <2>3. c[i].at = (i - 1) * Within BY <1>2, <2>1
  <2>4. c[i + 1].at = i * Within
    <3>1. (i + 1) - 1 = i OBVIOUS
    <3> QED BY <1>2, <2>1, <3>1
  <2>5. PICK x \in Nat : x = (i - 1) * Within BY <2>2
  <2>6. c[i].at = x /\ c[i + 1].at = x + Within BY <2>2, <2>3, <2>4, <2>5
  <2> QED BY ONLY <2>6, Within \in Nat, Within >= 1, x \in Nat DEF Before
<1>5. Satisfied(c, Required)
  <2>1. Required - Required + 1 = 1 OBVIOUS
  <2>2. CleanRun(c, 1, Required) BY <1>2, <1>4 DEF CleanRun
  <2> QED BY <2>1, <2>2 DEF Satisfied
<1>6. PICK end : end = WalkOver(c)[Len(c)] OBVIOUS
<1>7. PICK m \in 0..Required : WalkOK(c, m, end) /\ (m = Required \/ Complete(end))
  BY <1>3, <1>6, WalkEndsOK
<1>8. /\ Complete(end) /\ m = Required /\ Len(end.streak) = Required
  <2>1. Len(end.streak) <= m /\ Len(end.streak) \in Nat /\ Len(end.streak) <= Required
    BY <1>7 DEF WalkOK
  <2>2. m = Required BY <1>7, <2>1 DEF Complete
  <2>3. Complete(end)
    <3>1. Required \in 1..m BY <2>2
    <3> QED BY <1>5, <1>7, <3>1 DEF WalkOK
  <2> QED BY <2>1, <2>2, <2>3 DEF Complete
<1>9. end.streak[1] = c[1] /\ end.streak[Required] = c[Required]
  <2>1. \A i \in 1..Required : end.streak[i] = c[Required - Required + i]
    BY <1>7, <1>8 DEF WalkOK
  <2>2. Required - Required + 1 = 1 /\ Required - Required + Required = Required
        /\ 1 \in 1..Required /\ Required \in 1..Required
    OBVIOUS
  <2> QED BY <2>1, <2>2
<1>10. SpanOf(end.streak) = (Required - 1) * Within
  <2>1. c[1].at = 0
    <3>1. (1 - 1) * Within = 0 OBVIOUS
    <3> QED BY <1>2, <3>1
  <2>2. c[Required].at = (Required - 1) * Within /\ (Required - 1) * Within \in Nat
    BY <1>2
  <2> QED BY <1>8, <1>9, <2>1, <2>2 DEF SpanOf
<1>11. (Required - 1) * Within > Within
  <2>1. PICK k \in Nat : k = Required - 3 OBVIOUS
  <2>2. (Required - 1) * Within = k * Within + Within + Within /\ k * Within \in Nat
    <3>1. (k + 1) + 1 = Required - 1 /\ k + 1 \in Nat BY <2>1
    <3>2. ((k + 1) + 1) * Within = (k + 1) * Within + Within BY <3>1, OneMore
    <3>3. (k + 1) * Within = k * Within + Within /\ k * Within \in Nat BY OneMore
    <3> QED BY <3>1, <3>2, <3>3
  <2>3. PICK x \in Nat : x = k * Within BY <2>2
  <2>4. x + Within + Within > Within BY ONLY x \in Nat, Within \in Nat, Within >= 1
  <2> QED BY <2>2, <2>3, <2>4
<1>12. /\ \A i \in 1..(Len(c) - 1) : Before(c[i], c[i + 1])
       /\ SpanOf(end.streak) > Within
  BY <1>3, <1>4, <1>10, <1>11
<1> QED BY <1>3, <1>6, <1>8, <1>10, <1>12

\* What the code keeps instead: a window for each pass after the first.
SpanWithinGaps == Complete(scan) => SpanOf(scan.streak) <= (Required - 1) * Within

THEOREM SpanBound == ScanSpec => []SpanWithinGaps
<1>1. ASSUME ScanIInv, Complete(scan) PROVE SpanOf(scan.streak) <= (Required - 1) * Within
  <2>1. PICK a : a = scan.streak OBVIOUS
  <2>2. /\ Len(a) = Required /\ Required <= n /\ n \in Nat /\ n <= Len(looks)
        /\ looks \in Seq(Pass)
        /\ \A i \in 1..Required : a[i] = looks[n - Required + i]
        /\ CleanRun(looks, n - Required + 1, n)
    <3>1. looks \in Seq(Pass) /\ n \in 0..Len(looks) /\ WalkOK(looks, n, scan)
      BY <1>1 DEF ScanIInv, ScanTypeOK
    <3>2. Len(a) = Required /\ Required <= n
      BY <1>1, <2>1, <3>1 DEF WalkOK, Complete
    <3>3. /\ \A i \in 1..Required : a[i] = looks[n - Required + i]
          /\ CleanRun(looks, n - Required + 1, n)
      BY <2>1, <3>1, <3>2 DEF WalkOK
    <3> QED BY <3>1, <3>2, <3>3
  <2>3. ASSUME NEW i \in 1..Required PROVE a[i].at \in Nat
    <3>1. n - Required + i \in 1..Len(looks) BY <2>2
    <3>2. looks[n - Required + i] \in Pass BY <2>2, <3>1
    <3> QED BY <2>2, <3>2 DEF Pass
  <2>4. ASSUME NEW i \in 1..(Required - 1) PROVE a[i + 1].at - a[i].at <= Within
    <3>1. PICK k : k = n - Required + i OBVIOUS
    <3>2. k \in (n - Required + 1)..(n - 1) /\ k + 1 = n - Required + (i + 1)
      BY <2>2, <3>1
    <3>3. looks[k + 1].at - looks[k].at \in 1..Within BY <2>2, <3>2 DEF CleanRun
    <3>4. i \in 1..Required /\ i + 1 \in 1..Required OBVIOUS
    <3>5. a[i] = looks[k] /\ a[i + 1] = looks[k + 1] BY <2>2, <3>1, <3>2, <3>4
    <3> QED BY <3>3, <3>5
  <2> DEFINE Good == {i \in Nat : i + 1 <= Required => a[i + 1].at - a[1].at <= i * Within}
  <2>5. 0 \in Good
    <3>1. 1 \in 1..Required /\ a[1].at \in Nat BY <2>3
    <3> QED BY <3>1
  <2>6. ASSUME NEW i \in Nat, i \in Good PROVE i + 1 \in Good
    <3> SUFFICES ASSUME i + 2 <= Required
                 PROVE  a[i + 2].at - a[1].at <= (i + 1) * Within
      <4>1. (i + 1) + 1 = i + 2 /\ i + 1 \in Nat OBVIOUS
      <4> QED BY <4>1
    <3>1. /\ 1 \in 1..Required /\ i + 1 \in 1..(Required - 1) /\ (i + 1) + 1 = i + 2
          /\ i + 1 \in 1..Required /\ i + 2 \in 1..Required
      OBVIOUS
    <3>2. a[1].at \in Nat /\ a[i + 1].at \in Nat /\ a[i + 2].at \in Nat BY <2>3, <3>1
    <3>3. a[i + 2].at - a[i + 1].at <= Within
      <4>1. a[(i + 1) + 1].at - a[i + 1].at <= Within BY <2>4, <3>1
      <4> QED BY <3>1, <4>1
    <3>4. a[i + 1].at - a[1].at <= i * Within BY <2>6, <3>1
    <3>5. (i + 1) * Within = i * Within + Within /\ i * Within \in Nat BY OneMore
    <3>6. PICK x \in Nat, y \in Nat, z \in Nat, p \in Nat :
            x = a[1].at /\ y = a[i + 1].at /\ z = a[i + 2].at /\ p = i * Within
      BY <3>2, <3>5
    <3>7. z - y <= Within /\ y - x <= p BY <3>3, <3>4, <3>6
    <3>8. z - x <= p + Within BY ONLY <3>7, x \in Nat, y \in Nat, z \in Nat, p \in Nat, Within \in Nat
    <3> QED BY <3>5, <3>6, <3>8
  <2>7. Required - 1 \in Good
    <3>1. Required - 1 \in Nat OBVIOUS
    <3> HIDE DEF Good
    <3> QED BY <2>5, <2>6, <3>1, Upwards
  <2>8. a[Required].at - a[1].at <= (Required - 1) * Within
    <3>1. (Required - 1) + 1 = Required OBVIOUS
    <3> QED BY <2>7, <3>1
  <2> QED BY <2>1, <2>2, <2>8 DEF SpanOf
<1>2. ScanIInv => SpanWithinGaps BY <1>1 DEF SpanWithinGaps
<1> QED BY <1>2, ScanInvariance, PTL

\* Passes with ids of their own stand in one order, each of them once.
LEMMA SortedLists ==
    ASSUME NEW S \in SUBSET Pass, IsFiniteSet(S), \A p, q \in S : p.id = q.id => p = q
    PROVE  /\ Sorted(S) \in Seq(S) /\ Len(Sorted(S)) = Cardinality(S)
           /\ \A p \in S : \E i \in 1..Len(Sorted(S)) : Sorted(S)[i] = p
           /\ \A i, j \in 1..Len(Sorted(S)) : i < j => Before(Sorted(S)[i], Sorted(S)[j])
<1> DEFINE c == Cardinality(S)
           Ahead(p) == {q \in S : Before(q, p)}
           rank == [p \in S |-> Cardinality(Ahead(p))]
<1>1. c \in Nat BY FS_CardinalityType
<1>2. \A p \in S : p.id \in Nat /\ p.at \in Nat BY DEF Pass
<1>3. ASSUME NEW p \in S
      PROVE  IsFiniteSet(Ahead(p)) /\ rank[p] \in 0..(c - 1) /\ rank[p] \in Nat
  <2>1. Ahead(p) \subseteq S /\ p \notin Ahead(p) BY <1>2 DEF Before
  <2>2. IsFiniteSet(Ahead(p)) /\ Cardinality(Ahead(p)) <= c
        /\ (c = Cardinality(Ahead(p)) => S = Ahead(p))
    BY <2>1, FS_Subset
  <2>3. Cardinality(Ahead(p)) \in Nat BY <2>2, FS_CardinalityType
  <2>4. Cardinality(Ahead(p)) # c BY <2>1, <2>2
  <2> QED BY <1>1, <2>2, <2>3, <2>4
<1>4. ASSUME NEW p \in S, NEW q \in S, Before(p, q) PROVE rank[p] < rank[q]
  <2>1. Ahead(p) \subseteq Ahead(q) /\ p \in Ahead(q) /\ p \notin Ahead(p)
    BY <1>2, <1>4 DEF Before
  <2>2. /\ Cardinality(Ahead(p)) <= Cardinality(Ahead(q))
        /\ (Cardinality(Ahead(q)) = Cardinality(Ahead(p)) => Ahead(q) = Ahead(p))
    BY <2>1, <1>3, FS_Subset
  <2>3. rank[p] \in Nat /\ rank[q] \in Nat BY <1>3
  <2> QED BY <2>1, <2>2, <2>3
<1>5. ASSUME NEW p \in S, NEW q \in S, p # q PROVE Before(p, q) \/ Before(q, p)
  BY <1>2, <1>5 DEF Before
<1>6. \A p, q \in S : rank[p] = rank[q] => p = q
  <2> SUFFICES ASSUME NEW p \in S, NEW q \in S, p # q PROVE rank[p] # rank[q]
    OBVIOUS
  <2>1. rank[p] \in Nat /\ rank[q] \in Nat BY <1>3
  <2>2. rank[p] < rank[q] \/ rank[q] < rank[p] BY <1>4, <1>5
  <2> QED BY <2>1, <2>2
<1> HIDE DEF rank
<1>7. rank \in Surjection(S, 0..(c - 1))
  <2>1. rank \in [S -> 0..(c - 1)] BY <1>3 DEF rank
  <2>2. rank \in Injection(S, 0..(c - 1)) BY <2>1, <1>6 DEF Injection, IsInjective
  <2>3. IsFiniteSet(0..(c - 1)) /\ Cardinality(0..(c - 1)) = c
    <3>1. c \in Nat BY <1>1
    <3>2. 0 \in Int /\ c - 1 \in Int /\ (0 > c - 1 => c = 0) /\ (c - 1) - 0 + 1 = c
      BY ONLY <3>1
    <3> QED BY ONLY <3>2, FS_Interval
  <2> QED BY <2>2, <2>3, FS_Injection
<1> DEFINE s == Sorted(S)
<1>8. ASSUME NEW i \in 1..c PROVE s[i] \in S /\ rank[s[i]] = i - 1
  <2>1. \E p \in S : rank[p] = i - 1
    <3>1. i - 1 \in 0..(c - 1) BY <1>1
    <3> QED BY <3>1, <1>7 DEF Surjection
  <2>2. \E p \in S : Cardinality(Ahead(p)) = i - 1 BY <2>1 DEF rank
  <2>3. s[i] = CHOOSE p \in S : Cardinality(Ahead(p)) = i - 1 BY DEF Sorted
  <2>4. s[i] \in S /\ Cardinality(Ahead(s[i])) = i - 1
    <3> HIDE DEF Ahead, s
    <3> QED BY <2>2, <2>3
  <2> QED BY <2>4 DEF rank
<1>9. s \in Seq(S) /\ Len(s) = c
  <2> DEFINE Nth(i) == CHOOSE p \in S : Cardinality({q \in S : Before(q, p)}) = i - 1
  <2>1. s = [i \in 1..c |-> Nth(i)] BY DEF Sorted
  <2> HIDE DEF s, Nth
  <2>2. \A i \in 1..c : s[i] = Nth(i) BY <2>1
  <2>3. \A i \in 1..c : Nth(i) \in S BY <2>2, <1>8
  <2> QED BY <2>1, <2>3, <1>1
<1> HIDE DEF s
<1>10. ASSUME NEW p \in S PROVE \E i \in 1..c : s[i] = p
  <2>1. rank[p] \in 0..(c - 1) BY <1>3 DEF rank
  <2>2. rank[p] + 1 \in 1..c /\ (rank[p] + 1) - 1 = rank[p] BY <2>1, <1>1
  <2>3. s[rank[p] + 1] \in S /\ rank[s[rank[p] + 1]] = rank[p] BY <2>2, <1>8
  <2> QED BY <2>2, <2>3, <1>6
<1>11. ASSUME NEW i \in 1..c, NEW j \in 1..c, i < j PROVE Before(s[i], s[j])
  <2>1. /\ s[i] \in S /\ s[j] \in S /\ rank[s[i]] = i - 1 /\ rank[s[j]] = j - 1
    BY <1>8
  <2>2. s[i] # s[j] BY <2>1, <1>11, <1>1
  <2>3. ~Before(s[j], s[i])
    <3> SUFFICES ASSUME Before(s[j], s[i]) PROVE FALSE OBVIOUS
    <3>1. rank[s[j]] < rank[s[i]]
      <4> HIDE DEF Ahead
      <4> QED BY <1>4, <2>1 DEF rank
    <3> QED BY <3>1, <2>1, <1>11, <1>1
  <2> QED BY <2>1, <2>2, <2>3, <1>5
<1> QED BY <1>9, <1>10, <1>11 DEF s

-----------------------------------------------------------------------------
(* The loop. *)

HIDE InputAssumption
USE LoopAssumption

\* The commands callers give, with the data each needs.
CommandOK(command) ==
    /\ command.kind \in {"assign", "acknowledge", "start", "resolve",
                         "confirm_verification", "reopen", "cancel", "expire"}
    /\ command.kind # "confirm_verification" => command.at \in Int
    /\ command.kind = "assign" => command.assignee \in Employee
    /\ command.kind = "reopen" => command.reason \in ReopenReason

\* From one version of a task to the next.
Kept(task, next) ==
    /\ TaskOK(next)
    /\ task.state.status \notin TerminalStatuses
    /\ next.failedVerifications >= task.failedVerifications
    /\ next.priority >= task.priority

\* A closed task takes no command.
LEMMA OpenStatus ==
    ASSUME NEW task, NEW command, TaskOK(task), Legal(task, command)
    PROVE  task.state.status \notin TerminalStatuses
BY DEF Legal, AllowedTransitions, TerminalStatuses, TaskOK, Status

LEMMA AdvancedOK ==
    ASSUME NEW task, NEW command, TaskOK(task), CommandOK(command), Legal(task, command)
    PROVE  LET s == Advanced(task, command)
           IN  /\ s.status = Target(task, command)
               /\ s.status \in Status
               /\ s.status \in Held => s.at \in Int /\ s.assignee \in Employee
               /\ s.status = "reopened" =>
                    /\ command.kind = "reopen"
                    /\ s.reason \in ReopenReason
                    /\ s.failedAttempts = task.failedVerifications + 1
<1> DEFINE to == Target(task, command)
           s == Advanced(task, command)
<1>1. to \in Status BY DEF CommandOK, Target, Status
<1>2. CASE to = "assigned"
  <2>1. command.kind = "assign" BY <1>2 DEF CommandOK, Target
  <2>2. s = [status |-> to, at |-> command.at, assignee |-> command.assignee]
    BY <1>2 DEF Advanced
  <2> QED BY <1>1, <1>2, <2>1, <2>2 DEF CommandOK
<1>3. CASE to \in Held \ {"assigned"}
  <2>1. s = [status |-> to, at |-> command.at, assignee |-> task.state.assignee]
    BY <1>3 DEF Advanced, Held
  <2>2. command.kind \in {"acknowledge", "start", "resolve"}
    BY <1>3 DEF CommandOK, Target, Held
  <2>3. task.state.status \in Held
    BY <2>2 DEF Legal, StartsFrom, Held
  <2> QED BY <1>1, <1>3, <2>1, <2>2, <2>3 DEF CommandOK, TaskOK, Held
<1>4. CASE to = "reopened"
  <2>1. command.kind = "reopen" BY <1>4 DEF CommandOK, Target
  <2>2. s = [status |-> to, at |-> command.at, reason |-> command.reason,
             failedAttempts |-> task.failedVerifications + 1]
    BY <1>4 DEF Advanced, Held
  <2> QED BY <1>1, <1>4, <2>1, <2>2 DEF CommandOK, Held
<1>5. CASE to \notin Held /\ to # "reopened"
  <2>1. CASE to = "verified"
    <3>1. s = [status |-> to, at |-> command.at,
               by |-> IF command.kind = "resolve" THEN <<>>
                      ELSE <<command.firstPass, command.secondPass>>]
      BY <2>1 DEF Advanced, Held
    <3> QED BY <3>1, <1>1, <1>5
  <2>2. CASE to # "verified"
    <3>1. s = [status |-> to, at |-> command.at]
      BY <1>5, <2>2 DEF Advanced, Held
    <3> QED BY <3>1, <1>1, <1>5
  <2> QED BY <2>1, <2>2
<1> QED BY <1>2, <1>3, <1>4, <1>5

LEMMA CommandKeeps ==
    ASSUME NEW task, NEW command, TaskOK(task), CommandOK(command), Legal(task, command)
    PROVE  Kept(task, ApplyTaskCommand(task, command))
<1> DEFINE next == ApplyTaskCommand(task, command)
<1>1. /\ DOMAIN next = DOMAIN task
      /\ next.state = Advanced(task, command)
      /\ next.priority = task.priority
      /\ next.requiresVerification = task.requiresVerification
      /\ next.failedVerifications =
           IF command.kind = "reopen" THEN task.failedVerifications + 1
           ELSE task.failedVerifications
  BY DEF ApplyTaskCommand, TaskOK
<1>2. task.failedVerifications \in Nat /\ task.priority \in 0..3
  BY DEF TaskOK, Priority
<1>3. TaskOK(next)
  BY <1>1, <1>2, AdvancedOK DEF TaskOK
<1>4. next.failedVerifications >= task.failedVerifications
  BY <1>1, <1>2
<1>5. next.priority >= task.priority
  BY <1>1, <1>2
<1> QED BY <1>3, <1>4, <1>5, OpenStatus DEF Kept

LEMMA EscalationKeeps ==
    ASSUME NEW task, NEW at \in Int, NEW reason \in ReopenReason, TaskOK(task),
           task.state.status = "awaiting_verification"
    PROVE  Kept(task, EscalateTask(task, at, reason))
<1> DEFINE command == [kind |-> "reopen", at |-> at, reason |-> reason]
           next == ApplyTaskCommand(task, command)
           raised == EscalateTask(task, at, reason)
<1>1. CommandOK(command) BY DEF CommandOK
<1>2. Legal(task, command)
  BY DEF Legal, StartsFrom, Target, AllowedTransitions, Status
<1>3. Kept(task, next) BY <1>1, <1>2, CommandKeeps
<1>4. /\ DOMAIN raised = DOMAIN next
      /\ raised.state = next.state
      /\ raised.requiresVerification = next.requiresVerification
      /\ raised.failedVerifications = next.failedVerifications
      /\ raised.priority = RaisePriority(task.priority)
  BY <1>3 DEF EscalateTask, Kept, TaskOK
<1>5. /\ task.priority \in 0..3
      /\ RaisePriority(task.priority) \in 0..3
      /\ RaisePriority(task.priority) >= task.priority
  BY DEF TaskOK, Priority, RaisePriority
<1> QED BY <1>3, <1>4, <1>5 DEF Kept, TaskOK, Priority

LEMMA InitOK == Init => TypeOK
<1> SUFFICES ASSUME Init PROVE TypeOK OBVIOUS
<1>1. ASSUME NEW t \in Raised PROVE TaskOK(tasks[t])
  <2>1. PICK s \in BOOLEAN : tasks[t] = CreateTask(InitialPriority, s, 0)
    BY DEF Init
  <2>2. /\ DOMAIN tasks[t] = {"state", "priority", "requiresVerification",
                              "failedVerifications", "updatedAt"}
        /\ tasks[t].state = [status |-> "created", at |-> 0]
        /\ tasks[t].priority = InitialPriority
        /\ tasks[t].requiresVerification = s
        /\ tasks[t].failedVerifications = 0
    BY <2>1 DEF CreateTask
  <2> QED BY <2>2 DEF TaskOK, Status, Held, Priority
<1> QED BY <1>1 DEF Init, TypeOK

\* Each task is left alone or moved on by a command or an escalation.
Moved(t) == tasks'[t] = tasks[t] \/ Kept(tasks[t], tasks'[t])

LEMMA DoMoves ==
    ASSUME TypeOK, NEW u \in Raised, NEW command, CommandOK(command), Do(u, command)
    PROVE  DOMAIN tasks' = Raised /\ \A t \in Raised : Moved(t)
<1>1. Kept(tasks[u], ApplyTaskCommand(tasks[u], command))
  BY CommandKeeps DEF TypeOK, Do
<1>2. tasks' = [tasks EXCEPT ![u] = ApplyTaskCommand(tasks[u], command)]
  BY DEF Do
<1> QED BY <1>1, <1>2 DEF TypeOK, Moved

LEMMA PutBackMoves ==
    ASSUME TypeOK, NEW u \in Raised, NEW at \in Int, NEW reason \in ReopenReason,
           Awaiting(u), PutBack(u, at, reason)
    PROVE  DOMAIN tasks' = Raised /\ \A t \in Raised : Moved(t)
<1>1. Kept(tasks[u], EscalateTask(tasks[u], at, reason))
  BY EscalationKeeps DEF TypeOK, Awaiting
<1>2. tasks' = [tasks EXCEPT ![u] = EscalateTask(tasks[u], at, reason)]
  BY DEF PutBack
<1> QED BY <1>1, <1>2 DEF TypeOK, Moved

LEMMA StepMoves ==
    TypeOK /\ [Next]_vars => DOMAIN tasks' = Raised /\ \A t \in Raised : Moved(t)
<1> SUFFICES ASSUME TypeOK, [Next]_vars
             PROVE  DOMAIN tasks' = Raised /\ \A t \in Raised : Moved(t)
  OBVIOUS
<1> DEFINE Goal == DOMAIN tasks' = Raised /\ \A t \in Raised : Moved(t)
<1>0. now \in Int BY DEF TypeOK
<1>1. ASSUME UNCHANGED tasks PROVE Goal
  BY <1>1 DEF TypeOK, Moved
<1>2. ASSUME NEW id, NEW t, NEW at, NEW c,
             Arrive([id |-> id, of |-> t, at |-> at, clean |-> c])
      PROVE Goal
  BY <1>1, <1>2 DEF Arrive
<1>3. ASSUME NEW t \in Raised, Work(t) PROVE Goal
  <2>1. ASSUME NEW e \in Employee, Assign(t, e) PROVE Goal
    BY <1>0, <2>1, DoMoves DEF Assign, CommandOK
  <2>2. CASE Acknowledge(t) BY <1>0, <2>2, DoMoves DEF Acknowledge, CommandOK
  <2>3. CASE StartWork(t) BY <1>0, <2>3, DoMoves DEF StartWork, CommandOK
  <2>4. CASE Resolve(t) BY <1>0, <2>4, DoMoves DEF Resolve, CommandOK
  <2> QED BY <1>3, <2>1, <2>2, <2>3, <2>4 DEF Work
<1>4. ASSUME NEW t \in Raised, Overrule(t) PROVE Goal
  <2>1. CASE Reject(t) BY <1>0, <2>1, DoMoves DEF Reject, CommandOK, ReopenReason
  <2>2. CASE Cancel(t) BY <1>0, <2>2, DoMoves DEF Cancel, CommandOK
  <2>3. CASE Expire(t) BY <1>0, <2>3, DoMoves DEF Expire, CommandOK
  <2> QED BY <1>4, <2>1, <2>2, <2>3 DEF Overrule
<1>5. ASSUME NEW t \in Raised, NEW at \in (now - Lag)..now, Tick(t, at) PROVE Goal
  <2>0. at \in Int BY <1>0
  <2>1. CASE Close(t, at) BY <2>1, DoMoves DEF Close, CommandOK
  <2>2. CASE Regress(t, at)
    BY <2>0, <2>2, PutBackMoves DEF Regress, ReopenReason
  <2>3. CASE Lapse(t, at)
    BY <2>0, <2>3, PutBackMoves DEF Lapse, ReopenReason
  <2> QED BY <1>5, <2>1, <2>2, <2>3 DEF Tick
<1> QED BY <1>1, <1>2, <1>3, <1>4, <1>5 DEF Next, TimePasses, Rest, vars

LEMMA StepOK == TypeOK /\ [Next]_vars => TypeOK'
<1> SUFFICES ASSUME TypeOK, [Next]_vars PROVE TypeOK' OBVIOUS
<1>1. DOMAIN tasks' = Raised /\ \A t \in Raised : TaskOK(tasks'[t])
  BY StepMoves DEF Moved, Kept, TypeOK
<1>2. now' \in Nat /\ passes' \subseteq Pass
  <2>1. CASE TimePasses BY <2>1 DEF TimePasses, TypeOK
  <2>2. ASSUME NEW p, Arrive(p) PROVE now' \in Nat /\ passes' \subseteq Pass
    BY <2>2 DEF Arrive, TypeOK
  <2>3. ASSUME UNCHANGED <<now, passes>> PROVE now' \in Nat /\ passes' \subseteq Pass
    BY <2>3 DEF TypeOK
  <2>4. ASSUME NEW t, NEW command, Do(t, command) PROVE UNCHANGED <<now, passes>>
    BY <2>4 DEF Do
  <2>5. ASSUME NEW t \in Raised, Work(t) \/ Overrule(t) PROVE UNCHANGED <<now, passes>>
    BY <2>4, <2>5 DEF Work, Overrule, Assign, Acknowledge, StartWork, Resolve,
                      Reject, Cancel, Expire
  <2>6. ASSUME NEW t \in Raised, NEW at, Tick(t, at) PROVE UNCHANGED <<now, passes>>
    BY <2>4, <2>6 DEF Tick, Close, Regress, Lapse, PutBack
  <2> QED BY <2>1, <2>2, <2>3, <2>5, <2>6 DEF Next, Rest, vars
<1> QED BY <1>1, <1>2 DEF TypeOK

\* Whatever is asked of it, a task holds exactly what its state has.
THEOREM TypeCorrectness == Spec => []TypeOK
BY InitOK, StepOK, PTL DEF Spec

\* No command, pass or tick reaches a closed task.
THEOREM ClosedStayClosed == Spec => TerminalIsFinal
<1>1. TypeOK /\ [Next]_vars =>
        [\A t \in Raised : Closed(t) => tasks'[t] = tasks[t]]_vars
  BY StepMoves DEF Moved, Kept, Closed
<1> QED BY <1>1, TypeCorrectness, PTL DEF Spec, TerminalIsFinal

\* A task's failed attempts and the urgency they earned it are never taken back.
THEOREM BouncesAreKept == Spec => BouncesStick
<1>1. TypeOK /\ [Next]_vars => [NeverTakenBack]_vars
  <2> SUFFICES ASSUME TypeOK, [Next]_vars, NEW t \in Raised
               PROVE  /\ tasks'[t].failedVerifications >= tasks[t].failedVerifications
                      /\ tasks'[t].priority >= tasks[t].priority
    BY DEF NeverTakenBack
  <2>1. tasks[t].failedVerifications \in Nat /\ tasks[t].priority \in 0..3
    BY DEF TypeOK, TaskOK, Priority
  <2>2. CASE tasks'[t] = tasks[t] BY <2>1, <2>2
  <2>3. CASE Kept(tasks[t], tasks'[t]) BY <2>3 DEF Kept
  <2> QED BY <2>2, <2>3, StepMoves DEF Moved
<1> QED BY <1>1, TypeCorrectness, PTL DEF Spec, BouncesStick
----------------------------------------------------------------------------
(***************************************************************************)
(* The loop decides by the passes that are there.                          *)
(***************************************************************************)
\* Passes are numbered as they arrive.
PassesNumbered ==
    /\ IsFiniteSet(passes)
    /\ \A p \in passes : p.id <= Cardinality(passes)
    /\ \A p, q \in passes : p.id = q.id => p = q

LEMMA NumberedInit == Init => PassesNumbered
BY FS_EmptySet DEF Init, PassesNumbered

LEMMA NumberedStep == TypeOK /\ PassesNumbered /\ [Next]_vars => PassesNumbered'
<1> SUFFICES ASSUME TypeOK, PassesNumbered, [Next]_vars PROVE PassesNumbered' OBVIOUS
<1>1. ASSUME UNCHANGED passes PROVE PassesNumbered'
  BY <1>1 DEF PassesNumbered
<1>2. ASSUME NEW p, p.id = Cardinality(passes) + 1, Arrive(p) PROVE PassesNumbered'
  <2>1. passes' = passes \cup {p} /\ p \in Pass BY <1>2 DEF Arrive
  <2>2. Cardinality(passes) \in Nat BY FS_CardinalityType DEF PassesNumbered
  <2>3. \A q \in passes : q.id \in Nat /\ q.id <= Cardinality(passes)
    BY DEF TypeOK, Pass, PassesNumbered
  <2>4. p \notin passes BY <1>2, <2>2, <2>3
  <2>5. IsFiniteSet(passes') /\ Cardinality(passes') = Cardinality(passes) + 1
    BY <2>1, <2>4, FS_AddElement DEF PassesNumbered
  <2>6. \A q \in passes' : q.id <= Cardinality(passes')
    BY <1>2, <2>1, <2>2, <2>3, <2>5
  <2>7. \A q, r \in passes' : q.id = r.id => q = r
    BY <1>2, <2>1, <2>2, <2>3 DEF PassesNumbered
  <2> QED BY <2>5, <2>6, <2>7 DEF PassesNumbered
<1>3. ASSUME NEW t \in Raised, Work(t) \/ Overrule(t) PROVE UNCHANGED passes
  BY <1>3 DEF Work, Overrule, Assign, Acknowledge, StartWork, Resolve, Reject, Cancel,
              Expire, Do
<1>4. ASSUME NEW t \in Raised, NEW at, Tick(t, at) PROVE UNCHANGED passes
  BY <1>4 DEF Tick, Close, Regress, Lapse, PutBack, Do
<1> QED BY <1>1, <1>2, <1>3, <1>4 DEF Next, TimePasses, Rest, vars

\* The passes a tick has to go by, in order.
Usable(t, at) == {p \in Visible(at) : Eligible(p, t, tasks[t].state.at)}
InTurn(t, at) == Sorted(Usable(t, at))

\* c holds each of the passes of S once, in order.
Lists(c, S) ==
    /\ c \in Seq(Pass) /\ Len(c) \in Nat
    /\ \A i \in 1..Len(c) : c[i] \in S /\ c[i] \in Pass /\ c[i].at \in Nat
    /\ \A p \in S : \E i \in 1..Len(c) : c[i] = p
    /\ \A i, j \in 1..Len(c) : i < j => Before(c[i], c[j])

LEMMA UsableInTurn ==
    ASSUME TypeOK, PassesNumbered, NEW t, NEW at
    PROVE  Lists(InTurn(t, at), Usable(t, at))
<1> DEFINE S == Usable(t, at)
<1>1. S \subseteq passes /\ S \in SUBSET Pass BY DEF Usable, Visible, TypeOK
<1>2. IsFiniteSet(S) BY <1>1, FS_Subset DEF PassesNumbered
<1>3. \A p, q \in S : p.id = q.id => p = q BY <1>1 DEF PassesNumbered
<1> HIDE DEF S
<1>4. /\ Sorted(S) \in Seq(S)
      /\ \A p \in S : \E i \in 1..Len(Sorted(S)) : Sorted(S)[i] = p
      /\ \A i, j \in 1..Len(Sorted(S)) : i < j => Before(Sorted(S)[i], Sorted(S)[j])
  BY <1>1, <1>2, <1>3, SortedLists
<1>5. PICK c : c = Sorted(S) OBVIOUS
<1>6. c \in Seq(Pass) /\ Len(c) \in Nat BY <1>1, <1>4, <1>5
<1>7. ASSUME NEW i \in 1..Len(c) PROVE c[i] \in S /\ c[i] \in Pass /\ c[i].at \in Nat
  <2>1. c[i] \in S BY <1>4, <1>5
  <2> QED BY <2>1, <1>1 DEF Pass
<1>8. Lists(c, S) BY <1>4, <1>5, <1>6, <1>7 DEF Lists
<1> QED BY <1>5, <1>8 DEF S, InTurn

\* Where the walk of a tick ends.
LEMMA TickWalk ==
    ASSUME TypeOK, PassesNumbered, NEW t, NEW at
    PROVE  \E m \in 0..Len(InTurn(t, at)) :
             /\ WalkOK(InTurn(t, at), m, Evaluated(t, at))
             /\ m = Len(InTurn(t, at)) \/ Complete(Evaluated(t, at))
<1>1. InTurn(t, at) \in Seq(Pass) BY UsableInTurn DEF Lists
<1>2. Evaluated(t, at) = WalkOver(InTurn(t, at))[Len(InTurn(t, at))]
  BY DEF Evaluated, EvaluateVerification, Candidates, InTurn, Usable
<1> QED BY <1>1, <1>2, WalkEndsOK

\* A completed walk has found evidence, with the streak's first and last pass in it.
Proven(t, until, first, last) ==
    \E proof \in Evidence(t, tasks[t].state.at, until) :
      /\ first \in proof /\ last \in proof
      /\ \A q \in proof : q.at <= last.at

LEMMA CompleteIsEvidence ==
    ASSUME TypeOK, PassesNumbered, NEW t \in Raised, NEW at \in Int, NEW until \in Int,
           at <= until, Awaiting(t), Complete(Evaluated(t, at))
    PROVE  LET streak == Evaluated(t, at).streak
           IN  Proven(t, until, streak[1], streak[Len(streak)])
<1>a. PICK c : c = InTurn(t, at) OBVIOUS
<1>b. PICK s : s = Evaluated(t, at) OBVIOUS
<1>c. PICK k : k = Len(s.streak) OBVIOUS
<1>d. PICK since : since = tasks[t].state.at OBVIOUS
<1>1. since \in Int BY <1>d DEF Awaiting, TypeOK, TaskOK, Held
<1>2. PICK m \in 0..Len(c) : WalkOK(c, m, s) BY <1>a, <1>b, TickWalk
<1>4. Lists(c, Usable(t, at)) BY <1>a, UsableInTurn
<1>3. /\ k = Required /\ k \in Nat \ {0} /\ k <= m /\ m \in 1..Len(c)
      /\ \A i \in 1..k : s.streak[i] = c[m - k + i]
      /\ CleanRun(c, m - k + 1, m)
  BY <1>b, <1>c, <1>2, <1>4 DEF WalkOK, Complete, Lists
<1> DEFINE I == (m - k + 1)..m
           proof == {c[i] : i \in I}
<1>5. I \subseteq 1..Len(c) BY <1>3
<1>6. ASSUME NEW i \in I
      PROVE  /\ c[i] \in passes /\ c[i] \in Pass /\ c[i].of = t /\ c[i].clean
             /\ c[i].at \in (since + 1)..at
  <2>1. c[i] \in Usable(t, at) /\ c[i] \in Pass /\ c[i].at \in Nat
    BY <1>4, <1>5 DEF Lists
  <2>2. c[i].clean BY <1>3 DEF CleanRun
  <2>3. c[i] \in passes /\ c[i].at <= at /\ c[i].of = t /\ c[i].at > since
    BY <1>d, <2>1 DEF Usable, Visible, Eligible
  <2> QED BY <1>1, <2>1, <2>2, <2>3
<1>7. ASSUME NEW i \in I, i + 1 \in I PROVE c[i + 1].at - c[i].at \in 1..Within
  <2>1. i \in (m - k + 1)..(m - 1) BY <1>3, <1>7
  <2> QED BY <2>1, <1>3 DEF CleanRun
<1>e. \A i \in I : c[i].at \in Int BY <1>1, <1>6
<1>8. ASSUME NEW i \in I, NEW j \in I, i < j PROVE c[i].at < c[j].at
  <2>1. i + 1 \in I /\ i \in Int /\ j \in Int BY <1>3, <1>8
  <2> HIDE DEF I, proof
  <2>2. c[i].at < c[i + 1].at
    <3>1. c[i].at \in Int /\ c[i + 1].at \in Int BY <1>e, <2>1
    <3>2. PICK x, y : x = c[i].at /\ y = c[i + 1].at OBVIOUS
    <3>3. y - x \in 1..Within BY <1>7, <2>1, <3>2
    <3>4. x \in Int /\ y \in Int BY <3>1, <3>2
    <3>5. x < y BY ONLY RuleAssumption, <3>3, <3>4
    <3> QED BY <3>2, <3>5
  <2>3. c[i + 1].at <= c[j].at
    <3>1. CASE i + 1 = j BY <3>1, <1>e
    <3>2. CASE i + 1 # j
      <4>1. i + 1 < j /\ i + 1 \in 1..Len(c) /\ j \in 1..Len(c)
        BY <3>2, <2>1, <1>5, <1>8
      <4>2. Before(c[i + 1], c[j]) BY <4>1, <1>4 DEF Lists
      <4>3. c[i + 1].at < c[j].at \/ c[i + 1].at = c[j].at BY ONLY <4>2 DEF Before
      <4>4. PICK x, y : x = c[i + 1].at /\ y = c[j].at OBVIOUS
      <4>5. x \in Int /\ y \in Int BY <1>e, <1>8, <2>1, <4>4
      <4>6. x < y \/ x = y BY ONLY <4>3, <4>4
      <4>7. x <= y BY ONLY <4>5, <4>6
      <4> QED BY ONLY <4>4, <4>7
    <3> QED BY <3>1, <3>2
  <2>4. PICK x, y, z : x = c[i].at /\ y = c[i + 1].at /\ z = c[j].at OBVIOUS
  <2>5. x \in Int /\ y \in Int /\ z \in Int BY <1>e, <2>1, <2>4
  <2>6. x < y /\ y <= z BY <2>2, <2>3, <2>4
  <2>7. x < z BY ONLY <2>5, <2>6
  <2> QED BY <2>4, <2>7
<1>9. proof \in SUBSET {p \in passes : p.of = t /\ p.clean /\ p.at \in (since + 1)..until}
  <2>1. \A x \in (since + 1)..at : x \in (since + 1)..until
    <3>1. at \in Int /\ until \in Int /\ at <= until OBVIOUS
    <3> QED BY ONLY <1>1, <3>1
  <2>2. ASSUME NEW i \in I
        PROVE  c[i] \in passes /\ c[i].of = t /\ c[i].clean /\ c[i].at \in (since + 1)..until
    BY <2>1, <2>2, <1>6
  <2> QED BY <2>2
<1>10. Cardinality(proof) = Required
  <2> DEFINE f == [i \in I |-> c[i]]
  <2>1. \A i, j \in I : c[i] = c[j] => i = j
    <3> SUFFICES ASSUME NEW i \in I, NEW j \in I, i # j PROVE c[i] # c[j] OBVIOUS
    <3>1. i < j \/ j < i BY <1>3
    <3> QED BY <3>1, <1>6, <1>8
  <2>2. f \in Bijection(I, proof)
    BY <2>1 DEF Bijection, Injection, Surjection, IsInjective
  <2>3. ExistsBijection(I, proof) BY <2>2 DEF ExistsBijection
  <2>4. IsFiniteSet(I) /\ Cardinality(I) = k
    <3>1. m - k + 1 \in Int /\ m \in Int /\ m - (m - k + 1) + 1 = k /\ m - k + 1 <= m
      BY <1>3
    <3> QED BY <3>1, FS_Interval
  <2> QED BY <2>3, <2>4, <1>3, FS_Bijection
<1>11. \A p, q \in proof : p # q => p.at # q.at
  <2> SUFFICES ASSUME NEW i \in I, NEW j \in I, c[i] # c[j] PROVE c[i].at # c[j].at
    OBVIOUS
  <2>1. i < j \/ j < i BY <1>3
  <2> QED BY <2>1, <1>6, <1>8
<1>12. \A p, q \in proof : p.at < q.at => \E r \in proof : r.at - p.at \in 1..Within
  <2>0. SUFFICES ASSUME NEW i \in I, NEW j \in I, c[i].at < c[j].at
               PROVE  \E r \in proof : r.at - c[i].at \in 1..Within
    OBVIOUS
  <2>1. i < j
    <3>1. i # j
      <4>1. c[i].at \in Int BY <2>0, <1>e
      <4> QED BY <4>1, <2>0
    <3>2. ~(j < i)
      <4>1. c[i].at \in Int /\ c[j].at \in Int BY <2>0, <1>e
      <4>2. j < i => c[j].at < c[i].at BY <2>0, <1>8
      <4> QED BY <4>1, <4>2, <2>0
    <3> QED BY <3>1, <3>2, <1>3
  <2>2. i + 1 \in I BY <2>1, <1>3
  <2>3. c[i + 1] \in proof /\ c[i + 1].at - c[i].at \in 1..Within BY <2>2, <1>7
  <2> QED BY <2>3
<1>13. ASSUME NEW d \in passes, d.of = t, ~d.clean
       PROVE  \/ \A p \in proof : Before(d, p)
              \/ \A p \in proof : Before(p, d)
  <2>1. d \in Pass /\ d.at \in Nat BY DEF TypeOK, Pass
  <2>2. CASE d.at <= since
    <3>1. \A i \in I : c[i].at > since BY <1>1, <1>6
    <3>2. \A i \in I : d.at < c[i].at BY <3>1, <2>1, <2>2, <1>1, <1>e
    <3>3. \A i \in I : Before(d, c[i]) BY <3>2 DEF Before
    <3> QED BY <3>3
  <2>3. CASE d.at > at
    <3>1. \A i \in I : c[i].at <= at BY <1>1, <1>6
    <3>2. \A i \in I : c[i].at < d.at BY <3>1, <2>1, <2>3, <1>e
    <3>3. \A i \in I : Before(c[i], d) BY <3>2 DEF Before
    <3> QED BY <3>3
  <2>4. CASE d.at > since /\ d.at <= at
    <3>1. d \in Usable(t, at) BY <1>d, <1>13, <2>4 DEF Usable, Visible, Eligible
    <3>2. PICK j \in 1..Len(c) : c[j] = d BY <3>1, <1>4 DEF Lists
    <3>3. j \notin I BY <3>2, <1>6, <1>13
    <3>4. j < m - k + 1 \/ j > m BY <3>3, <1>3
    <3>5. CASE j < m - k + 1
      <4>1. \A i \in I : j < i /\ i \in 1..Len(c) BY <3>5, <1>3, <1>5
      <4>2. \A i \in I : Before(d, c[i]) BY <4>1, <3>2, <1>4 DEF Lists
      <4> QED BY <4>2
    <3>6. CASE j > m
      <4>1. \A i \in I : i < j /\ i \in 1..Len(c) BY <3>6, <1>3, <1>5
      <4>2. \A i \in I : Before(c[i], d) BY <4>1, <3>2, <1>4 DEF Lists
      <4> QED BY <4>2
    <3> QED BY <3>4, <3>5, <3>6
  <2> QED BY <2>1, <2>2, <2>3, <2>4, <1>1
<1>14. proof \in Evidence(t, since, until)
  <2> HIDE DEF proof
  <2> QED BY <1>9, <1>10, <1>11, <1>12, <1>13 DEF Evidence
<1>15. s.streak[1] = c[m - k + 1] /\ s.streak[k] = c[m]
  <2>1. 1 \in 1..k /\ k \in 1..k /\ m - k + k = m BY <1>3
  <2> QED BY <2>1, <1>3
<1>16. m - k + 1 \in I /\ m \in I BY <1>3
<1>17. \A q \in proof : q.at <= c[m].at
  <2>0. SUFFICES ASSUME NEW i \in I PROVE c[i].at <= c[m].at OBVIOUS
  <2>1. i = m \/ i < m BY <1>3, <2>0
  <2>2. c[i].at = c[m].at \/ c[i].at < c[m].at BY <2>0, <2>1, <1>8, <1>16
  <2>3. PICK x, y : x = c[i].at /\ y = c[m].at OBVIOUS
  <2>4. x \in Int /\ y \in Int BY <2>0, <2>3, <1>e, <1>16
  <2>5. x = y \/ x < y BY ONLY <2>2, <2>3
  <2>6. x <= y BY ONLY <2>4, <2>5
  <2> QED BY ONLY <2>3, <2>6
<1>18. Proven(t, until, s.streak[1], s.streak[k])
  <2>1. s.streak[1] \in proof /\ s.streak[k] \in proof BY <1>15, <1>16
  <2> HIDE DEF proof
  <2> QED BY <2>1, <1>d, <1>14, <1>15, <1>17 DEF Proven
<1> QED BY <1>18, <1>b, <1>c
LEMMA BeforeIsStrict ==
    ASSUME NEW p \in Pass, NEW q \in Pass, Before(p, q)
    PROVE  ~Before(q, p)
<1>1. p.at \in Nat /\ q.at \in Nat /\ p.id \in Nat /\ q.id \in Nat BY DEF Pass
<1> QED BY <1>1 DEF Before

\* A walk that did not complete, under a rule of at most two passes, has missed
\* none: were there two of them, the last look before the instant of the second
\* and the first one at it would have been enough.
LEMMA IncompleteIsNoEvidence ==
    ASSUME TypeOK, PassesNumbered, Required <= 2, NEW t \in Raised, NEW at \in Int,
           Awaiting(t), ~Complete(Evaluated(t, at))
    PROVE  Evidence(t, tasks[t].state.at, at) = {}
<1>a. PICK c : c = InTurn(t, at) OBVIOUS
<1>b. PICK s : s = Evaluated(t, at) OBVIOUS
<1>d. PICK since : since = tasks[t].state.at OBVIOUS
<1>1. since \in Int BY <1>d DEF Awaiting, TypeOK, TaskOK, Held
<1>2. Lists(c, Usable(t, at)) BY <1>a, UsableInTurn
<1>3. WalkOK(c, Len(c), s) BY <1>a, <1>b, TickWalk
<1>4. \A m \in 1..Len(c) : ~Satisfied(c, m) BY <1>3, <1>b DEF WalkOK
<1>5. SUFFICES ASSUME NEW proof \in Evidence(t, since, at) PROVE FALSE
  BY <1>d
<1>6. /\ \A p \in proof : p \in passes /\ p.of = t /\ p.clean /\ p.at \in (since + 1)..at
      /\ Cardinality(proof) = Required
      /\ \A p, q \in proof : p # q => p.at # q.at
      /\ \A p, q \in proof : p.at < q.at => \E r \in proof : r.at - p.at \in 1..Within
      /\ \A d \in passes : d.of = t /\ ~d.clean =>
           (\A p \in proof : Before(d, p)) \/ (\A p \in proof : Before(p, d))
  BY <1>5 DEF Evidence
<1>7. ASSUME NEW p \in proof PROVE \E i \in 1..Len(c) : c[i] = p
  <2>1. p \in passes /\ p.of = t /\ p.at > since /\ p.at <= at BY <1>1, <1>6
  <2>2. p \in Usable(t, at) BY <2>1, <1>d DEF Usable, Visible, Eligible
  <2> QED BY <2>2, <1>2 DEF Lists
<1>8. IsFiniteSet(proof)
  <2>1. proof \subseteq passes BY <1>6
  <2> QED BY <2>1, FS_Subset DEF PassesNumbered
<1>9. CASE Required = 1
  <2>1. PICK p \in proof : TRUE
    <3>1. proof # {} BY <1>6, <1>9, FS_EmptySet
    <3> QED BY <3>1
  <2>2. PICK i \in 1..Len(c) : c[i] = p BY <1>7
  <2>3. c[i].clean BY <2>2, <1>6
  <2>4. i \in Nat \ {0} /\ i - Required + 1 = i /\ i..i = {i} /\ i..(i - 1) = {}
    BY <1>9, <2>2
  <2>5. Satisfied(c, i) BY <1>9, <2>3, <2>4 DEF Satisfied, CleanRun
  <2> QED BY <2>5, <1>4
<1>10. CASE Required = 2
  <2>1. PICK p \in proof, q \in proof : p.at < q.at
    <3>1. proof # {} BY <1>6, <1>10, FS_EmptySet
    <3>2. PICK p \in proof : TRUE BY <3>1
    <3>3. \E q \in proof : q # p
      <4>1. proof # {p} BY <1>6, <1>10, FS_Singleton
      <4> QED BY <3>2, <4>1
    <3>4. PICK q \in proof : q # p BY <3>3
    <3>5. p.at \in Int /\ q.at \in Int /\ p.at # q.at BY <1>6, <3>4
    <3>6. p.at < q.at \/ q.at < p.at BY <3>5
    <3> QED BY <3>6
  <2>2. \A r \in proof : r = p \/ r = q
    <3>1. IsFiniteSet(proof \ {p}) /\ Cardinality(proof \ {p}) = 1
      <4>1. /\ IsFiniteSet(proof \ {p})
            /\ Cardinality(proof \ {p}) = Cardinality(proof) - 1
        BY <1>8, FS_RemoveElement
      <4>2. Cardinality(proof) = 2 BY <1>6, <1>10
      <4> QED BY <4>1, <4>2
    <3>2. PICK z : proof \ {p} = {z} BY <3>1, FS_Singleton
    <3>3. p # q BY <1>6, <2>1
    <3> QED BY <3>2, <3>3
  <2>3. q.at - p.at \in 1..Within
    <3>1. PICK r \in proof : r.at - p.at \in 1..Within BY <1>6, <2>1
    <3>2. r # p
      <4>1. p.at \in Int /\ p.at - p.at = 0 BY <1>6
      <4> QED BY <3>1, <4>1
    <3> QED BY <3>1, <3>2, <2>2
  <2>4. PICK k \in 1..Len(c) : c[k] = p BY <1>7
  <2>5. PICK l \in 1..Len(c) : c[l] = q BY <1>7
  <2>6. Len(c) \in Nat /\ \A i \in 1..Len(c) : c[i].at \in Nat BY <1>2 DEF Lists
  <2>7. ASSUME NEW i \in 1..Len(c), NEW j \in 1..Len(c), i < j
        PROVE  c[i].at <= c[j].at
    <3>1. Before(c[i], c[j]) BY <2>7, <1>2 DEF Lists
    <3>2. c[i].at < c[j].at \/ c[i].at = c[j].at BY ONLY <3>1 DEF Before
    <3>3. c[i].at \in Nat /\ c[j].at \in Nat BY <2>6, <2>7
    <3>4. PICK x, y : x = c[i].at /\ y = c[j].at OBVIOUS
    <3>5. x <= y
      <4>1. x < y \/ x = y BY <3>2, <3>4
      <4>2. x \in Nat /\ y \in Nat BY <3>3, <3>4
      <4> QED BY ONLY <4>1, <4>2
    <3> QED BY <3>4, <3>5
  <2>8. k < l
    <3>1. k # l BY <2>1, <2>4, <2>5, <2>6
    <3>2. ~(l < k) BY <2>1, <2>4, <2>5, <2>6, <2>7
    <3> QED BY <3>1, <3>2
  <2>9. ASSUME NEW i \in k..l PROVE c[i].clean
    <3> SUFFICES ASSUME ~c[i].clean PROVE FALSE OBVIOUS
    <3>1. i \in 1..Len(c) BY <2>6
    <3>2. c[i] \in Usable(t, at) BY <3>1, <1>2 DEF Lists
    <3>3. c[i] \in passes /\ c[i].of = t BY <3>2 DEF Usable, Visible, Eligible
    <3>4. /\ i # k /\ i # l BY <2>4, <2>5, <1>6
    <3>5. Before(p, c[i]) /\ Before(c[i], q)
      <4>1. k < i /\ i < l BY <3>4, <2>6
      <4> QED BY <4>1, <3>1, <2>4, <2>5, <1>2 DEF Lists
    <3>6. ~Before(c[i], p) /\ ~Before(q, c[i])
      <4>1. /\ p \in Pass /\ q \in Pass /\ c[i] \in Pass
        BY <3>3, <1>6 DEF TypeOK
      <4> QED BY <3>5, <4>1, BeforeIsStrict
    <3> QED BY <3>3, <3>6, <1>6
  <2> DEFINE Late == {i \in (k + 1)..l : c[i].at = q.at}
  <2>10. PICK i \in Late : \A j \in Late : i <= j
    <3> DEFINE R == {x \in Nat \X Nat : x[1] < x[2]}
    <3>1. IsWellFoundedOn(R, Nat)
      <4>1. R = OpToRel(<, Nat) BY DEF OpToRel
      <4> QED BY <4>1, NatLessThanWellFounded
    <3>2. Late \subseteq Nat /\ l \in Late BY <2>5, <2>6, <2>8
    <3>3. PICK i \in Late : \A j \in Late : ~(<<j, i>> \in R)
      <4> HIDE DEF R, Late
      <4> QED BY <3>1, <3>2, WFMin
    <3>4. \A j \in Late : ~(j < i) BY <3>2, <3>3
    <3> QED BY <3>2, <3>4
  <2>11. /\ i \in Int /\ k + 1 <= i /\ i <= l /\ i \in 1..Len(c) /\ i - 1 \in 1..Len(c)
         /\ i - 1 \in k..l /\ i \in k..l /\ c[i].at = q.at
    <3>1. i \in (k + 1)..l /\ c[i].at = q.at BY <2>10
    <3>2. k \in Nat /\ l \in Nat /\ k >= 1 /\ l <= Len(c) /\ Len(c) \in Nat
      BY <2>4, <2>5, <2>6
    <3>3. i \in Int /\ k + 1 <= i /\ i <= l BY ONLY <3>1, <3>2
    <3> HIDE DEF Late
    <3> QED BY ONLY <3>1, <3>2, <3>3
  <2>12. c[i - 1].at # q.at
    <3>1. CASE i - 1 = k BY <3>1, <2>1, <2>4, <2>6
    <3>2. CASE i - 1 # k
      <4>1. i - 1 \in (k + 1)..l BY <3>2, <2>11
      <4>2. ~(i <= i - 1) BY <2>11
      <4> QED BY <4>1, <4>2, <2>10
    <3> QED BY <3>1, <3>2
  <2>13. c[i - 1].at <= q.at /\ p.at <= c[i - 1].at
    <3>1. i - 1 < i BY <2>11
    <3>2. c[i - 1].at <= c[i].at BY <3>1, <2>7, <2>11
    <3>3. CASE i - 1 = k BY <3>2, <3>3, <2>4, <2>6, <2>11
    <3>4. CASE i - 1 # k
      <4>1. k < i - 1 BY <3>4, <2>11
      <4>2. c[k].at <= c[i - 1].at BY <4>1, <2>7, <2>11
      <4> QED BY <3>2, <4>2, <2>4, <2>11
    <3> QED BY <3>3, <3>4
  <2>14. c[i].at - c[i - 1].at \in 1..Within
    <3>1. PICK x, y, z : x = p.at /\ y = c[i - 1].at /\ z = q.at OBVIOUS
    <3>2. x \in Int /\ y \in Int /\ z \in Int
      <4>1. x = c[k].at /\ z = c[l].at BY <3>1, <2>4, <2>5
      <4>2. y \in Nat BY <3>1, <2>6, <2>11
      <4>3. x \in Nat /\ z \in Nat BY <4>1, <2>6
      <4> QED BY <4>2, <4>3
    <3>3. z - x \in 1..Within /\ x <= y /\ y <= z /\ y # z
      BY <3>1, <2>3, <2>12, <2>13
    <3>4. z - y \in 1..Within BY ONLY RuleAssumption, <3>2, <3>3
    <3> QED BY <3>1, <3>4, <2>11
  <2>15. CleanRun(c, i - 1, i)
    <3>1. (i - 1)..i = {i - 1, i} /\ (i - 1)..(i - 1) = {i - 1} /\ (i - 1) + 1 = i
      BY <2>11
    <3>2. c[i - 1].clean /\ c[i].clean BY <2>9, <2>11
    <3> QED BY <3>1, <3>2, <2>14 DEF CleanRun
  <2>16. Satisfied(c, i)
    <3>1. i >= 2 /\ i - 2 + 1 = i - 1 BY <2>11, <2>4
    <3> QED BY <3>1, <2>15, <1>10 DEF Satisfied
  <2> QED BY <2>16, <2>11, <1>4
<1> QED BY <1>9, <1>10

\* What the walk calls dirtied was looked at after the work and found undone.
LEMMA DirtiedIsSeen ==
    ASSUME TypeOK, PassesNumbered, NEW t \in Raised, NEW at \in Int,
           Awaiting(t), ~Complete(Evaluated(t, at)), Evaluated(t, at).dirtied
    PROVE  \E p \in passes : p.of = t /\ ~p.clean /\ p.at \in (tasks[t].state.at + 1)..at
<1>a. PICK c : c = InTurn(t, at) OBVIOUS
<1>b. PICK s : s = Evaluated(t, at) OBVIOUS
<1>d. PICK since : since = tasks[t].state.at OBVIOUS
<1>1. since \in Int BY <1>d DEF Awaiting, TypeOK, TaskOK, Held
<1>2. Lists(c, Usable(t, at)) BY <1>a, UsableInTurn
<1>3. WalkOK(c, Len(c), s) BY <1>a, <1>b, TickWalk
<1>4. PICK m \in 1..Len(c) : ~c[m].clean BY <1>3, <1>b DEF WalkOK
<1>5. c[m] \in Usable(t, at) /\ c[m].at \in Nat BY <1>2 DEF Lists
<1>6. c[m] \in passes /\ c[m].at <= at /\ c[m].of = t /\ c[m].at > since
  BY <1>d, <1>5 DEF Usable, Visible, Eligible
<1>7. c[m].at \in (since + 1)..at BY <1>1, <1>5, <1>6
<1> QED BY <1>d, <1>4, <1>6, <1>7
----------------------------------------------------------------------------
(***************************************************************************)
(* What a step does to a task's verdict.                                   *)
(***************************************************************************)
\* A command that closes work which needs a look is the loop's confirmation.
LEMMA DoCloses ==
    ASSUME TypeOK, NEW u \in Raised, NEW command, CommandOK(command), Do(u, command),
           NEW t \in Raised, ClosesAt(t)
    PROVE  /\ t = u /\ command.kind = "confirm_verification"
           /\ tasks'[t].state = [status |-> "verified", at |-> command.at,
                                 by |-> <<command.firstPass, command.secondPass>>]
<1>1. tasks' = [tasks EXCEPT ![u] = ApplyTaskCommand(tasks[u], command)]
      /\ Legal(tasks[u], command)
  BY DEF Do
<1>2. t = u
  <2> SUFFICES ASSUME t # u PROVE FALSE OBVIOUS
  <2>1. tasks'[t] = tasks[t] BY <1>1 DEF TypeOK
  <2> QED BY <2>1 DEF ClosesAt, Closed, TerminalStatuses
<1>3. TaskOK(tasks[u]) BY DEF TypeOK
<1>4. tasks'[u] = ApplyTaskCommand(tasks[u], command) BY <1>1 DEF TypeOK
<1>5. tasks'[u].state = Advanced(tasks[u], command)
  BY <1>3, <1>4 DEF ApplyTaskCommand, TaskOK
<1>6. Target(tasks[u], command) = "verified"
  BY <1>1, <1>2, <1>3, <1>5, AdvancedOK DEF ClosesAt
<1>7. command.kind = "confirm_verification"
  BY <1>2, <1>6 DEF Target, CommandOK, ClosesAt
<1>8. Advanced(tasks[u], command) = [status |-> "verified", at |-> command.at,
        by |-> <<command.firstPass, command.secondPass>>]
  BY <1>6, <1>7 DEF Advanced, Held
<1> QED BY <1>2, <1>5, <1>7, <1>8

\* Work that is put back stays open.
LEMMA PutBackOpens ==
    ASSUME TypeOK, NEW u \in Raised, NEW at \in Int, NEW reason \in ReopenReason,
           Awaiting(u), PutBack(u, at, reason)
    PROVE  /\ tasks'[u].state.at = at /\ tasks'[u].state.status = "reopened"
           /\ \A t \in Raised \ {u} : tasks'[t] = tasks[t]
<1> DEFINE command == [kind |-> "reopen", at |-> at, reason |-> reason]
           next == ApplyTaskCommand(tasks[u], command)
<1>1. tasks' = [tasks EXCEPT ![u] = EscalateTask(tasks[u], at, reason)]
  BY DEF PutBack
<1>2. TaskOK(tasks[u]) BY DEF TypeOK
<1>3. tasks'[u] = [next EXCEPT !.priority = RaisePriority(tasks[u].priority)]
  BY <1>1 DEF EscalateTask, TypeOK
<1>4. DOMAIN next = DOMAIN tasks[u] /\ next.state = Advanced(tasks[u], command)
  BY <1>2 DEF ApplyTaskCommand, TaskOK
<1>5. Target(tasks[u], command) = "reopened" BY DEF Target
<1>6. Advanced(tasks[u], command) =
        [status |-> "reopened", at |-> at, reason |-> reason,
         failedAttempts |-> tasks[u].failedVerifications + 1]
  BY <1>5 DEF Advanced, Held
<1>7. tasks'[u].state = next.state
  <2> HIDE DEF next
  <2> QED BY <1>2, <1>3, <1>4 DEF TaskOK
<1>8. \A t \in Raised \ {u} : tasks'[t] = tasks[t]
  BY <1>1 DEF TypeOK
<1>9. tasks'[u].state.at = at /\ tasks'[u].state.status = "reopened"
  <2> HIDE DEF next
  <2> QED BY <1>4, <1>6, <1>7
<1> QED BY <1>8, <1>9

\* A command other than a reopening counts no failure.
LEMMA DoCountsReopenings ==
    ASSUME TypeOK, NEW u \in Raised, NEW command, CommandOK(command), Do(u, command),
           NEW t \in Raised, tasks'[t].failedVerifications # tasks[t].failedVerifications
    PROVE  /\ t = u /\ command.kind = "reopen"
           /\ tasks'[t].state.reason = command.reason
<1>1. tasks' = [tasks EXCEPT ![u] = ApplyTaskCommand(tasks[u], command)]
      /\ Legal(tasks[u], command)
  BY DEF Do
<1>2. t = u BY <1>1 DEF TypeOK
<1>3. TaskOK(tasks[u]) BY DEF TypeOK
<1>4. tasks'[u] = ApplyTaskCommand(tasks[u], command) BY <1>1 DEF TypeOK
<1>5. /\ tasks'[u].state = Advanced(tasks[u], command)
      /\ tasks'[u].failedVerifications =
           IF command.kind = "reopen" THEN tasks[u].failedVerifications + 1
           ELSE tasks[u].failedVerifications
  BY <1>3, <1>4 DEF ApplyTaskCommand, TaskOK
<1>6. command.kind = "reopen" BY <1>2, <1>5
<1>7. Target(tasks[u], command) = "reopened" BY <1>6 DEF Target
<1>8. Advanced(tasks[u], command) =
        [status |-> "reopened", at |-> command.at, reason |-> command.reason,
         failedAttempts |-> tasks[u].failedVerifications + 1]
  BY <1>7 DEF Advanced, Held
<1>9. tasks'[u].state.reason = command.reason BY <1>5, <1>8
<1> QED BY <1>2, <1>6, <1>9

\* The evidence a closing step has to show.
ClosedWell(t) ==
    \E proof \in Evidence(t, tasks[t].state.at, now) :
      /\ \E p \in proof : p.id = tasks'[t].state.by[1]
      /\ \E p \in proof : /\ p.id = tasks'[t].state.by[2]
                          /\ p.at = tasks'[t].state.at
                          /\ \A q \in proof : q.at <= p.at

LEMMA CloseOK ==
    ASSUME TypeOK, PassesNumbered, NEW u \in Raised, NEW at \in (now - Lag)..now,
           Close(u, at), NEW t \in Raised, ClosesAt(t)
    PROVE  ClosedWell(t)
<1>1. PICK streak : streak = Evaluated(u, at).streak OBVIOUS
<1>2. PICK first, last : first = streak[1] /\ last = streak[Len(streak)] OBVIOUS
<1>3. PICK command : command = [kind |-> "confirm_verification", at |-> last.at,
                                firstPass |-> first.id, secondPass |-> last.id]
  OBVIOUS
<1>4. Awaiting(u) /\ Complete(Evaluated(u, at)) /\ Do(u, command)
  BY <1>1, <1>2, <1>3 DEF Close
<1>5. CommandOK(command) BY <1>3 DEF CommandOK
<1>6. /\ t = u
      /\ tasks'[t].state = [status |-> "verified", at |-> command.at,
                            by |-> <<command.firstPass, command.secondPass>>]
  BY <1>4, <1>5, DoCloses
<1>7. tasks'[t].state.at = last.at /\ tasks'[t].state.by[1] = first.id
      /\ tasks'[t].state.by[2] = last.id
  BY <1>3, <1>6
<1>8. at \in Int /\ now \in Int /\ at <= now BY DEF TypeOK
<1>9. Proven(t, now, first, last)
  BY <1>1, <1>2, <1>4, <1>6, <1>8, CompleteIsEvidence
<1> QED BY <1>7, <1>9 DEF Proven, ClosedWell

LEMMA StepCloses ==
    TypeOK /\ PassesNumbered /\ [Next]_vars =>
      \A t \in Raised : ClosesAt(t) => ClosedWell(t)
<1> SUFFICES ASSUME TypeOK, PassesNumbered, [Next]_vars, NEW t \in Raised, ClosesAt(t)
             PROVE  ClosedWell(t)
  OBVIOUS
<1>0. now \in Int BY DEF TypeOK
<1>1. tasks' # tasks BY DEF ClosesAt, Closed, TerminalStatuses
<1>2. ASSUME NEW u \in Raised, NEW command, CommandOK(command), Do(u, command),
             command.kind # "confirm_verification"
      PROVE  FALSE
  BY <1>2, DoCloses
<1>3. ASSUME NEW u \in Raised, Work(u) PROVE FALSE
  <2>1. ASSUME NEW e \in Employee, Assign(u, e) PROVE FALSE
    BY <1>0, <1>2, <2>1 DEF Assign, CommandOK
  <2>2. CASE Acknowledge(u) BY <1>0, <1>2, <2>2 DEF Acknowledge, CommandOK
  <2>3. CASE StartWork(u) BY <1>0, <1>2, <2>3 DEF StartWork, CommandOK
  <2>4. CASE Resolve(u) BY <1>0, <1>2, <2>4 DEF Resolve, CommandOK
  <2> QED BY <1>3, <2>1, <2>2, <2>3, <2>4 DEF Work
<1>4. ASSUME NEW u \in Raised, Overrule(u) PROVE FALSE
  <2>1. CASE Reject(u) BY <1>0, <1>2, <2>1 DEF Reject, CommandOK, ReopenReason
  <2>2. CASE Cancel(u) BY <1>0, <1>2, <2>2 DEF Cancel, CommandOK
  <2>3. CASE Expire(u) BY <1>0, <1>2, <2>3 DEF Expire, CommandOK
  <2> QED BY <1>4, <2>1, <2>2, <2>3 DEF Overrule
<1>5. ASSUME NEW u \in Raised, NEW at \in Int, NEW reason \in ReopenReason,
             Awaiting(u), PutBack(u, at, reason)
      PROVE  FALSE
  <2>1. /\ tasks'[u].state.status = "reopened"
        /\ \A v \in Raised \ {u} : tasks'[v] = tasks[v]
    BY <1>5, PutBackOpens
  <2> QED BY <2>1 DEF ClosesAt, Closed, TerminalStatuses
<1>6. ASSUME NEW u \in Raised, NEW at \in (now - Lag)..now, Tick(u, at)
      PROVE  ClosedWell(t)
  <2>0. at \in Int BY <1>0
  <2>1. CASE Close(u, at) BY <2>1, CloseOK
  <2>2. CASE Regress(u, at) BY <2>0, <2>2, <1>5 DEF Regress, ReopenReason
  <2>3. CASE Lapse(u, at) BY <2>0, <2>3, <1>5 DEF Lapse, ReopenReason
  <2> QED BY <1>6, <2>1, <2>2, <2>3 DEF Tick
<1> QED BY <1>1, <1>3, <1>4, <1>6 DEF Next, TimePasses, Arrive, Rest, vars

\* Why a step may put work back.
PutBackForCause(t) ==
    LET since == tasks[t].state.at
        at    == tasks'[t].state.at
    IN  /\ Evidence(t, since, at) = {}
        /\ \/ at > since + Within
           \/ \E p \in passes : p.of = t /\ ~p.clean /\ p.at \in (since + 1)..at

FailsBy(t) ==
    /\ tasks'[t].failedVerifications # tasks[t].failedVerifications
    /\ tasks'[t].state.reason # "supervisor_rejected"

LEMMA StepReopens ==
    ASSUME Required <= 2
    PROVE  TypeOK /\ PassesNumbered /\ [Next]_vars =>
             \A t \in Raised : FailsBy(t) => PutBackForCause(t)
<1> SUFFICES ASSUME TypeOK, PassesNumbered, [Next]_vars, NEW t \in Raised, FailsBy(t)
             PROVE  PutBackForCause(t)
  OBVIOUS
<1>0. now \in Int BY DEF TypeOK
<1>1. tasks' # tasks BY DEF FailsBy
<1>2. ASSUME NEW u \in Raised, NEW command, CommandOK(command), Do(u, command),
             command.kind = "reopen" => command.reason = "supervisor_rejected"
      PROVE  FALSE
  BY <1>2, DoCountsReopenings DEF FailsBy
<1>3. ASSUME NEW u \in Raised, Work(u) PROVE FALSE
  <2>1. ASSUME NEW e \in Employee, Assign(u, e) PROVE FALSE
    BY <1>0, <1>2, <2>1 DEF Assign, CommandOK
  <2>2. CASE Acknowledge(u) BY <1>0, <1>2, <2>2 DEF Acknowledge, CommandOK
  <2>3. CASE StartWork(u) BY <1>0, <1>2, <2>3 DEF StartWork, CommandOK
  <2>4. CASE Resolve(u) BY <1>0, <1>2, <2>4 DEF Resolve, CommandOK
  <2> QED BY <1>3, <2>1, <2>2, <2>3, <2>4 DEF Work
<1>4. ASSUME NEW u \in Raised, Overrule(u) PROVE FALSE
  <2>1. CASE Reject(u) BY <1>0, <1>2, <2>1 DEF Reject, CommandOK, ReopenReason
  <2>2. CASE Cancel(u) BY <1>0, <1>2, <2>2 DEF Cancel, CommandOK
  <2>3. CASE Expire(u) BY <1>0, <1>2, <2>3 DEF Expire, CommandOK
  <2> QED BY <1>4, <2>1, <2>2, <2>3 DEF Overrule
<1>5. ASSUME NEW u \in Raised, NEW at \in Int, NEW reason \in ReopenReason,
             Awaiting(u), PutBack(u, at, reason)
      PROVE  t = u /\ tasks'[t].state.at = at
  <2>1. /\ tasks'[u].state.at = at
        /\ \A v \in Raised \ {u} : tasks'[v] = tasks[v]
    BY <1>5, PutBackOpens
  <2> QED BY <2>1 DEF FailsBy
<1>6. ASSUME NEW u \in Raised, NEW at \in (now - Lag)..now, Tick(u, at)
      PROVE  PutBackForCause(t)
  <2>0. at \in Int BY <1>0
  <2>1. ~Close(u, at)
    BY <1>2 DEF Close, CommandOK
  <2>2. CASE Regress(u, at)
    <3>1. t = u /\ tasks'[t].state.at = at /\ Awaiting(u)
          /\ ~Complete(Evaluated(u, at)) /\ Evaluated(u, at).dirtied
      BY <2>0, <2>2, <1>5 DEF Regress, ReopenReason
    <3>2. Evidence(t, tasks[t].state.at, at) = {}
      BY <2>0, <3>1, IncompleteIsNoEvidence
    <3>3. \E p \in passes : p.of = t /\ ~p.clean /\ p.at \in (tasks[t].state.at + 1)..at
      BY <2>0, <3>1, DirtiedIsSeen
    <3> QED BY <3>1, <3>2, <3>3 DEF PutBackForCause
  <2>3. CASE Lapse(u, at)
    <3>1. t = u /\ tasks'[t].state.at = at /\ Awaiting(u)
          /\ ~Complete(Evaluated(u, at)) /\ at > tasks[t].state.at + Within
      BY <2>0, <2>3, <1>5 DEF Lapse, ReopenReason, Deadline
    <3>2. Evidence(t, tasks[t].state.at, at) = {}
      BY <2>0, <3>1, IncompleteIsNoEvidence
    <3> QED BY <3>1, <3>2 DEF PutBackForCause
  <2> QED BY <1>6, <2>1, <2>2, <2>3 DEF Tick
<1> QED BY <1>1, <1>3, <1>4, <1>6 DEF Next, TimePasses, Arrive, Rest, vars

LEMMA NumberedThroughout == Spec => []PassesNumbered
BY NumberedInit, NumberedStep, TypeCorrectness, PTL DEF Spec

\* A task on physical stock closes on nothing but the passes the rule asks for, since
\* its latest resolution and about itself, whatever arrives in whatever order.
THEOREM EvidenceCloses == Spec => ClosesOnEvidence
<1>1. TypeOK /\ PassesNumbered /\ [Next]_vars =>
        [\A t \in Raised : ClosesAt(t) =>
           \E proof \in Evidence(t, tasks[t].state.at, now) :
             /\ \E p \in proof : p.id = tasks'[t].state.by[1]
             /\ \E p \in proof : /\ p.id = tasks'[t].state.by[2]
                                 /\ p.at = tasks'[t].state.at
                                 /\ \A q \in proof : q.at <= p.at]_vars
  BY StepCloses DEF ClosedWell
<1> QED BY <1>1, TypeCorrectness, NumberedThroughout, PTL DEF Spec, ClosesOnEvidence

\* Under a rule of one or two passes, the standard one among them, work is put back
\* only for a dirty look or a lapsed deadline, and never while the passes that would
\* close it are there.
THEOREM CauseReopens ==
    ASSUME Required <= 2
    PROVE  Spec => ReopensForCause
<1>1. TypeOK /\ PassesNumbered /\ [Next]_vars =>
        [\A t \in Raised :
           LET since == tasks[t].state.at
               at    == tasks'[t].state.at
           IN  tasks'[t].failedVerifications # tasks[t].failedVerifications
               /\ tasks'[t].state.reason # "supervisor_rejected" =>
                 /\ Evidence(t, since, at) = {}
                 /\ \/ at > since + Within
                    \/ \E p \in passes : p.of = t /\ ~p.clean /\ p.at \in (since + 1)..at]_vars
  BY StepReopens DEF FailsBy, PutBackForCause
<1> QED BY <1>1, TypeCorrectness, NumberedThroughout, PTL DEF Spec, ReopensForCause
=============================================================================
