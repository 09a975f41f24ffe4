-------------------------- MODULE BackOfficeProofs --------------------------
(***************************************************************************)
(* What is told about the loop, for any gaps, facings, signals, periods,   *)
(* panels and requests: the record of a gap and its task are two folds of  *)
(* the same transitions that never come apart; an artifact's manifest      *)
(* vouches for its body and closed periods seal alike, whatever crashes;   *)
(* pages of a listing cover it once while the store moves; and a panel     *)
(* shows the answer to the question of now.                                *)
(***************************************************************************)
EXTENDS LoopOutcomes, Reporting, Dashboard, SumsAndOrders, SequenceTheorems

(***************************************************************************)
(* The outcome records.                                                    *)
(***************************************************************************)
Instant(x, now) == x \in Int /\ Null <= x /\ x <= now

Shape(r, now) ==
    /\ DOMAIN r = {"gap", "department", "task_type", "taskId", "detectedAt", "taskCreatedAt",
                   "assignedAt", "acknowledgedAt", "lastAcknowledgedAt", "resolvedAt",
                   "verifiedAt", "backInStockAt", "reopenCount", "terminal"}
    /\ Instant(r.detectedAt, now) /\ r.detectedAt # Null
    /\ Instant(r.taskCreatedAt, now) /\ Instant(r.assignedAt, now)
    /\ Instant(r.acknowledgedAt, now) /\ Instant(r.lastAcknowledgedAt, now)
    /\ Instant(r.resolvedAt, now) /\ Instant(r.verifiedAt, now)

\* A gap without a task has been detected, and nothing else.
Untasked(r) ==
    /\ {r.assignedAt, r.acknowledgedAt, r.lastAcknowledgedAt, r.resolvedAt,
        r.verifiedAt} = {Null}
    /\ r.reopenCount = 0 /\ r.terminal = "none"

TaskShape(t) ==
    /\ DOMAIN t = {"state", "priority", "requiresVerification", "failedVerifications",
                   "updatedAt"}
    /\ t.state.status \in Status
    /\ t.requiresVerification \in BOOLEAN
    /\ t.failedVerifications \in Nat

\* The instants of the dispatch lie in order, and later ones are not there without
\* those before them.
Dispatched(r, status) ==
    /\ r.detectedAt <= r.taskCreatedAt
    /\ r.assignedAt # Null => r.taskCreatedAt <= r.assignedAt
    /\ r.acknowledgedAt = Null <=> r.lastAcknowledgedAt = Null
    /\ r.acknowledgedAt # Null => /\ r.assignedAt # Null
                                  /\ r.assignedAt <= r.acknowledgedAt
                                  /\ r.acknowledgedAt <= r.lastAcknowledgedAt
    /\ status = "assigned" => r.assignedAt # Null
    /\ status \in {"acknowledged", "in_progress", "awaiting_verification", "verified"} =>
          r.acknowledgedAt # Null

\* So do those of the work that is reported done.  Work that needs no verification
\* has no resolution before it is verified, which is why OrElse finds none.
Settled(r, t) ==
    LET status == t.state.status
    IN  /\ r.verifiedAt # Null <=> status = "verified"
        /\ status = "verified" => r.verifiedAt = t.state.at /\ r.resolvedAt <= r.verifiedAt
        /\ status = "awaiting_verification" => r.resolvedAt = t.state.at
        /\ status \in {"awaiting_verification", "verified"} =>
              r.resolvedAt # Null /\ r.lastAcknowledgedAt <= r.resolvedAt
        /\ ~t.requiresVerification /\ status # "verified" => r.resolvedAt = Null

CountsAlike(r, t) ==
    /\ r.terminal = IF t.state.status \in TerminalStatuses THEN t.state.status ELSE "none"
    /\ r.reopenCount = t.failedVerifications

Journey(r, t, now) ==
    /\ Shape(r, now) /\ TaskShape(t)
    /\ Dispatched(r, t.state.status) /\ Settled(r, t) /\ CountsAlike(r, t)

OutcomesInv ==
    /\ clock \in Nat
    /\ DOMAIN tasks = Gap /\ DOMAIN records = Gap
    /\ \A g \in Gap :
         \/ records[g] = NoRecord /\ tasks[g] = NoTask
         \/ Shape(records[g], clock) /\ Untasked(records[g]) /\ tasks[g] = NoTask
         \/ Journey(records[g], tasks[g], clock)

----------------------------------------------------------------------------
\* A record is no NoRecord, and a task no NoTask.
LEMMA ShapeIsRecord ==
    ASSUME NEW r, NEW now, Shape(r, now)
    PROVE  r # NoRecord
<1>1. DOMAIN NoRecord = {"gap"} BY DEF NoRecord
<1>2. "detectedAt" \in DOMAIN r BY DEF Shape
<1> QED BY <1>1, <1>2

\* A task that was raised is not the absence of one.
LEMMA ShapeIsTask ==
    ASSUME NEW t, TaskShape(t)
    PROVE  t # NoTask
<1>1. NoTask.state.status = "none" BY DEF NoTask
<1> QED BY <1>1 DEF TaskShape, Status

\* As time passes instants stay behind.
LEMMA ShapeLater ==
    ASSUME NEW r, NEW now \in Nat, NEW later \in Nat, now <= later, Shape(r, now)
    PROVE  Shape(r, later)
BY DEF Shape, Instant, Null

\* The state a command leads to has its target and its instant.
LEMMA AdvancedTells ==
    ASSUME NEW t, NEW command
    PROVE  /\ Advanced(t, command).status = Target(t, command)
           /\ Advanced(t, command).at = command.at
<1> DEFINE to == Target(t, command)
<1>1. CASE to = "assigned" BY <1>1 DEF Advanced, Held
<1>2. CASE to \in Held \ {"assigned"} BY <1>2 DEF Advanced, Held
<1>3. CASE to = "reopened" BY <1>3 DEF Advanced, Held
<1>4. CASE to = "verified" BY <1>4 DEF Advanced, Held
<1>5. CASE to \notin Held \cup {"reopened", "verified"}
  <2>1. Advanced(t, command) = [status |-> to, at |-> command.at]
    BY <1>5 DEF Advanced, Held
  <2> QED BY <2>1
<1> QED BY <1>1, <1>2, <1>3, <1>4, <1>5 DEF Held

\* The statuses a command is taken in, and the one it leads to.
LEMMA Edges ==
    ASSUME NEW t, NEW command, TaskShape(t), Legal(t, command),
           command.kind \in {"assign", "acknowledge", "start", "resolve",
                             "confirm_verification", "reopen", "cancel", "expire"}
    PROVE  LET from == t.state.status
               to   == Target(t, command)
           IN  \/ to = "assigned" /\ command.kind = "assign"
                  /\ from \in {"created", "assigned", "acknowledged", "reopened"}
               \/ to = "acknowledged" /\ command.kind = "acknowledge" /\ from = "assigned"
               \/ to = "in_progress" /\ command.kind = "start" /\ from = "acknowledged"
               \/ to = "awaiting_verification" /\ command.kind = "resolve"
                  /\ from = "in_progress" /\ t.requiresVerification
               \/ to = "verified" /\ command.kind = "resolve"
                  /\ from = "in_progress" /\ ~t.requiresVerification
               \/ to = "verified" /\ command.kind = "confirm_verification"
                  /\ from = "awaiting_verification"
               \/ to = "reopened" /\ command.kind = "reopen"
                  /\ from = "awaiting_verification"
               \/ to \in {"cancelled", "expired"} /\ command.kind \in {"cancel", "expire"}
                  /\ from \notin TerminalStatuses
BY DEF Legal, AllowedTransitions, StartsFrom, Target, TaskShape, Status, TerminalStatuses

\* What a command makes of a task.
LEMMA AppliedTells ==
    ASSUME NEW t, NEW command, TaskShape(t)
    PROVE  LET next == ApplyTaskCommand(t, command)
           IN  /\ DOMAIN next = DOMAIN t
               /\ next.state.status = Target(t, command)
               /\ next.state.at = command.at
               /\ next.requiresVerification = t.requiresVerification
               /\ next.failedVerifications = IF command.kind = "reopen"
                                             THEN t.failedVerifications + 1
                                             ELSE t.failedVerifications
BY AdvancedTells DEF ApplyTaskCommand, TaskShape

\* One command, folded into the task and into the record of its gap.
LEMMA CommandTells ==
    ASSUME NEW r, NEW t, NEW now \in Nat, NEW command, Journey(r, t, now), Legal(t, command),
           command.at = now,
           command.kind \in {"assign", "acknowledge", "start", "resolve",
                             "confirm_verification", "reopen", "cancel", "expire"}
    PROVE  Journey(WithTransition(r, Target(t, command), now),
                   ApplyTaskCommand(t, command), now)
<1> DEFINE from == t.state.status
           to   == Target(t, command)
           r1   == WithTransition(r, to, now)
           t1   == ApplyTaskCommand(t, command)
           Goal == Journey(r1, t1, now)
<1> USE DEF Journey
<1>1. /\ DOMAIN t1 = DOMAIN t
      /\ t1.state.status = to /\ t1.state.at = now
      /\ t1.requiresVerification = t.requiresVerification
      /\ t1.failedVerifications = IF command.kind = "reopen" THEN t.failedVerifications + 1
                                  ELSE t.failedVerifications
  BY AppliedTells
<1>2. TaskShape(t1)
  <2>1. to \in Status BY Edges DEF Status
  <2> QED BY <1>1, <2>1 DEF TaskShape
<1> HIDE DEF t1
<1>3. CASE to = "assigned"
  <2>1. r1 = [r EXCEPT !.assignedAt = OrElse(@, now)] BY <1>3 DEF WithTransition
  <2>2. command.kind = "assign" /\ from \in {"created", "assigned", "acknowledged", "reopened"}
    BY <1>3, Edges
  <2>3. Shape(r1, now) BY <2>1 DEF Shape, Instant, OrElse, Null
  <2>4. Dispatched(r1, to) BY <1>3, <2>1, <2>2 DEF Dispatched, Shape, Instant, OrElse, Null
  <2>5. Settled(r1, t1) BY <1>1, <1>3, <2>1, <2>2 DEF Settled, Shape
  <2>6. CountsAlike(r1, t1) BY <1>1, <1>3, <2>1, <2>2 DEF CountsAlike, Shape, TerminalStatuses
  <2> QED BY <1>1, <1>2, <2>3, <2>4, <2>5, <2>6 DEF t1
<1>4. CASE to = "acknowledged"
  <2>1. /\ DOMAIN r1 = DOMAIN r
        /\ r1.acknowledgedAt = OrElse(r.acknowledgedAt, now) /\ r1.lastAcknowledgedAt = now
        /\ \A f \in DOMAIN r \ {"acknowledgedAt", "lastAcknowledgedAt"} : r1[f] = r[f]
    BY <1>4 DEF WithTransition, Shape
  <2>2. command.kind = "acknowledge" /\ from = "assigned" BY <1>4, Edges
  <2>3. Shape(r1, now) BY <2>1 DEF Shape, Instant, OrElse, Null
  <2>4. Dispatched(r1, to) BY <1>4, <2>1, <2>2 DEF Dispatched, Shape, Instant, OrElse, Null
  <2>5. Settled(r1, t1) BY <1>1, <1>4, <2>1, <2>2 DEF Settled, Shape
  <2>6. CountsAlike(r1, t1) BY <1>1, <1>4, <2>1, <2>2 DEF CountsAlike, Shape, TerminalStatuses
  <2> QED BY <1>1, <1>2, <2>3, <2>4, <2>5, <2>6 DEF t1
<1>5. CASE to = "in_progress"
  <2>1. r1 = r BY <1>5 DEF WithTransition
  <2>2. command.kind = "start" /\ from = "acknowledged" BY <1>5, Edges
  <2>3. Dispatched(r1, to) BY <1>5, <2>1, <2>2 DEF Dispatched
  <2>4. Settled(r1, t1) BY <1>1, <1>5, <2>1, <2>2 DEF Settled
  <2>5. CountsAlike(r1, t1) BY <1>1, <1>5, <2>1, <2>2 DEF CountsAlike, TerminalStatuses
  <2> QED BY <1>1, <1>2, <2>1, <2>3, <2>4, <2>5 DEF t1
<1>6. CASE to = "awaiting_verification"
  <2>1. r1 = [r EXCEPT !.resolvedAt = now] BY <1>6 DEF WithTransition
  <2>2. command.kind = "resolve" /\ from = "in_progress" /\ t.requiresVerification
    BY <1>6, Edges
  <2>3. Shape(r1, now) BY <2>1 DEF Shape, Instant, Null
  <2>4. Dispatched(r1, to) BY <1>6, <2>1, <2>2 DEF Dispatched, Shape
  <2>5. Settled(r1, t1) BY <1>1, <1>6, <2>1, <2>2 DEF Settled, Shape, Instant, Null
  <2>6. CountsAlike(r1, t1) BY <1>1, <1>6, <2>1, <2>2 DEF CountsAlike, Shape, TerminalStatuses
  <2> QED BY <1>1, <1>2, <2>3, <2>4, <2>5, <2>6 DEF t1
<1>7. CASE to = "verified"
  <2>1. /\ DOMAIN r1 = DOMAIN r
        /\ r1.resolvedAt = OrElse(r.resolvedAt, now) /\ r1.verifiedAt = now
        /\ r1.terminal = "verified"
        /\ \A f \in DOMAIN r \ {"resolvedAt", "verifiedAt", "terminal"} : r1[f] = r[f]
    BY <1>7 DEF WithTransition, Shape
  <2>2. \/ command.kind = "resolve" /\ from = "in_progress" /\ ~t.requiresVerification
        \/ command.kind = "confirm_verification" /\ from = "awaiting_verification"
    BY <1>7, Edges
  <2>3. Shape(r1, now) BY <1>7, <2>1 DEF Shape, Instant, OrElse, Null
  <2>4. Dispatched(r1, to) BY <1>7, <2>1, <2>2 DEF Dispatched, Shape
  <2>5. r.resolvedAt = Null \/ (from = "awaiting_verification" /\ r.resolvedAt # Null)
    BY <2>2 DEF Settled
  <2>6. Settled(r1, t1)
    BY <1>1, <1>7, <2>1, <2>2, <2>5 DEF Settled, Shape, Instant, OrElse, Null
  <2>7. CountsAlike(r1, t1) BY <1>1, <1>7, <2>1, <2>2 DEF CountsAlike, Shape, TerminalStatuses
  <2> QED BY <1>1, <1>2, <2>3, <2>4, <2>6, <2>7 DEF t1
<1>8. CASE to = "reopened"
  <2>1. r1 = [r EXCEPT !.reopenCount = @ + 1] BY <1>8 DEF WithTransition
  <2>2. command.kind = "reopen" /\ from = "awaiting_verification" BY <1>8, Edges
  <2>3. Shape(r1, now) BY <2>1 DEF Shape
  <2>4. Dispatched(r1, to) BY <1>8, <2>1, <2>2 DEF Dispatched, Shape
  <2>5. t.requiresVerification BY <2>2 DEF Settled, TaskShape
  <2>6. Settled(r1, t1) BY <1>1, <1>8, <2>1, <2>2, <2>5 DEF Settled, Shape
  <2>7. CountsAlike(r1, t1) BY <1>1, <1>8, <2>1, <2>2 DEF CountsAlike, Shape, TerminalStatuses
  <2> QED BY <1>1, <1>2, <2>3, <2>4, <2>6, <2>7 DEF t1
<1>9. CASE to \in {"cancelled", "expired"}
  <2>1. r1 = [r EXCEPT !.terminal = to] BY <1>9 DEF WithTransition
  <2>2. command.kind \in {"cancel", "expire"} /\ from \notin TerminalStatuses BY <1>9, Edges
  <2>3. Shape(r1, now) BY <2>1 DEF Shape
  <2>4. Dispatched(r1, to) BY <1>9, <2>1, <2>2 DEF Dispatched, Shape
  <2>5. Settled(r1, t1) BY <1>1, <1>9, <2>1, <2>2 DEF Settled, Shape, TerminalStatuses
  <2>6. CountsAlike(r1, t1) BY <1>1, <1>9, <2>1, <2>2 DEF CountsAlike, Shape, TerminalStatuses
  <2> QED BY <1>1, <1>2, <2>3, <2>4, <2>5, <2>6 DEF t1
<1> QED BY Edges, <1>3, <1>4, <1>5, <1>6, <1>7, <1>8, <1>9

----------------------------------------------------------------------------
\* Every gap's pair is left as it is, with the clock.
LEMMA PairStays ==
    ASSUME OutcomesInv, clock' \in Nat, clock <= clock', NEW g \in Gap,
           tasks'[g] = tasks[g], records'[g] = records[g]
    PROVE  \/ records'[g] = NoRecord /\ tasks'[g] = NoTask
           \/ Shape(records'[g], clock') /\ Untasked(records'[g]) /\ tasks'[g] = NoTask
           \/ Journey(records'[g], tasks'[g], clock')
<1>1. CASE Shape(records[g], clock)
  <2>1. Shape(records'[g], clock') BY <1>1, ShapeLater DEF OutcomesInv
  <2> QED BY <1>1, <2>1 DEF OutcomesInv, Journey
<1>2. CASE ~Shape(records[g], clock) BY <1>2 DEF OutcomesInv, Journey
<1> QED BY <1>1, <1>2

\* The pair of a gap that has a task.
LEMMA TaskedPair ==
    ASSUME OutcomesInv, NEW g \in Gap, tasks[g] # NoTask
    PROVE  Journey(records[g], tasks[g], clock)
BY DEF OutcomesInv

\* The first record of a gap is of a gap without a task.
LEMMA DetectKeeps ==
    ASSUME OutcomesInv, NEW u \in Gap, Detect(u)
    PROVE  OutcomesInv'
<1> DEFINE r == OpenOutcome(u, DepartmentOf[u], clock)
<1>1. Shape(r, clock) /\ Untasked(r)
  BY DEF OpenOutcome, Shape, Untasked, Instant, Null, OutcomesInv
<1>2. tasks[u] = NoTask
  <2>1. ~Shape(records[u], clock) BY ShapeIsRecord DEF Detect
  <2> QED BY <2>1 DEF OutcomesInv, Journey
<1>3. records' = [records EXCEPT ![u] = r] /\ UNCHANGED <<tasks, clock>>
  BY DEF Detect
<1> QED BY <1>1, <1>2, <1>3 DEF OutcomesInv

\* A task that is raised finds its gap detected, and nothing else.
LEMMA RaiseKeeps ==
    ASSUME OutcomesInv, NEW u \in Gap, Raise(u)
    PROVE  OutcomesInv'
<1> DEFINE r == WithTask(records[u], u, Restock, clock)
<1>1. Shape(records[u], clock) /\ Untasked(records[u])
  <2>1. tasks[u] = NoTask /\ records[u] # NoRecord BY DEF Raise
  <2>2. ~Journey(records[u], tasks[u], clock) BY <2>1, ShapeIsTask DEF Journey
  <2> QED BY <2>1, <2>2 DEF OutcomesInv
<1>2. PICK needsShelf \in BOOLEAN :
        tasks' = [tasks EXCEPT ![u] = CreateTask(1, needsShelf, clock)]
  BY DEF Raise
<1> DEFINE t == CreateTask(1, needsShelf, clock)
<1>3. records' = [records EXCEPT ![u] = r] /\ UNCHANGED clock BY DEF Raise
<1>4. /\ DOMAIN r = DOMAIN records[u] /\ r.taskCreatedAt = clock
      /\ \A f \in DOMAIN r \ {"taskId", "task_type", "taskCreatedAt"} : r[f] = records[u][f]
  BY <1>1 DEF WithTask, Shape
<1>5. /\ DOMAIN t = {"state", "priority", "requiresVerification", "failedVerifications",
                     "updatedAt"}
      /\ t.state.status = "created" /\ t.requiresVerification = needsShelf
      /\ t.failedVerifications = 0
  BY DEF CreateTask
<1> HIDE DEF r, t
<1>6. Shape(r, clock) BY <1>1, <1>4 DEF Shape, Instant, Null, OutcomesInv
<1>7. TaskShape(t) BY <1>5 DEF TaskShape, Status
<1>8. Dispatched(r, t.state.status)
  BY <1>1, <1>4, <1>5 DEF Dispatched, Untasked, Shape, Instant
<1>9. Settled(r, t) /\ CountsAlike(r, t)
  BY <1>1, <1>4, <1>5 DEF Settled, CountsAlike, Untasked, Shape, TerminalStatuses
<1>10. Journey(r, t, clock) BY <1>6, <1>7, <1>8, <1>9 DEF Journey
<1> QED BY <1>2, <1>3, <1>10 DEF OutcomesInv, r, t

\* A command moves the task and the record together.
LEMMA WorkKeeps ==
    ASSUME OutcomesInv, NEW u \in Gap, NEW command \in Commands, Work(u, command)
    PROVE  OutcomesInv'
<1> DEFINE r == WithTransition(records[u], Target(tasks[u], command), clock)
           t == ApplyTaskCommand(tasks[u], command)
<1>1. /\ command.at = clock
      /\ command.kind \in {"assign", "acknowledge", "start", "resolve",
                           "confirm_verification", "reopen", "cancel", "expire"}
  BY DEF Commands
<1>2. Journey(records[u], tasks[u], clock) BY TaskedPair DEF Work
<1>3. Journey(r, t, clock) BY <1>1, <1>2, CommandTells DEF Work, OutcomesInv
<1>4. /\ tasks' = [tasks EXCEPT ![u] = t]
      /\ records' = [records EXCEPT ![u] = r]
      /\ UNCHANGED clock
  BY <1>1 DEF Work
<1> QED BY <1>3, <1>4 DEF OutcomesInv

\* The product coming back is no part of the task.
LEMMA BackInStockKeeps ==
    ASSUME OutcomesInv, NEW u \in Gap, BackInStock(u)
    PROVE  OutcomesInv'
<1> DEFINE r == WithBackInStock(records[u], clock)
<1>1. records' = [records EXCEPT ![u] = r] /\ UNCHANGED <<tasks, clock>> BY DEF BackInStock
<1>2. Shape(records[u], clock) BY DEF BackInStock, OutcomesInv, Journey
<1>3. DOMAIN r = DOMAIN records[u]
      /\ \A f \in DOMAIN r \ {"backInStockAt"} : r[f] = records[u][f]
  BY <1>2 DEF WithBackInStock, Shape
<1> HIDE DEF r
<1>4. Shape(r, clock) BY <1>2, <1>3 DEF Shape
<1>5. Untasked(records[u]) => Untasked(r) BY <1>2, <1>3 DEF Untasked, Shape
<1>6. Journey(records[u], tasks[u], clock) => Journey(r, tasks[u], clock)
  BY <1>2, <1>3, <1>4 DEF Journey, Dispatched, Settled, CountsAlike, Shape
<1>7. records[u] # NoRecord BY <1>2, ShapeIsRecord
<1> QED BY <1>1, <1>4, <1>5, <1>6, <1>7 DEF OutcomesInv

\* There is nothing at the start.
LEMMA OutcomesStart == OutcomesInit => OutcomesInv
BY DEF OutcomesInit, OutcomesInv

\* Every step keeps record and task together.
LEMMA OutcomesStep == OutcomesInv /\ [OutcomesNext]_outcomeVars => OutcomesInv'
<1> SUFFICES ASSUME OutcomesInv, [OutcomesNext]_outcomeVars PROVE OutcomesInv' OBVIOUS
<1>1. CASE Elapse
  <2>1. clock \in Nat /\ clock' = clock + 1 /\ UNCHANGED <<tasks, records>>
    BY <1>1 DEF Elapse, OutcomesInv
  <2>2. clock' \in Nat /\ clock <= clock' BY <2>1
  <2> QED BY <2>1, <2>2, PairStays DEF OutcomesInv
<1>2. CASE UNCHANGED outcomeVars
  <2>1. clock' \in Nat /\ clock <= clock' BY <1>2 DEF OutcomesInv, outcomeVars
  <2> QED BY <1>2, <2>1, PairStays DEF OutcomesInv, outcomeVars
<1> QED BY <1>1, <1>2, DetectKeeps, RaiseKeeps, WorkKeeps, BackInStockKeeps DEF OutcomesNext

----------------------------------------------------------------------------
\* Instants one behind the other, where there are any.
LEMMA OrderOfFive ==
    ASSUME NEW a \in Int, NEW b \in Int, NEW c \in Int, NEW d \in Int, NEW e \in Int,
           a <= b, c # Null => b <= c, d # Null => c # Null /\ c <= d,
           e # Null => d # Null /\ d <= e
    PROVE  Ordered(<<a, b, c, d, e>>)
BY DEF Ordered, Null

\* The invariant is what the property says, and more.
LEMMA Tells ==
    ASSUME OutcomesInv
    PROVE  RecordTellsTheTask
<1> SUFFICES ASSUME NEW g \in Gap, tasks[g] # NoTask
             PROVE  LET r == records[g]
                        t == tasks[g]
                    IN  /\ r.terminal = IF t.state.status \in TerminalStatuses
                                        THEN t.state.status ELSE "none"
                        /\ r.reopenCount = t.failedVerifications
                        /\ r.verifiedAt # Null <=> t.state.status = "verified"
                        /\ t.state.status = "verified" => r.verifiedAt = t.state.at
                        /\ t.state.status = "awaiting_verification" => r.resolvedAt = t.state.at
                        /\ Ordered(<<r.detectedAt, r.taskCreatedAt, r.assignedAt,
                                     r.acknowledgedAt, r.lastAcknowledgedAt>>)
                        /\ t.state.status \in {"awaiting_verification", "verified"} =>
                              Ordered(<<r.acknowledgedAt, r.lastAcknowledgedAt, r.resolvedAt,
                                        r.verifiedAt>>)
  BY DEF RecordTellsTheTask
<1> DEFINE r == records[g]
           t == tasks[g]
<1>1. Journey(r, t, clock) BY TaskedPair
<1>2. CountsAlike(r, t) /\ Settled(r, t) /\ Dispatched(r, t.state.status) /\ Shape(r, clock)
  BY <1>1 DEF Journey
<1>3. Ordered(<<r.detectedAt, r.taskCreatedAt, r.assignedAt, r.acknowledgedAt,
                r.lastAcknowledgedAt>>)
  BY <1>2, OrderOfFive DEF Dispatched, Shape, Instant
<1>4. ASSUME t.state.status \in {"awaiting_verification", "verified"}
      PROVE  Ordered(<<r.acknowledgedAt, r.lastAcknowledgedAt, r.resolvedAt, r.verifiedAt>>)
  BY <1>2, <1>4 DEF Ordered, Dispatched, Settled, Shape, Instant
<1> QED BY <1>2, <1>3, <1>4 DEF CountsAlike, Settled

\* The invariant that the theorem below rests on.
THEOREM OutcomesInvariant == OutcomesSpec => []OutcomesInv
BY OutcomesStart, OutcomesStep, PTL DEF OutcomesSpec

\* However a task is worked, rejected, worked again and closed, the record of its gap
\* ends as it ends, counts the attempts it counts, and holds the instants of the
\* attempt that stands, in their order (outcome-metrics.ts, task.ts).
THEOREM RecordFollowsTask == OutcomesSpec => []RecordTellsTheTask
BY OutcomesInvariant, Tells, PTL

----------------------------------------------------------------------------
(* What the reports read of a record.                                      *)
\* The record of gap g says whether it has a task, and is resolved only after it was
\* acknowledged.
Told(r, t, g) ==
    /\ r.gap = g /\ r.department = DepartmentOf[g]
    /\ r.backInStockAt \in Int
    /\ t = NoTask => r.taskId = Null /\ r.taskCreatedAt = Null
    /\ t # NoTask => r.taskId = g /\ r.taskCreatedAt # Null
    /\ r.resolvedAt # Null => r.acknowledgedAt # Null

ToldInv == \A g \in Gap : records[g] # NoRecord => Told(records[g], tasks[g], g)

\* A transition leaves alone what it is not about.
LEMMA TransitionLeaves ==
    ASSUME NEW r, NEW now \in Nat, Shape(r, now), NEW to, NEW r1,
           r1 = WithTransition(r, to, now)
    PROVE  /\ r1.gap = r.gap /\ r1.department = r.department
           /\ r1.taskId = r.taskId /\ r1.taskCreatedAt = r.taskCreatedAt
           /\ r1.backInStockAt = r.backInStockAt
           /\ to \notin {"awaiting_verification", "verified"} => r1.resolvedAt = r.resolvedAt
           /\ r.acknowledgedAt # Null => r1.acknowledgedAt # Null
<1>1. CASE to = "assigned"
  <2>1. r1 = [r EXCEPT !.assignedAt = OrElse(@, now)] BY <1>1 DEF WithTransition
  <2> QED BY <1>1, <2>1 DEF Shape
<1>2. CASE to = "acknowledged"
  <2>1. r1 = [r EXCEPT !.acknowledgedAt = OrElse(@, now), !.lastAcknowledgedAt = now]
    BY <1>2 DEF WithTransition
  <2>2. OrElse(r.acknowledgedAt, now) # Null BY DEF OrElse, Null
  <2> QED BY <1>2, <2>1, <2>2 DEF Shape
<1>3. CASE to = "awaiting_verification"
  <2>1. r1 = [r EXCEPT !.resolvedAt = now] BY <1>3 DEF WithTransition
  <2> QED BY <1>3, <2>1 DEF Shape
<1>4. CASE to = "verified"
  <2>1. r1 = [r EXCEPT !.resolvedAt = OrElse(@, now), !.verifiedAt = now, !.terminal = to]
    BY <1>4 DEF WithTransition
  <2> QED BY <1>4, <2>1 DEF Shape
<1>5. CASE to = "reopened"
  <2>1. r1 = [r EXCEPT !.reopenCount = @ + 1] BY <1>5 DEF WithTransition
  <2> QED BY <1>5, <2>1 DEF Shape
<1>6. CASE to \in {"cancelled", "expired"}
  <2>1. r1 = [r EXCEPT !.terminal = to] BY <1>6 DEF WithTransition
  <2> QED BY <1>6, <2>1 DEF Shape
<1>7. CASE to \notin {"assigned", "acknowledged", "awaiting_verification", "verified",
                      "reopened", "cancelled", "expired"}
  <2>1. r1 = r BY <1>7 DEF WithTransition
  <2> QED BY <2>1
<1> QED BY <1>1, <1>2, <1>3, <1>4, <1>5, <1>6, <1>7

\* A new record knows its gap and has no task.
LEMMA ToldDetect ==
    ASSUME OutcomesInv, ToldInv, NEW u \in Gap, Detect(u)
    PROVE  ToldInv'
<1>1. PICK r : r = OpenOutcome(u, DepartmentOf[u], clock) OBVIOUS
<1>2. tasks[u] = NoTask
  <2>1. ~Shape(records[u], clock) BY ShapeIsRecord DEF Detect
  <2> QED BY <2>1 DEF OutcomesInv, Journey
<1>3. records' = [records EXCEPT ![u] = r] /\ UNCHANGED tasks BY <1>1 DEF Detect
<1>4. Told(r, NoTask, u) BY <1>1 DEF OpenOutcome, Told, Null
<1> QED BY <1>2, <1>3, <1>4 DEF OutcomesInv, ToldInv

\* A task raised is known to the record from then on.
LEMMA ToldRaise ==
    ASSUME OutcomesInv, ToldInv, NEW u \in Gap, Raise(u)
    PROVE  ToldInv'
<1>1. PICK r : r = WithTask(records[u], u, Restock, clock) OBVIOUS
<1>2. PICK needsShelf \in BOOLEAN :
        tasks' = [tasks EXCEPT ![u] = CreateTask(1, needsShelf, clock)]
  BY DEF Raise
<1>3. records' = [records EXCEPT ![u] = r] BY <1>1 DEF Raise
<1>4. records[u] # NoRecord /\ tasks[u] = NoTask BY DEF Raise
<1>5. Shape(records[u], clock) BY <1>4 DEF OutcomesInv, Journey
<1>6. tasks'[u] # NoTask
  <2>1. tasks'[u] = CreateTask(1, needsShelf, clock) BY <1>2 DEF OutcomesInv
  <2>2. tasks'[u].state.status = "created" BY <2>1 DEF CreateTask
  <2>3. NoTask.state.status = "none" BY DEF NoTask
  <2> QED BY <2>2, <2>3
<1>7. Told(records[u], NoTask, u) BY <1>4 DEF ToldInv
<1>8. \A t : t # NoTask => Told(r, t, u)
  <2>1. /\ r.gap = records[u].gap /\ r.department = records[u].department
        /\ r.backInStockAt = records[u].backInStockAt /\ r.taskId = u
        /\ r.taskCreatedAt = clock /\ r.resolvedAt = records[u].resolvedAt
        /\ r.acknowledgedAt = records[u].acknowledgedAt
    BY <1>1, <1>5 DEF WithTask, Shape
  <2>2. clock # Null BY DEF OutcomesInv, Null
  <2> QED BY <1>7, <2>1, <2>2 DEF Told
<1>9. ASSUME NEW g \in Gap, records'[g] # NoRecord PROVE Told(records'[g], tasks'[g], g)
  <2>1. CASE g = u BY <1>3, <1>6, <1>8, <2>1 DEF OutcomesInv
  <2>2. CASE g # u BY <1>2, <1>3, <1>9, <2>2 DEF OutcomesInv, ToldInv
  <2> QED BY <2>1, <2>2
<1> QED BY <1>9 DEF ToldInv

\* A command that resolves finds the task acknowledged.
LEMMA ToldWork ==
    ASSUME OutcomesInv, ToldInv, NEW u \in Gap, NEW command \in Commands, Work(u, command)
    PROVE  ToldInv'
<1>1. PICK r, to, t : /\ to = Target(tasks[u], command)
                      /\ r = WithTransition(records[u], to, clock)
                      /\ t = ApplyTaskCommand(tasks[u], command)
  OBVIOUS
<1>2. /\ command.at = clock
      /\ command.kind \in {"assign", "acknowledge", "start", "resolve",
                           "confirm_verification", "reopen", "cancel", "expire"}
  BY DEF Commands
<1>3. Journey(records[u], tasks[u], clock) BY TaskedPair DEF Work
<1>4. Journey(r, t, clock) BY <1>1, <1>2, <1>3, CommandTells DEF Work, OutcomesInv
<1>5. tasks' = [tasks EXCEPT ![u] = t] /\ records' = [records EXCEPT ![u] = r]
  BY <1>1, <1>2 DEF Work
<1>6. t # NoTask /\ tasks[u] # NoTask BY <1>3, <1>4, ShapeIsTask DEF Journey
<1>7. records[u] # NoRecord BY <1>3, ShapeIsRecord DEF Journey
<1>8. Told(records[u], tasks[u], u) BY <1>7 DEF ToldInv
<1>9. /\ r.gap = records[u].gap /\ r.department = records[u].department
      /\ r.taskId = records[u].taskId /\ r.taskCreatedAt = records[u].taskCreatedAt
      /\ r.backInStockAt = records[u].backInStockAt
      /\ to \notin {"awaiting_verification", "verified"} => r.resolvedAt = records[u].resolvedAt
      /\ records[u].acknowledgedAt # Null => r.acknowledgedAt # Null
  BY <1>1, <1>3, TransitionLeaves DEF Journey, OutcomesInv
<1>10. to \in {"awaiting_verification", "verified"} => r.acknowledgedAt # Null
  <2>1. t.state.status = to BY <1>1, <1>3, AppliedTells DEF Journey
  <2> QED BY <1>4, <2>1 DEF Journey, Dispatched
<1>11. Told(r, t, u) BY <1>6, <1>8, <1>9, <1>10 DEF Told
<1> QED BY <1>5, <1>11 DEF OutcomesInv, ToldInv

\* The product coming back changes the one instant.
LEMMA ToldBackInStock ==
    ASSUME OutcomesInv, ToldInv, NEW u \in Gap, BackInStock(u)
    PROVE  ToldInv'
<1>1. PICK r : r = WithBackInStock(records[u], clock) OBVIOUS
<1>2. records' = [records EXCEPT ![u] = r] /\ UNCHANGED tasks BY <1>1 DEF BackInStock
<1>3. Shape(records[u], clock) BY DEF BackInStock, OutcomesInv, Journey
<1>4. /\ r.gap = records[u].gap /\ r.department = records[u].department
      /\ r.taskId = records[u].taskId /\ r.taskCreatedAt = records[u].taskCreatedAt
      /\ r.resolvedAt = records[u].resolvedAt /\ r.acknowledgedAt = records[u].acknowledgedAt
      /\ r.backInStockAt \in {records[u].backInStockAt, clock}
  BY <1>1, <1>3 DEF WithBackInStock, Shape, OrElse
<1>5. Told(records[u], tasks[u], u) BY DEF ToldInv, BackInStock
<1>6. Told(r, tasks[u], u) BY <1>4, <1>5 DEF Told, OutcomesInv
<1> QED BY <1>2, <1>6 DEF OutcomesInv, ToldInv

\* Every step keeps what the records say of themselves.
LEMMA ToldKeeps ==
    ASSUME OutcomesInv, ToldInv, [OutcomesNext]_outcomeVars
    PROVE  ToldInv'
<1>1. ASSUME Elapse \/ UNCHANGED outcomeVars PROVE ToldInv'
  BY <1>1 DEF Elapse, outcomeVars, ToldInv
<1> QED BY <1>1, ToldDetect, ToldRaise, ToldWork, ToldBackInStock DEF OutcomesNext

\* What can be said of any record a report is made from.
Sound(r) ==
    /\ r.gap \in Gap /\ r.department \in Nat
    /\ r.detectedAt \in Int /\ r.taskCreatedAt \in Int /\ r.assignedAt \in Int
    /\ r.acknowledgedAt \in Int /\ r.lastAcknowledgedAt \in Int /\ r.resolvedAt \in Int
    /\ r.verifiedAt \in Int /\ r.backInStockAt \in Int /\ r.reopenCount \in Nat
    /\ r.verifiedAt # Null => r.resolvedAt # Null
    /\ r.resolvedAt # Null => r.acknowledgedAt # Null
    /\ r.acknowledgedAt # Null => r.assignedAt # Null
    /\ r.assignedAt # Null => r.taskCreatedAt # Null
    /\ r.taskId # Null <=> r.taskCreatedAt # Null
    /\ r.terminal \in {"none", "verified", "cancelled", "expired"}
    /\ r.verifiedAt # Null <=> r.terminal = "verified"
    /\ r.taskId = Null => r.terminal = "none"

\* The records kept are finitely many, and each is sound.
LEMMA KeptIsSound ==
    ASSUME OutcomesInv, ToldInv
    PROVE  IsFiniteSet(Kept) /\ \A r \in Kept : Sound(r)
<1>1. IsFiniteSet(Kept)
  <2>1. PICK S : S = {records[g] : g \in Gap} OBVIOUS
  <2>2. IsFiniteSet(Gap) BY OutcomesAssumption
  <2>3. PICK f : f = [g \in Gap |-> records[g]] OBVIOUS
  <2>4. f \in Surjection(Gap, S) BY <2>1, <2>3 DEF Surjection
  <2>5. IsFiniteSet(S) BY <2>2, <2>4, FS_Surjection
  <2>6. Kept \subseteq S BY <2>1 DEF Kept
  <2> QED BY <2>5, <2>6, FS_Subset
<1>2. ASSUME NEW g \in Gap, records[g] # NoRecord PROVE Sound(records[g])
  <2>1. PICK r, t : r = records[g] /\ t = tasks[g] OBVIOUS
  <2>2. Told(r, t, g) BY <1>2, <2>1 DEF ToldInv
  <2>3. \/ Shape(r, clock) /\ Untasked(r) /\ t = NoTask
        \/ Journey(r, t, clock)
    BY <1>2, <2>1 DEF OutcomesInv
  <2>4. Shape(r, clock) BY <2>3 DEF Journey
  <2>5. g # Null /\ DepartmentOf[g] \in Nat BY OutcomesAssumption DEF Null
  <2>6. /\ r.gap \in Gap /\ r.department \in Nat /\ r.backInStockAt \in Int
        /\ r.resolvedAt # Null => r.acknowledgedAt # Null
        /\ r.taskId # Null <=> r.taskCreatedAt # Null
    BY <2>2, <2>5 DEF Told
  <2>7. /\ r.detectedAt \in Int /\ r.taskCreatedAt \in Int /\ r.assignedAt \in Int
        /\ r.acknowledgedAt \in Int /\ r.lastAcknowledgedAt \in Int /\ r.resolvedAt \in Int
        /\ r.verifiedAt \in Int
    BY <2>4 DEF Shape, Instant
  <2>8. CASE Untasked(r) /\ t = NoTask
    <3>1. /\ r.assignedAt = Null /\ r.acknowledgedAt = Null /\ r.resolvedAt = Null
          /\ r.verifiedAt = Null /\ r.reopenCount = 0 /\ r.terminal = "none"
      BY <2>8 DEF Untasked
    <3> QED BY <2>1, <2>6, <2>7, <3>1 DEF Sound
  <2>9. CASE Journey(r, t, clock)
    <3>1. /\ TaskShape(t) /\ Dispatched(r, t.state.status) /\ Settled(r, t)
          /\ CountsAlike(r, t) /\ t # NoTask
      BY <2>9, ShapeIsTask DEF Journey
    <3>2. r.taskId # Null /\ r.taskCreatedAt # Null BY <2>2, <2>5, <3>1 DEF Told
    <3>3. /\ r.verifiedAt # Null <=> t.state.status = "verified"
          /\ t.state.status = "verified" => r.resolvedAt # Null
      BY <3>1 DEF Settled
    <3>4. r.acknowledgedAt # Null => r.assignedAt # Null BY <3>1 DEF Dispatched
    <3>5. /\ r.reopenCount \in Nat
          /\ r.terminal = IF t.state.status \in TerminalStatuses THEN t.state.status ELSE "none"
      BY <3>1 DEF CountsAlike, TaskShape
    <3>6. /\ r.terminal \in {"none", "verified", "cancelled", "expired"}
          /\ r.verifiedAt # Null <=> r.terminal = "verified"
      BY <3>3, <3>5 DEF TerminalStatuses
    <3> QED BY <2>1, <2>6, <2>7, <3>2, <3>3, <3>4, <3>5, <3>6 DEF Sound
  <2> QED BY <2>3, <2>8, <2>9
<1>3. ASSUME NEW r \in Kept PROVE Sound(r)
  <2>1. PICK g \in Gap : r = records[g] /\ r # NoRecord BY <1>3 DEF Kept
  <2> QED BY <1>2, <2>1
<1> QED BY <1>1, <1>3

\* How often a step goes into a span.
LEMMA Quotient ==
    ASSUME NEW m \in Nat, NEW l \in Nat \ {0}, NEW z, z = m \div l
    PROVE  z \in Nat /\ z * l <= m /\ m < z * l + l
  OBVIOUS

\* There is one such number of times.
LEMMA OneQuotient ==
    ASSUME NEW m \in Nat, NEW l \in Nat, l # 0, NEW x \in Nat, NEW y \in Nat,
           x * l <= m, m < x * l + l, y * l <= m, m < y * l + l
    PROVE  x = y
<1>1. ASSUME NEW u \in Nat, NEW v \in Nat, u < v PROVE u * l + l <= v * l
  <2>1. PICK k : k = v - u OBVIOUS
  <2>2. k \in Nat /\ k >= 1 /\ v = u + k BY <1>1, <2>1
  <2>3. v * l = u * l + k * l BY <2>2
  <2>4. k * l >= l BY <2>2
  <2>5. u * l \in Nat /\ k * l \in Nat BY <2>2
  <2> QED BY <2>3, <2>4, <2>5
<1>2. x * l \in Nat /\ y * l \in Nat OBVIOUS
<1>3. ~(x < y) BY <1>1, <1>2
<1>4. ~(y < x) BY <1>1, <1>2
<1> QED BY <1>3, <1>4

\* A span is cut into as many steps as hold it.
LEMMA StepsHold ==
    ASSUME NEW d \in Nat, NEW l \in Nat \ {0}, NEW n, n = (d + l - 1) \div l
    PROVE  n \in Nat /\ \A i \in 1..d : ((i - 1) \div l) + 1 \in 1..n
<1>1. PICK e : e = d + l - 1 OBVIOUS
<1>2. e \in Nat BY <1>1
<1>3. n \in Nat /\ n * l <= e /\ e < n * l + l BY <1>1, <1>2, Quotient
<1>4. ASSUME NEW i \in 1..d PROVE ((i - 1) \div l) + 1 \in 1..n
  <2>1. PICK z : z = (i - 1) \div l OBVIOUS
  <2>2. z \in Nat /\ z * l <= i - 1 BY <2>1, Quotient
  <2>3. z < n
    <3>1. SUFFICES ASSUME n <= z PROVE FALSE BY <1>3, <2>2
    <3>2. PICK k : k = z - n OBVIOUS
    <3>3. k \in Nat /\ z = n + k BY <1>3, <2>2, <3>1, <3>2
    <3>4. z * l = n * l + k * l BY <1>3, <3>3
    <3>5. k * l \in Nat /\ n * l \in Nat BY <1>3, <3>3
    <3> QED BY <1>1, <1>3, <2>2, <3>4, <3>5
  <2> QED BY <1>3, <2>1, <2>2, <2>3
<1> QED BY <1>3, <1>4

----------------------------------------------------------------------------
(* Reports.  Whatever is counted, the buckets and the departments have it  *)
(* between them.                                                           *)
\* The n buckets of a window, and the one an instant of it lies in.
Tiled(w, step, n, place) ==
    /\ DOMAIN BucketsFor(w, step) = 1..n
    /\ \A t \in Int : InWindow(w, t) => place[t] \in 1..n
    /\ \A i \in 1..n : \A t \in Int :
          InWindow(BucketsFor(w, step)[i], t) <=> InWindow(w, t) /\ place[t] = i

\* Every instant of a window lies in one bucket, whatever the step.
LEMMA BucketsTile ==
    ASSUME NEW w, w.from \in Int, w.to \in Int, w.from <= w.to, NEW step \in Nat
    PROVE  \E n \in Nat : \E place : Tiled(w, step, n, place)
<1>1. PICK a, b : a = w.from /\ b = w.to OBVIOUS
<1>2. a \in Int /\ b \in Int /\ a <= b BY <1>1
<1>3. PICK buckets : buckets = BucketsFor(w, step) OBVIOUS
<1>4. PICK d : d = b - a OBVIOUS
<1>5. d \in Nat /\ Duration(w) = d BY <1>1, <1>2, <1>4 DEF Duration
<1>6. CASE step = 0 \/ d = 0
  <2>1. buckets = <<w>> BY <1>3, <1>5, <1>6 DEF BucketsFor
  <2>2. PICK place : place = [t \in Int |-> 1] OBVIOUS
  <2>3. DOMAIN buckets = 1..1 /\ buckets[1] = w BY <2>1
  <2> QED BY <1>3, <2>2, <2>3 DEF Tiled
<1>7. CASE step # 0 /\ d # 0
  <2>1. PICK n : n = (d + step - 1) \div step OBVIOUS
  <2>2. n \in Nat /\ \A i \in 1..d : ((i - 1) \div step) + 1 \in 1..n
    <3>1. step \in Nat \ {0} BY <1>7
    <3> QED BY <1>5, <2>1, <3>1, StepsHold
  <2>3. buckets = [i \in 1..n |-> Window(a + (i - 1) * step, Min({a + i * step, b}))]
    BY <1>1, <1>3, <1>5, <1>7, <2>1 DEF BucketsFor
  <2>4. PICK place : place = [t \in Int |-> ((t - a) \div step) + 1] OBVIOUS
  <2>5. ASSUME NEW t \in Int, InWindow(w, t) PROVE place[t] \in 1..n
    <3>1. PICK k : k = t - a + 1 OBVIOUS
    <3>2. k \in 1..d /\ k - 1 = t - a BY <1>1, <1>2, <1>4, <2>5, <3>1 DEF InWindow
    <3>3. ((k - 1) \div step) + 1 \in 1..n BY <2>2, <3>2
    <3> QED BY <2>4, <3>2, <3>3
  <2>6. ASSUME NEW i \in 1..n, NEW t \in Int
        PROVE  InWindow(buckets[i], t) <=> InWindow(w, t) /\ place[t] = i
    <3>1. PICK p, q : p = (i - 1) * step /\ q = i * step OBVIOUS
    <3>2. p \in Nat /\ q \in Nat /\ q = p + step
      <4>1. i - 1 \in Nat /\ i = (i - 1) + 1 BY <2>2
      <4>2. ((i - 1) + 1) * step = (i - 1) * step + step BY <4>1
      <4> QED BY <3>1, <4>1, <4>2
    <3>3. PICK u : u = a + q OBVIOUS
    <3>4. u \in Int /\ Min({u, b}) = IF u <= b THEN u ELSE b
      BY <1>2, <3>2, <3>3, SmallerOf
    <3>5. buckets[i] = Window(a + p, Min({u, b})) BY <2>3, <3>1, <3>3
    <3>6. InWindow(buckets[i], t) <=> a + p <= t /\ t < a + q /\ t < b
      BY <1>2, <3>2, <3>3, <3>4, <3>5 DEF InWindow, Window
    <3>7. CASE a <= t
      <4>1. PICK m : m = t - a OBVIOUS
      <4>2. m \in Nat BY <1>2, <3>7, <4>1
      <4>3. place[t] = i <=> p <= m /\ m < q
        <5>1. PICK z : z = m \div step OBVIOUS
        <5>2. z \in Nat /\ z * step <= m /\ m < z * step + step
          BY <1>7, <4>2, <5>1, Quotient
        <5>3. place[t] = z + 1 BY <2>4, <4>1, <5>1
        <5>4. ASSUME z + 1 = i PROVE p <= m /\ m < q
          <6>1. z = i - 1 BY <2>2, <5>2, <5>4
          <6> QED BY <3>1, <3>2, <5>2, <6>1
        <5>5. ASSUME p <= m, m < q PROVE z + 1 = i
          <6>1. i - 1 \in Nat BY <2>2
          <6>2. PICK j : j = i - 1 OBVIOUS
          <6>3. j \in Nat /\ j * step <= m /\ m < j * step + step
            BY <3>1, <3>2, <5>5, <6>1, <6>2
          <6>4. z = j BY <1>7, <4>2, <5>2, <6>3, OneQuotient
          <6> QED BY <2>2, <5>2, <6>2, <6>4
        <5> QED BY <5>3, <5>4, <5>5
      <4>4. a + p <= t <=> p <= m BY <1>2, <3>2, <4>1
      <4>5. t < a + q <=> m < q BY <1>2, <3>2, <4>1
      <4> QED BY <1>1, <3>6, <3>7, <4>3, <4>4, <4>5 DEF InWindow
    <3>8. CASE ~(a <= t)
      <4>1. ~(a + p <= t) BY <1>2, <3>2, <3>8
      <4> QED BY <1>1, <3>6, <3>8, <4>1 DEF InWindow
    <3> QED BY <3>7, <3>8
  <2>7. DOMAIN buckets = 1..n BY <2>3
  <2> QED BY <1>3, <2>2, <2>5, <2>6, <2>7 DEF Tiled
<1> QED BY <1>6, <1>7

----------------------------------------------------------------------------
(* A count is the sum of what each record adds to it.                      *)
One(holds) == IF holds THEN 1 ELSE 0

\* Ones for those that count and noughts for the others come to their number.
LEMMA CountIsSum ==
    ASSUME NEW D, IsFiniteSet(D), NEW v, NEW T \in SUBSET D,
           \A x \in T : v[x] = 1, \A x \in D \ T : v[x] = 0
    PROVE  SumFunctionOnSet(v, D) = Cardinality(T)
<1>1. PICK rest : rest = D \ T OBVIOUS
<1>2. IsFiniteSet(T) /\ IsFiniteSet(rest) /\ T \cap rest = {} /\ T \cup rest = D
  BY <1>1, FS_Subset
<1>3. Integral(v, D) /\ Integral(v, T) /\ Integral(v, rest) BY <1>1 DEF Integral
<1>4. SumFunctionOnSet(v, T) = Cardinality(T) BY <1>2, SumOfOnes
<1>5. SumFunctionOnSet(v, rest) = 0
  <2>1. \A x \in rest : v[x] = v[x] + v[x] BY <1>1
  <2>2. SumFunctionOnSet(v, rest) = SumFunctionOnSet(v, rest) + SumFunctionOnSet(v, rest)
    BY <1>2, <1>3, <2>1, SumOfSums
  <2>3. SumFunctionOnSet(v, rest) \in Int BY <1>2, <1>3, SumType
  <2>4. PICK a : a = SumFunctionOnSet(v, rest) OBVIOUS
  <2>5. a \in Int /\ a = a + a BY <2>2, <2>3, <2>4
  <2>6. a = 0 BY ONLY <2>5
  <2> QED BY <2>4, <2>6
<1>6. SumFunctionOnSet(v, D) = SumFunctionOnSet(v, T) + SumFunctionOnSet(v, rest)
  <2>1. Integral(v, T \cup rest) BY <1>2, <1>3
  <2>2. SumFunctionOnSet(v, T \cup rest) = SumFunctionOnSet(v, T) + SumFunctionOnSet(v, rest)
    BY <1>2, <2>1, SumOfDisjoint
  <2> QED BY <1>2, <2>2
<1>7. Cardinality(T) \in Nat BY <1>2, FS_CardinalityType
<1> QED BY <1>4, <1>5, <1>6, <1>7

\* What a gap adds to the figures of a resolved-gap-rate report, and of a report on
\* the work.
GapAdds(K, cutoff, within) ==
    [detectedGaps |-> [r \in K |-> One(TRUE)],
     taskedGaps   |-> [r \in K |-> One(r.taskId # Null)],
     verifiedGaps |-> [r \in K |-> One(r.verifiedAt # Null)],
     resolvedGaps |-> [r \in K |-> One(r.resolvedAt # Null)],
     selfResolvedGaps |-> [r \in K |-> One(r.taskId = Null /\ r.backInStockAt # Null)],
     unresolvedGaps |-> [r \in K |-> One(/\ r.verifiedAt = Null /\ r.backInStockAt = Null
                                         /\ ~AwaitsVerification(r, cutoff, within))],
     awaitingVerification |-> [r \in K |-> One(AwaitsVerification(r, cutoff, within))]]

WorkAdds(K) ==
    [created      |-> [r \in K |-> One(r.taskCreatedAt # Null)],
     assigned     |-> [r \in K |-> One(r.assignedAt # Null)],
     acknowledged |-> [r \in K |-> One(r.acknowledgedAt # Null)],
     resolved     |-> [r \in K |-> One(r.resolvedAt # Null)],
     verified     |-> [r \in K |-> One(r.verifiedAt # Null)],
     reopened     |-> [r \in K |-> r.reopenCount],
     cancelled    |-> [r \in K |-> One(r.terminal = "cancelled")],
     expired      |-> [r \in K |-> One(r.terminal = "expired")],
     outstanding  |-> [r \in K |-> One(r.taskId # Null /\ r.terminal = "none")]]

\* The same, of some of the records.
LEMMA AddsOne ==
    ASSUME NEW K, NEW S \in SUBSET K, IsFiniteSet(S), NEW T \in SUBSET S,
           NEW v, \A r \in S : v[r] = One(r \in T)
    PROVE  Cardinality(T) = SumFunctionOnSet(v, S)
<1>1. \A r \in T : v[r] = 1 BY DEF One
<1>2. \A r \in S \ T : v[r] = 0 BY DEF One
<1> QED BY <1>1, <1>2, CountIsSum

\* Each count of a point is the sum of what its gaps add.
LEMMA GapPoint ==
    ASSUME NEW K, NEW S \in SUBSET K, IsFiniteSet(S), NEW cutoff, NEW within,
           NEW key \in DOMAIN GapAdds(K, cutoff, within)
    PROVE  ResolvedGapRatePoint(S, cutoff, within)[key] =
             SumFunctionOnSet(GapAdds(K, cutoff, within)[key], S)
<1> DEFINE awaits(r) == AwaitsVerification(r, cutoff, within)
           P == ResolvedGapRatePoint(S, cutoff, within)
           A == GapAdds(K, cutoff, within)
<1>1. CASE key = "detectedGaps"
  <2>1. P[key] = Cardinality(S) BY <1>1 DEF ResolvedGapRatePoint
  <2>2. A[key] = [r \in K |-> One(TRUE)] BY <1>1 DEF GapAdds
  <2>3. \A r \in S : A[key][r] = One(r \in S) BY <2>2 DEF One
  <2> QED BY <2>1, <2>3, AddsOne
<1>2. CASE key = "taskedGaps"
  <2>1. PICK T : T = {r \in S : r.taskId # Null} OBVIOUS
  <2>2. P[key] = Cardinality(T) BY <1>2, <2>1 DEF ResolvedGapRatePoint, Count
  <2>3. A[key] = [r \in K |-> One(r.taskId # Null)] BY <1>2 DEF GapAdds
  <2>4. \A r \in S : A[key][r] = One(r \in T) BY <2>1, <2>3
  <2> QED BY <2>1, <2>2, <2>4, AddsOne
<1>3. CASE key = "verifiedGaps"
  <2>1. PICK T : T = {r \in S : r.verifiedAt # Null} OBVIOUS
  <2>2. P[key] = Cardinality(T) BY <1>3, <2>1 DEF ResolvedGapRatePoint, Count
  <2>3. A[key] = [r \in K |-> One(r.verifiedAt # Null)] BY <1>3 DEF GapAdds
  <2>4. \A r \in S : A[key][r] = One(r \in T) BY <2>1, <2>3
  <2> QED BY <2>1, <2>2, <2>4, AddsOne
<1>4. CASE key = "resolvedGaps"
  <2>1. PICK T : T = {r \in S : r.resolvedAt # Null} OBVIOUS
  <2>2. P[key] = Cardinality(T) BY <1>4, <2>1 DEF ResolvedGapRatePoint, Count
  <2>3. A[key] = [r \in K |-> One(r.resolvedAt # Null)] BY <1>4 DEF GapAdds
  <2>4. \A r \in S : A[key][r] = One(r \in T) BY <2>1, <2>3
  <2> QED BY <2>1, <2>2, <2>4, AddsOne
<1>5. CASE key = "selfResolvedGaps"
  <2>1. PICK T : T = {r \in S : r.taskId = Null /\ r.backInStockAt # Null} OBVIOUS
  <2>2. P[key] = Cardinality(T) BY <1>5, <2>1 DEF ResolvedGapRatePoint, Count
  <2>3. A[key] = [r \in K |-> One(r.taskId = Null /\ r.backInStockAt # Null)] BY <1>5 DEF GapAdds
  <2>4. \A r \in S : A[key][r] = One(r \in T) BY <2>1, <2>3
  <2> QED BY <2>1, <2>2, <2>4, AddsOne
<1>6. CASE key = "unresolvedGaps"
  <2>1. PICK T : T = {r \in S : r.verifiedAt = Null /\ r.backInStockAt = Null /\ ~awaits(r)} OBVIOUS
  <2>2. P[key] = Cardinality(T) BY <1>6, <2>1 DEF ResolvedGapRatePoint, Count
  <2>3. A[key] = [r \in K |-> One(/\ r.verifiedAt = Null /\ r.backInStockAt = Null
                                  /\ ~awaits(r))]
    BY <1>6 DEF GapAdds
  <2>4. ASSUME NEW r \in S PROVE A[key][r] = One(r \in T)
    <3>1. A[key][r] = One(r.verifiedAt = Null /\ r.backInStockAt = Null /\ ~awaits(r)) BY <2>3
    <3>2. r \in T <=> r.verifiedAt = Null /\ r.backInStockAt = Null /\ ~awaits(r) BY <2>1
    <3> HIDE DEF awaits
    <3> QED BY <3>1, <3>2 DEF One
  <2> QED BY <2>1, <2>2, <2>4, AddsOne
<1>7. CASE key = "awaitingVerification"
  <2>1. PICK T : T = {r \in S : awaits(r)} OBVIOUS
  <2>2. P[key] = Cardinality(T) BY <1>7, <2>1 DEF ResolvedGapRatePoint, Count
  <2>3. A[key] = [r \in K |-> One(awaits(r))] BY <1>7 DEF GapAdds
  <2>4. ASSUME NEW r \in S PROVE A[key][r] = One(r \in T)
    <3>1. A[key][r] = One(awaits(r)) /\ (r \in T <=> awaits(r)) BY <2>1, <2>3
    <3> HIDE DEF awaits
    <3> QED BY <3>1 DEF One
  <2> QED BY <2>1, <2>2, <2>4, AddsOne
<1> QED BY <1>1, <1>2, <1>3, <1>4, <1>5, <1>6, <1>7 DEF GapAdds

\* Each count of a point on the work is the sum of what its tasks add.
LEMMA WorkPoint ==
    ASSUME NEW K, NEW S \in SUBSET K, IsFiniteSet(S), \A r \in S : r.reopenCount \in Int,
           NEW hours, NEW key \in DOMAIN WorkAdds(K)
    PROVE  TaskWorkRatePoint(S, hours)[key] = SumFunctionOnSet(WorkAdds(K)[key], S)
<1> DEFINE P == TaskWorkRatePoint(S, hours)
           A == WorkAdds(K)
<1>1. CASE key = "reopened"
  <2>1. PICK v : v = [r \in S |-> r.reopenCount] OBVIOUS
  <2>2. P[key] = SumFunctionOnSet(v, S) BY <1>1, <2>1 DEF TaskWorkRatePoint, SumFunction
  <2>3. A[key] = [r \in K |-> r.reopenCount] BY <1>1 DEF WorkAdds
  <2>4. Integral(v, S) /\ \A r \in S : A[key][r] = v[r] BY <2>1, <2>3 DEF Integral
  <2>5. SumFunctionOnSet(A[key], S) = SumFunctionOnSet(v, S) BY <2>4, SumOfSame
  <2> QED BY <2>2, <2>5
<1>2. CASE key = "created"
  <2>1. PICK T : T = {r \in S : r.taskCreatedAt # Null} OBVIOUS
  <2>2. P[key] = Cardinality(T) BY <1>2, <2>1 DEF TaskWorkRatePoint, Count
  <2>3. A[key] = [r \in K |-> One(r.taskCreatedAt # Null)] BY <1>2 DEF WorkAdds
  <2>4. \A r \in S : A[key][r] = One(r \in T) BY <2>1, <2>3
  <2> QED BY <2>1, <2>2, <2>4, AddsOne
<1>3. CASE key = "assigned"
  <2>1. PICK T : T = {r \in S : r.assignedAt # Null} OBVIOUS
  <2>2. P[key] = Cardinality(T) BY <1>3, <2>1 DEF TaskWorkRatePoint, Count
  <2>3. A[key] = [r \in K |-> One(r.assignedAt # Null)] BY <1>3 DEF WorkAdds
  <2>4. \A r \in S : A[key][r] = One(r \in T) BY <2>1, <2>3
  <2> QED BY <2>1, <2>2, <2>4, AddsOne
<1>4. CASE key = "acknowledged"
  <2>1. PICK T : T = {r \in S : r.acknowledgedAt # Null} OBVIOUS
  <2>2. P[key] = Cardinality(T) BY <1>4, <2>1 DEF TaskWorkRatePoint, Count
  <2>3. A[key] = [r \in K |-> One(r.acknowledgedAt # Null)] BY <1>4 DEF WorkAdds
  <2>4. \A r \in S : A[key][r] = One(r \in T) BY <2>1, <2>3
  <2> QED BY <2>1, <2>2, <2>4, AddsOne
<1>5. CASE key = "resolved"
  <2>1. PICK T : T = {r \in S : r.resolvedAt # Null} OBVIOUS
  <2>2. P[key] = Cardinality(T) BY <1>5, <2>1 DEF TaskWorkRatePoint, Count
  <2>3. A[key] = [r \in K |-> One(r.resolvedAt # Null)] BY <1>5 DEF WorkAdds
  <2>4. \A r \in S : A[key][r] = One(r \in T) BY <2>1, <2>3
  <2> QED BY <2>1, <2>2, <2>4, AddsOne
<1>6. CASE key = "verified"
  <2>1. PICK T : T = {r \in S : r.verifiedAt # Null} OBVIOUS
  <2>2. P[key] = Cardinality(T) BY <1>6, <2>1 DEF TaskWorkRatePoint, Count
  <2>3. A[key] = [r \in K |-> One(r.verifiedAt # Null)] BY <1>6 DEF WorkAdds
  <2>4. \A r \in S : A[key][r] = One(r \in T) BY <2>1, <2>3
  <2> QED BY <2>1, <2>2, <2>4, AddsOne
<1>7. CASE key = "cancelled"
  <2>1. PICK T : T = {r \in S : r.terminal = "cancelled"} OBVIOUS
  <2>2. P[key] = Cardinality(T) BY <1>7, <2>1 DEF TaskWorkRatePoint, Count
  <2>3. A[key] = [r \in K |-> One(r.terminal = "cancelled")] BY <1>7 DEF WorkAdds
  <2>4. \A r \in S : A[key][r] = One(r \in T) BY <2>1, <2>3
  <2> QED BY <2>1, <2>2, <2>4, AddsOne
<1>8. CASE key = "expired"
  <2>1. PICK T : T = {r \in S : r.terminal = "expired"} OBVIOUS
  <2>2. P[key] = Cardinality(T) BY <1>8, <2>1 DEF TaskWorkRatePoint, Count
  <2>3. A[key] = [r \in K |-> One(r.terminal = "expired")] BY <1>8 DEF WorkAdds
  <2>4. \A r \in S : A[key][r] = One(r \in T) BY <2>1, <2>3
  <2> QED BY <2>1, <2>2, <2>4, AddsOne
<1>9. CASE key = "outstanding"
  <2>1. PICK T : T = {r \in S : r.taskId # Null /\ r.terminal = "none"} OBVIOUS
  <2>2. P[key] = Cardinality(T) BY <1>9, <2>1 DEF TaskWorkRatePoint, Count
  <2>3. A[key] = [r \in K |-> One(r.taskId # Null /\ r.terminal = "none")] BY <1>9 DEF WorkAdds
  <2>4. \A r \in S : A[key][r] = One(r \in T) BY <2>1, <2>3
  <2> QED BY <2>1, <2>2, <2>4, AddsOne
<1> QED BY <1>1, <1>2, <1>3, <1>4, <1>5, <1>6, <1>7, <1>8, <1>9 DEF WorkAdds

----------------------------------------------------------------------------
(* A report cuts the gaps of its window by bucket and by department.       *)
LEMMA SeriesAddsUp ==
    ASSUME NEW K, IsFiniteSet(K), \A r \in K : r.detectedAt \in Int,
           NEW w, w.from \in Int, w.to \in Int, w.from <= w.to, NEW step \in Nat,
           NEW v, Integral(v, K), NEW f, DOMAIN f = DOMAIN BucketsFor(w, step),
           \A i \in DOMAIN f : f[i] = SumFunctionOnSet(v, Cohort(K, BucketsFor(w, step)[i]))
    PROVE  SumFunction(f) = SumFunctionOnSet(v, Cohort(K, w))
<1>1. PICK S : S = Cohort(K, w) OBVIOUS
<1>2. S \subseteq K /\ \A r \in S : r.detectedAt \in Int /\ InWindow(w, r.detectedAt)
  BY <1>1 DEF Cohort
<1>3. IsFiniteSet(S) /\ Integral(v, S) BY <1>2, FS_Subset DEF Integral
<1>4. PICK n \in Nat : \E place : Tiled(w, step, n, place) BY BucketsTile
<1>5. PICK place : Tiled(w, step, n, place) BY <1>4
<1>6. PICK part : part = [r \in S |-> place[r.detectedAt]] OBVIOUS
<1>7. PICK N : N = 1..n OBVIOUS
<1>8. IsFiniteSet(N) BY <1>7, UpTo
<1>9. \A r \in S : part[r] \in N BY <1>2, <1>5, <1>6, <1>7 DEF Tiled
<1>10. ASSUME NEW i \in N PROVE f[i] = SumFunctionOnSet(v, Placed(S, part, i))
  <2>1. Cohort(K, BucketsFor(w, step)[i]) = Placed(S, part, i)
    <3>1. PICK b : b = BucketsFor(w, step)[i] OBVIOUS
    <3>2. \A t \in Int : InWindow(b, t) <=> InWindow(w, t) /\ place[t] = i
      BY <1>5, <1>7, <3>1 DEF Tiled
    <3>3. ASSUME NEW r PROVE r \in Cohort(K, b) <=> r \in Placed(S, part, i)
      <4>1. r \in Cohort(K, b) <=> r \in K /\ InWindow(b, r.detectedAt) BY DEF Cohort
      <4>2. r \in S <=> r \in K /\ InWindow(w, r.detectedAt) BY <1>1 DEF Cohort
      <4>3. r \in Placed(S, part, i) <=> r \in S /\ place[r.detectedAt] = i
        BY <1>6 DEF Placed
      <4>4. r \in K => (InWindow(b, r.detectedAt) <=>
                          InWindow(w, r.detectedAt) /\ place[r.detectedAt] = i)
        BY <3>2
      <4> QED BY <4>1, <4>2, <4>3, <4>4
    <3>4. Cohort(K, b) = Placed(S, part, i) BY <3>3
    <3> QED BY <3>1, <3>4
  <2>2. i \in DOMAIN f BY <1>5, <1>7 DEF Tiled
  <2> QED BY <2>1, <2>2
<1>11. SumFunctionOnSet(f, N) = SumFunctionOnSet(v, S)
  <2>1. \A i \in N : f[i] = SumFunctionOnSet(v, Placed(S, part, i)) BY <1>10
  <2> QED BY <1>3, <1>8, <1>9, <2>1, SumOfParts
<1>12. DOMAIN f = N BY <1>5, <1>7 DEF Tiled
<1> QED BY <1>1, <1>11, <1>12 DEF SumFunction

\* The departments of a cohort have it between them.
LEMMA SlicesAddUp ==
    ASSUME NEW S, IsFiniteSet(S), \A r \in S : r.department # Null,
           NEW v, Integral(v, S), NEW f, DOMAIN f = DOMAIN GroupBy(S, "department"),
           \A k \in DOMAIN f : f[k] = SumFunctionOnSet(v, GroupBy(S, "department")[k])
    PROVE  SumFunction(f) = SumFunctionOnSet(v, S)
<1>1. PICK D : D = {r.department : r \in S} OBVIOUS
<1>2. PICK part : part = [r \in S |-> r.department] OBVIOUS
<1>3. IsFiniteSet(D)
  <2>1. part \in Surjection(S, D) BY <1>1, <1>2 DEF Surjection
  <2> QED BY <2>1, FS_Surjection
<1>4. GroupBy(S, "department") = [k \in D |-> {r \in S : r.department = k}]
  <2>1. D \ {Null} = D BY <1>1
  <2>2. GroupBy(S, "department") = [k \in D \ {Null} |-> {r \in S : r.department = k}]
    BY <1>1 DEF GroupBy
  <2> QED BY <2>1, <2>2
<1>5. DOMAIN f = D BY <1>4
<1>6. ASSUME NEW k \in D PROVE f[k] = SumFunctionOnSet(v, Placed(S, part, k))
  <2>1. GroupBy(S, "department")[k] = Placed(S, part, k) BY <1>2, <1>4 DEF Placed
  <2> QED BY <1>5, <2>1
<1>7. \A r \in S : part[r] \in D BY <1>1, <1>2
<1>8. SumFunctionOnSet(f, D) = SumFunctionOnSet(v, S)
  <2>1. \A k \in D : f[k] = SumFunctionOnSet(v, Placed(S, part, k)) BY <1>6
  <2> QED BY <1>3, <1>7, <2>1, SumOfParts
<1> QED BY <1>5, <1>8 DEF SumFunction

\* A gap adds one or nothing.
LEMMA GapAddsWhole ==
    ASSUME NEW K, NEW cutoff, NEW within, NEW key \in DOMAIN GapAdds(K, cutoff, within)
    PROVE  \A r \in K : GapAdds(K, cutoff, within)[key][r] \in {0, 1}
BY DEF GapAdds, One

\* A task adds a whole number.
LEMMA WorkAddsWhole ==
    ASSUME NEW K, \A r \in K : r.reopenCount \in Nat, NEW key \in DOMAIN WorkAdds(K)
    PROVE  \A r \in K : WorkAdds(K)[key][r] \in Int
BY DEF WorkAdds, One

\* A figure of a report is that of the whole cohort, of its buckets together and of
\* its departments together.
AddsUp(report, key, total) ==
    /\ report.overall[key] = total
    /\ SumFunction([i \in DOMAIN report.series |-> report.series[i][key]]) = total
    /\ SumFunction([i \in DOMAIN report.breakdowns |-> report.breakdowns[i][key]]) = total

\* A figure that is a sum over gaps is that of its buckets and of its departments.
LEMMA CutsAddUp ==
    ASSUME NEW K, IsFiniteSet(K), \A r \in K : r.detectedAt \in Int /\ r.department # Null,
           NEW w, w.from \in Int, w.to \in Int, w.from <= w.to, NEW step \in Nat,
           NEW v, Integral(v, K), NEW report, NEW key,
           DOMAIN report.series = DOMAIN BucketsFor(w, step),
           DOMAIN report.breakdowns = DOMAIN GroupBy(Cohort(K, w), "department"),
           report.overall[key] = SumFunctionOnSet(v, Cohort(K, w)),
           \A i \in DOMAIN report.series :
             report.series[i][key] = SumFunctionOnSet(v, Cohort(K, BucketsFor(w, step)[i])),
           \A k \in DOMAIN report.breakdowns :
             report.breakdowns[k][key] =
               SumFunctionOnSet(v, GroupBy(Cohort(K, w), "department")[k])
    PROVE  AddsUp(report, key, SumFunctionOnSet(v, Cohort(K, w)))
<1>1. PICK S : S = Cohort(K, w) OBVIOUS
<1>2. S \subseteq K BY <1>1 DEF Cohort
<1>3. IsFiniteSet(S) /\ Integral(v, S) BY <1>2, FS_Subset DEF Integral
<1>4. PICK f : f = [i \in DOMAIN report.series |-> report.series[i][key]] OBVIOUS
<1>5. SumFunction(f) = SumFunctionOnSet(v, S)
  <2>1. DOMAIN f = DOMAIN BucketsFor(w, step) BY <1>4
  <2>2. \A i \in DOMAIN f : f[i] = SumFunctionOnSet(v, Cohort(K, BucketsFor(w, step)[i]))
    BY <1>4
  <2>3. \A r \in K : r.detectedAt \in Int OBVIOUS
  <2>4. SumFunction(f) = SumFunctionOnSet(v, Cohort(K, w)) BY <2>1, <2>2, <2>3, SeriesAddsUp
  <2> QED BY <1>1, <2>4
<1>6. PICK h : h = [k \in DOMAIN report.breakdowns |-> report.breakdowns[k][key]] OBVIOUS
<1>7. SumFunction(h) = SumFunctionOnSet(v, S)
  <2>1. DOMAIN h = DOMAIN GroupBy(S, "department") BY <1>1, <1>6
  <2>2. \A k \in DOMAIN h : h[k] = SumFunctionOnSet(v, GroupBy(S, "department")[k])
    BY <1>1, <1>6
  <2>3. \A r \in S : r.department # Null BY <1>2
  <2> QED BY <1>3, <2>1, <2>2, <2>3, SlicesAddUp
<1> QED BY <1>1, <1>4, <1>5, <1>6, <1>7 DEF AddsUp

\* A part of the records, cut by bucket or by department, is made of some of them.
LEMMA PartsAreParts ==
    ASSUME NEW K, IsFiniteSet(K), NEW w, NEW b
    PROVE  /\ Cohort(K, b) \subseteq K /\ IsFiniteSet(Cohort(K, b))
           /\ \A k \in DOMAIN GroupBy(Cohort(K, w), "department") :
                /\ GroupBy(Cohort(K, w), "department")[k] \subseteq K
                /\ IsFiniteSet(GroupBy(Cohort(K, w), "department")[k])
<1>1. Cohort(K, b) \subseteq K BY DEF Cohort
<1>2. ASSUME NEW k \in DOMAIN GroupBy(Cohort(K, w), "department")
      PROVE  GroupBy(Cohort(K, w), "department")[k] \subseteq K
  BY DEF GroupBy, Cohort
<1> QED BY <1>1, <1>2, FS_Subset

\* So is each count of a resolved-gap-rate report.
LEMMA GapsAddUp ==
    ASSUME NEW K, IsFiniteSet(K), \A r \in K : r.detectedAt \in Int /\ r.department # Null,
           NEW w, w.from \in Int, w.to \in Int, w.from <= w.to, NEW step \in Nat, NEW within,
           NEW key \in DOMAIN GapAdds(K, w.to, within)
    PROVE  AddsUp(ComputeResolvedGapRate(K, w, step, "department", within), key,
                  SumFunctionOnSet(GapAdds(K, w.to, within)[key], Cohort(K, w)))
<1>1. PICK report : report = ComputeResolvedGapRate(K, w, step, "department", within) OBVIOUS
<1>2. PICK v : v = GapAdds(K, w.to, within)[key] OBVIOUS
<1>3. Integral(v, K) BY <1>2, GapAddsWhole DEF Integral
<1>4. /\ report.overall = ResolvedGapRatePoint(Cohort(K, w), w.to, within)
      /\ DOMAIN report.series = DOMAIN BucketsFor(w, step)
      /\ \A i \in DOMAIN report.series : report.series[i] =
           ResolvedGapRatePoint(Cohort(K, BucketsFor(w, step)[i]), w.to, within)
      /\ DOMAIN report.breakdowns = DOMAIN GroupBy(Cohort(K, w), "department")
      /\ \A k \in DOMAIN report.breakdowns : report.breakdowns[k] =
           ResolvedGapRatePoint(GroupBy(Cohort(K, w), "department")[k], w.to, within)
  BY <1>1 DEF ComputeResolvedGapRate, Report
<1>5. ASSUME NEW S, S \subseteq K, IsFiniteSet(S)
      PROVE  ResolvedGapRatePoint(S, w.to, within)[key] = SumFunctionOnSet(v, S)
  <2>1. S \in SUBSET K BY <1>5
  <2> QED BY <1>2, <1>5, <2>1, GapPoint
<1>6. report.overall[key] = SumFunctionOnSet(v, Cohort(K, w))
  BY <1>4, <1>5, PartsAreParts
<1>7. ASSUME NEW i \in DOMAIN report.series
      PROVE  report.series[i][key] = SumFunctionOnSet(v, Cohort(K, BucketsFor(w, step)[i]))
  BY <1>4, <1>5, PartsAreParts
<1>8. ASSUME NEW k \in DOMAIN report.breakdowns
      PROVE  report.breakdowns[k][key] =
               SumFunctionOnSet(v, GroupBy(Cohort(K, w), "department")[k])
  BY <1>4, <1>5, PartsAreParts
<1>9. AddsUp(report, key, SumFunctionOnSet(v, Cohort(K, w)))
  BY <1>3, <1>4, <1>6, <1>7, <1>8, CutsAddUp
<1> QED BY <1>1, <1>2, <1>9

\* So is each count of a task-work-rate report, which splits no hours.
LEMMA WorksAddUp ==
    ASSUME NEW K, IsFiniteSet(K), \A r \in K : r.detectedAt \in Int /\ r.department # Null,
           \A r \in K : r.reopenCount \in Nat,
           NEW w, w.from \in Int, w.to \in Int, w.from <= w.to, NEW step \in Nat, NEW hours,
           NEW key \in DOMAIN WorkAdds(K)
    PROVE  AddsUp(ComputeTaskWorkRate(K, w, step, "department", hours), key,
                  SumFunctionOnSet(WorkAdds(K)[key], Cohort(K, w)))
<1>1. PICK report : report = ComputeTaskWorkRate(K, w, step, "department", hours) OBVIOUS
<1>2. PICK v : v = WorkAdds(K)[key] OBVIOUS
<1>3. Integral(v, K) BY <1>2, WorkAddsWhole DEF Integral
<1>4. /\ report.overall = TaskWorkRatePoint(Cohort(K, w), hours[w])
      /\ DOMAIN report.series = DOMAIN BucketsFor(w, step)
      /\ \A i \in DOMAIN report.series : report.series[i] =
           TaskWorkRatePoint(Cohort(K, BucketsFor(w, step)[i]), hours[BucketsFor(w, step)[i]])
      /\ DOMAIN report.breakdowns = DOMAIN GroupBy(Cohort(K, w), "department")
      /\ \A k \in DOMAIN report.breakdowns : report.breakdowns[k] =
           TaskWorkRatePoint(GroupBy(Cohort(K, w), "department")[k], Null)
  BY <1>1 DEF ComputeTaskWorkRate, Report
<1>5. ASSUME NEW S, S \subseteq K, IsFiniteSet(S), NEW hour
      PROVE  TaskWorkRatePoint(S, hour)[key] = SumFunctionOnSet(v, S)
  <2>1. S \in SUBSET K /\ \A r \in S : r.reopenCount \in Int BY <1>5
  <2> QED BY <1>2, <1>5, <2>1, WorkPoint
<1>6. report.overall[key] = SumFunctionOnSet(v, Cohort(K, w))
  BY <1>4, <1>5, PartsAreParts
<1>7. ASSUME NEW i \in DOMAIN report.series
      PROVE  report.series[i][key] = SumFunctionOnSet(v, Cohort(K, BucketsFor(w, step)[i]))
  BY <1>4, <1>5, PartsAreParts
<1>8. ASSUME NEW k \in DOMAIN report.breakdowns
      PROVE  report.breakdowns[k][key] =
               SumFunctionOnSet(v, GroupBy(Cohort(K, w), "department")[k])
  BY <1>4, <1>5, PartsAreParts
<1>9. AddsUp(report, key, SumFunctionOnSet(v, Cohort(K, w)))
  BY <1>3, <1>4, <1>6, <1>7, <1>8, CutsAddUp
<1> QED BY <1>1, <1>2, <1>9

----------------------------------------------------------------------------
(* Within a point no gap is told twice.                                    *)
LEMMA ThreeWithin ==
    ASSUME NEW S, IsFiniteSet(S), NEW a, Integral(a, S), NEW b, Integral(b, S),
           NEW c, Integral(c, S), NEW v, Integral(v, S), \A r \in S : a[r] + b[r] + c[r] <= v[r]
    PROVE  SumFunctionOnSet(a, S) + SumFunctionOnSet(b, S) + SumFunctionOnSet(c, S)
             <= SumFunctionOnSet(v, S)
<1>1. PICK ab : ab = [r \in S |-> a[r] + b[r]] OBVIOUS
<1>2. PICK abc : abc = [r \in S |-> ab[r] + c[r]] OBVIOUS
<1>3. \A r \in S : ab[r] = a[r] + b[r] /\ abc[r] = ab[r] + c[r] BY <1>1, <1>2
<1>4. Integral(ab, S) BY <1>3 DEF Integral
<1>5. Integral(abc, S) BY <1>3, <1>4 DEF Integral
<1>6. \A r \in S : abc[r] <= v[r] BY <1>3
<1>7. SumFunctionOnSet(ab, S) = SumFunctionOnSet(a, S) + SumFunctionOnSet(b, S)
  BY <1>3, SumOfSums
<1>8. SumFunctionOnSet(abc, S) = SumFunctionOnSet(ab, S) + SumFunctionOnSet(c, S)
  BY <1>3, <1>4, SumOfSums
<1>9. SumFunctionOnSet(abc, S) <= SumFunctionOnSet(v, S) BY <1>5, <1>6, SumAtLeast
<1> QED BY <1>7, <1>8, <1>9

\* What four parts make everywhere they make in all.
LEMMA FourMake ==
    ASSUME NEW S, IsFiniteSet(S), NEW a, Integral(a, S), NEW b, Integral(b, S),
           NEW c, Integral(c, S), NEW d, Integral(d, S),
           NEW v, \A r \in S : v[r] = a[r] + b[r] + c[r] + d[r]
    PROVE  SumFunctionOnSet(v, S) = SumFunctionOnSet(a, S) + SumFunctionOnSet(b, S)
                                      + SumFunctionOnSet(c, S) + SumFunctionOnSet(d, S)
<1>1. PICK ab : ab = [r \in S |-> a[r] + b[r]] OBVIOUS
<1>2. PICK abc : abc = [r \in S |-> ab[r] + c[r]] OBVIOUS
<1>3. \A r \in S : /\ ab[r] = a[r] + b[r] /\ abc[r] = ab[r] + c[r]
                   /\ v[r] = abc[r] + d[r]
  BY <1>1, <1>2
<1>4. Integral(ab, S) BY <1>3 DEF Integral
<1>5. Integral(abc, S) BY <1>3, <1>4 DEF Integral
<1>7. SumFunctionOnSet(ab, S) = SumFunctionOnSet(a, S) + SumFunctionOnSet(b, S)
  BY <1>3, SumOfSums
<1>8. SumFunctionOnSet(abc, S) = SumFunctionOnSet(ab, S) + SumFunctionOnSet(c, S)
  BY <1>3, <1>4, SumOfSums
<1>9. SumFunctionOnSet(v, S) = SumFunctionOnSet(abc, S) + SumFunctionOnSet(d, S)
  BY <1>3, <1>5, SumOfSums
<1> QED BY <1>7, <1>8, <1>9

\* A verified gap awaits nothing and is not unresolved.
LEMMA GapsApart ==
    ASSUME NEW S, IsFiniteSet(S), \A r \in S : Sound(r), NEW cutoff, NEW within,
           NEW p, p = ResolvedGapRatePoint(S, cutoff, within)
    PROVE  /\ p.verifiedGaps + p.awaitingVerification + p.unresolvedGaps <= p.detectedGaps
           /\ p.resolvedGapRate.num <= p.resolvedGapRate.den
<1>1. PICK adds : adds = GapAdds(S, cutoff, within) OBVIOUS
<1>2. \A key \in DOMAIN adds : Integral(adds[key], S)
  BY <1>1, GapAddsWhole DEF Integral
<1>3. /\ "verifiedGaps" \in DOMAIN adds /\ "awaitingVerification" \in DOMAIN adds
      /\ "unresolvedGaps" \in DOMAIN adds /\ "detectedGaps" \in DOMAIN adds
  BY <1>1 DEF GapAdds
<1>4. ASSUME NEW key \in DOMAIN adds PROVE p[key] = SumFunctionOnSet(adds[key], S)
  BY <1>1, GapPoint
<1>5. PICK a, b, c, v : /\ a = adds["verifiedGaps"] /\ b = adds["awaitingVerification"]
                        /\ c = adds["unresolvedGaps"] /\ v = adds["detectedGaps"]
  OBVIOUS
<1>6. ASSUME NEW r \in S PROVE a[r] + b[r] + c[r] <= v[r]
  <2>1. /\ a[r] = One(r.verifiedAt # Null)
        /\ b[r] = One(AwaitsVerification(r, cutoff, within))
        /\ c[r] = One(/\ r.verifiedAt = Null /\ r.backInStockAt = Null
                      /\ ~AwaitsVerification(r, cutoff, within))
        /\ v[r] = One(TRUE)
    BY <1>1, <1>5 DEF GapAdds
  <2>2. AwaitsVerification(r, cutoff, within) => r.verifiedAt = Null
    BY DEF AwaitsVerification
  <2>3. v[r] = 1 BY <2>1 DEF One
  <2>4. CASE AwaitsVerification(r, cutoff, within)
    <3>1. a[r] = 0 /\ b[r] = 1 /\ c[r] = 0 BY <2>1, <2>2, <2>4 DEF One
    <3> QED BY <2>3, <3>1
  <2>5. CASE ~AwaitsVerification(r, cutoff, within)
    <3>1. b[r] = 0 BY <2>1, <2>5 DEF One
    <3>2. \/ a[r] = 0 /\ c[r] \in {0, 1}
          \/ a[r] = 1 /\ c[r] = 0
      BY <2>1 DEF One
    <3> QED BY <2>3, <3>1, <3>2
  <2> QED BY <2>4, <2>5
<1>7. Integral(a, S) /\ Integral(b, S) /\ Integral(c, S) /\ Integral(v, S)
  BY <1>2, <1>3, <1>5
<1>8. SumFunctionOnSet(a, S) + SumFunctionOnSet(b, S) + SumFunctionOnSet(c, S)
        <= SumFunctionOnSet(v, S)
  BY <1>6, <1>7, ThreeWithin
<1>9. /\ p.verifiedGaps = SumFunctionOnSet(a, S)
      /\ p.awaitingVerification = SumFunctionOnSet(b, S)
      /\ p.unresolvedGaps = SumFunctionOnSet(c, S)
      /\ p.detectedGaps = SumFunctionOnSet(v, S)
  BY <1>3, <1>4, <1>5
<1>10. PICK x, y, z, n : /\ x = SumFunctionOnSet(a, S) /\ y = SumFunctionOnSet(b, S)
                         /\ z = SumFunctionOnSet(c, S) /\ n = SumFunctionOnSet(v, S)
  OBVIOUS
<1>11. x \in Int /\ y \in Int /\ z \in Int /\ n \in Int BY <1>7, <1>10, SumType
<1>12. p.resolvedGapRate = Fraction(p.verifiedGaps, p.detectedGaps - p.awaitingVerification)
  BY DEF ResolvedGapRatePoint
<1>13. z >= 0
  <2>1. PICK T : T = {r \in S : /\ r.verifiedAt = Null /\ r.backInStockAt = Null
                                /\ ~AwaitsVerification(r, cutoff, within)} OBVIOUS
  <2>2. p.unresolvedGaps = Cardinality(T) BY <2>1 DEF ResolvedGapRatePoint, Count
  <2>3. Cardinality(T) \in Nat
    <3>1. T \subseteq S BY <2>1
    <3> QED BY <3>1, FS_Subset, FS_CardinalityType
  <2> QED BY <1>9, <1>10, <2>2, <2>3
<1>14. x + y + z <= n BY <1>8, <1>10
<1>15. x <= n - y BY ONLY <1>11, <1>13, <1>14
<1> QED BY <1>9, <1>10, <1>12, <1>14, <1>15 DEF Fraction

\* A task in a stage has been in the one before, and has ended or is outstanding.
LEMMA WorkInStages ==
    ASSUME NEW S, IsFiniteSet(S), \A r \in S : Sound(r), NEW hours,
           NEW p, p = TaskWorkRatePoint(S, hours)
    PROVE  /\ p.verified <= p.resolved /\ p.resolved <= p.acknowledged
           /\ p.acknowledged <= p.assigned /\ p.assigned <= p.created
           /\ p.created = p.verified + p.cancelled + p.expired + p.outstanding
<1>1. PICK adds : adds = WorkAdds(S) OBVIOUS
<1>2. \A r \in S : r.reopenCount \in Nat BY DEF Sound
<1>3. \A key \in DOMAIN adds : Integral(adds[key], S)
  BY <1>1, <1>2, WorkAddsWhole DEF Integral
<1>4. DOMAIN adds = {"created", "assigned", "acknowledged", "resolved", "verified",
                     "reopened", "cancelled", "expired", "outstanding"}
  BY <1>1 DEF WorkAdds
<1>5. ASSUME NEW key \in DOMAIN adds PROVE p[key] = SumFunctionOnSet(adds[key], S)
  <2>1. \A r \in S : r.reopenCount \in Int BY <1>2
  <2> QED BY <1>1, <2>1, WorkPoint
<1>6. ASSUME NEW r \in S
      PROVE  /\ adds["created"][r] = One(r.taskCreatedAt # Null)
             /\ adds["assigned"][r] = One(r.assignedAt # Null)
             /\ adds["acknowledged"][r] = One(r.acknowledgedAt # Null)
             /\ adds["resolved"][r] = One(r.resolvedAt # Null)
             /\ adds["verified"][r] = One(r.verifiedAt # Null)
             /\ adds["cancelled"][r] = One(r.terminal = "cancelled")
             /\ adds["expired"][r] = One(r.terminal = "expired")
             /\ adds["outstanding"][r] = One(r.taskId # Null /\ r.terminal = "none")
  BY <1>1 DEF WorkAdds
<1>7. ASSUME NEW k \in DOMAIN adds, NEW l \in DOMAIN adds,
             \A r \in S : adds[k][r] <= adds[l][r]
      PROVE  p[k] <= p[l]
  BY <1>3, <1>5, <1>7, SumAtLeast
<1>8. p.verified <= p.resolved
  <2>1. \A r \in S : adds["verified"][r] <= adds["resolved"][r] BY <1>6 DEF One, Sound
  <2> QED BY <1>4, <1>7, <2>1
<1>9. p.resolved <= p.acknowledged
  <2>1. \A r \in S : adds["resolved"][r] <= adds["acknowledged"][r] BY <1>6 DEF One, Sound
  <2> QED BY <1>4, <1>7, <2>1
<1>10. p.acknowledged <= p.assigned
  <2>1. \A r \in S : adds["acknowledged"][r] <= adds["assigned"][r] BY <1>6 DEF One, Sound
  <2> QED BY <1>4, <1>7, <2>1
<1>11. p.assigned <= p.created
  <2>1. \A r \in S : adds["assigned"][r] <= adds["created"][r] BY <1>6 DEF One, Sound
  <2> QED BY <1>4, <1>7, <2>1
<1>12. p.created = p.verified + p.cancelled + p.expired + p.outstanding
  <2>1. PICK a, b, c, d, v : /\ a = adds["verified"] /\ b = adds["cancelled"]
                             /\ c = adds["expired"] /\ d = adds["outstanding"]
                             /\ v = adds["created"]
    OBVIOUS
  <2>2. ASSUME NEW r \in S PROVE v[r] = a[r] + b[r] + c[r] + d[r]
    <3>1. Sound(r) OBVIOUS
    <3>2. CASE r.taskId = Null
      <4>1. r.taskCreatedAt = Null /\ r.terminal = "none" /\ r.verifiedAt = Null
        BY <3>1, <3>2 DEF Sound
      <4>2. a[r] = 0 /\ b[r] = 0 /\ c[r] = 0 /\ d[r] = 0 /\ v[r] = 0
        BY <1>6, <2>1, <3>2, <4>1 DEF One
      <4> QED BY <4>2
    <3>3. CASE r.taskId # Null
      <4>1. v[r] = 1 BY <1>6, <2>1, <3>1, <3>3 DEF One, Sound
      <4>2. \/ r.terminal = "none" /\ a[r] = 0 /\ b[r] = 0 /\ c[r] = 0 /\ d[r] = 1
            \/ r.terminal = "verified" /\ a[r] = 1 /\ b[r] = 0 /\ c[r] = 0 /\ d[r] = 0
            \/ r.terminal = "cancelled" /\ a[r] = 0 /\ b[r] = 1 /\ c[r] = 0 /\ d[r] = 0
            \/ r.terminal = "expired" /\ a[r] = 0 /\ b[r] = 0 /\ c[r] = 1 /\ d[r] = 0
        BY <1>6, <2>1, <3>1, <3>3 DEF One, Sound
      <4> QED BY <4>1, <4>2
    <3> QED BY <3>2, <3>3
  <2>3. Integral(a, S) /\ Integral(b, S) /\ Integral(c, S) /\ Integral(d, S)
    BY <1>3, <1>4, <2>1
  <2>4. SumFunctionOnSet(v, S) = SumFunctionOnSet(a, S) + SumFunctionOnSet(b, S)
                                   + SumFunctionOnSet(c, S) + SumFunctionOnSet(d, S)
    BY <2>2, <2>3, FourMake
  <2> QED BY <1>4, <1>5, <2>1, <2>4
<1> QED BY <1>8, <1>9, <1>10, <1>11, <1>12

----------------------------------------------------------------------------
(* The nearest rank, and the figures of a distribution.                    *)
RankAt(n, fraction) == Min({Max({(fraction * n + 99) \div 100, 1}), n})

\* A rank is a position, and has the fraction at or below it.
LEMMA RankIn ==
    ASSUME NEW n \in Nat \ {0}, NEW f \in 0..99
    PROVE  /\ RankAt(n, f) \in 1..n
           /\ RankAt(n, f) = n \/ 100 * RankAt(n, f) >= f * n
           /\ RankAt(n, f) = 1 \/ 100 * RankAt(n, f) <= f * n + 99
<1>1. PICK m : m = f * n + 99 OBVIOUS
<1>2. m \in Nat /\ f * n \in Nat /\ f * n = m - 99 BY <1>1
<1>3. PICK z : z = m \div 100 OBVIOUS
<1>4. z \in Nat /\ z * 100 <= m /\ m < z * 100 + 100 BY <1>2, <1>3, Quotient
<1>5. PICK l : l = Max({z, 1}) OBVIOUS
<1>6. l = IF z >= 1 THEN z ELSE 1 BY <1>4, <1>5, LargerOf
<1>7. Min({l, n}) = IF l <= n THEN l ELSE n BY <1>4, <1>6, SmallerOf
<1>8. RankAt(n, f) = Min({l, n}) BY <1>1, <1>3, <1>5 DEF RankAt
<1>9. PICK k : k = RankAt(n, f) OBVIOUS
<1>10. k = IF l <= n THEN l ELSE n BY <1>7, <1>8, <1>9
<1>11. PICK p : p = f * n OBVIOUS
<1>12. p \in Nat /\ m = p + 99 BY <1>2, <1>11
<1>13. k \in 1..n /\ (k = n \/ 100 * k >= p) /\ (k = 1 \/ 100 * k <= p + 99)
  BY ONLY n \in Nat \ {0}, <1>4, <1>6, <1>10, <1>12
<1> QED BY <1>9, <1>11, <1>13

\* A greater fraction has no lesser rank, and half of the samples are up to the median.
LEMMA RanksRise ==
    ASSUME NEW n \in Nat \ {0}
    PROVE  /\ RankAt(n, 50) <= RankAt(n, 90) /\ RankAt(n, 90) <= RankAt(n, 99)
           /\ 2 * RankAt(n, 50) >= n
<1>1. ASSUME NEW f \in 0..99, NEW e \in 0..99, f <= e PROVE RankAt(n, f) <= RankAt(n, e)
  <2>1. PICK x, y, p, q : x = RankAt(n, f) /\ y = RankAt(n, e) /\ p = f * n /\ q = e * n
    OBVIOUS
  <2>2. /\ x \in 1..n /\ (x = 1 \/ 100 * x <= p + 99)
        /\ y \in 1..n /\ (y = n \/ 100 * y >= q)
    BY <2>1, RankIn
  <2>3. p \in Nat /\ q \in Nat /\ p <= q
    <3>1. PICK h : h = e - f OBVIOUS
    <3>2. h \in Nat /\ e = f + h BY <1>1, <3>1
    <3>3. e * n = f * n + h * n /\ h * n \in Nat /\ f * n \in Nat BY <3>2
    <3> QED BY <2>1, <3>3
  <2>4. x <= y BY ONLY n \in Nat \ {0}, <2>2, <2>3
  <2> QED BY <2>1, <2>4
<1>2. 2 * RankAt(n, 50) >= n
  <2>1. PICK x : x = RankAt(n, 50) OBVIOUS
  <2>0. 50 \in 0..99 OBVIOUS
  <2>2. x \in 1..n /\ (x = n \/ 100 * x >= 50 * n) BY <2>0, <2>1, RankIn
  <2>3. 2 * x >= n BY ONLY n \in Nat \ {0}, <2>2
  <2> QED BY <2>1, <2>3
<1> QED BY <1>1, <1>2

\* The figures of a distribution are samples, in their order: half of the samples are
\* up to the median, and all of them up to the greatest.
Spreads(d, samples) ==
    /\ {d.p50, d.p90, d.p99, d.max} \subseteq ToSet(samples)
    /\ 2 * Cardinality({i \in DOMAIN samples : samples[i] <= d.p50}) >= Len(samples)
    /\ Cardinality({i \in DOMAIN samples : samples[i] <= d.max}) = Len(samples)
    /\ Ordered(<<d.p50, d.p90, d.p99, d.max>>)

\* A distribution of samples is spread over them.
LEMMA Spread ==
    ASSUME NEW n \in Nat \ {0}, NEW samples \in [1..n -> Nat],
           NEW d, d = DistributionOf(samples)
    PROVE  Spreads(d, samples)
<1>1. samples \in Seq(Nat) /\ Len(samples) = n /\ DOMAIN samples = 1..n /\ samples # <<>>
  OBVIOUS
<1>2. PICK before : before = {p \in Pairs(samples) : samples[p[1]] < samples[p[2]]} OBVIOUS
<1>3. \A x, y \in 1..n : <<x, y>> \in before <=> samples[x] < samples[y]
  BY <1>1, <1>2 DEF Pairs
<1>4. Ranks(1..n, before)
  <2>1. \A x \in 1..n : samples[x] \in Nat OBVIOUS
  <2>2. \A x, y \in 1..n : <<x, y>> \in before => <<y, x>> \notin before BY <1>3, <2>1
  <2>3. \A x, y, z \in 1..n :
          <<x, z>> \in before => <<x, y>> \in before \/ <<y, z>> \in before
    BY <1>3, <2>1
  <2> QED BY <2>2, <2>3 DEF Ranks
<1>5. PICK line : PutsInOrder(line, n, samples, before) BY <1>1, <1>4, SortedByTurns
<1>6. PICK sorted : sorted = Arranged(samples, before) OBVIOUS
<1>7. /\ line \in Bijection(1..n, 1..n)
      /\ sorted = [k \in 1..n |-> samples[line[k]]]
      /\ \A k, l \in 1..n : k < l => <<line[k], line[l]>> \in Turns(n, before)
  BY <1>5, <1>6 DEF PutsInOrder
<1>8. \A k \in 1..n : line[k] \in 1..n /\ sorted[k] = samples[line[k]] /\ sorted[k] \in Nat
  BY <1>7 DEF Bijection, Injection
<1>9. ASSUME NEW k \in 1..n, NEW l \in 1..n, k <= l PROVE sorted[k] <= sorted[l]
  <2>1. CASE k = l BY <1>8, <2>1
  <2>2. CASE k < l
    <3>1. <<line[k], line[l]>> \in Turns(n, before) BY <1>7, <2>2
    <3>2. <<line[l], line[k]>> \notin before
      <4>1. \/ <<line[k], line[l]>> \in before
            \/ <<line[l], line[k]>> \notin before
        BY <3>1 DEF Turns
      <4> QED BY <4>1, <1>4, <1>8 DEF Ranks
    <3>3. ~(samples[line[l]] < samples[line[k]]) BY <1>3, <1>8, <3>2
    <3> QED BY <1>8, <3>3
  <2> QED BY <1>9, <2>1, <2>2
<1>10. \A i \in 1..n : \E k \in 1..n : line[k] = i BY <1>7 DEF Bijection, Surjection
<1>11. PICK a, b, c : a = RankAt(n, 50) /\ b = RankAt(n, 90) /\ c = RankAt(n, 99) OBVIOUS
<1>12. /\ a \in 1..n /\ b \in 1..n /\ c \in 1..n
       /\ a <= b /\ b <= c /\ c <= n /\ n \in 1..n /\ 2 * a >= n
  <2>1. 50 \in 0..99 /\ 90 \in 0..99 /\ 99 \in 0..99 OBVIOUS
  <2>2. a \in 1..n BY <1>11, <2>1, RankIn
  <2>3. b \in 1..n BY <1>11, <2>1, RankIn
  <2>4. c \in 1..n BY <1>11, <2>1, RankIn
  <2>5. a <= b /\ b <= c /\ 2 * a >= n BY <1>11, RanksRise
  <2> QED BY <2>2, <2>3, <2>4, <2>5
<1>13. Len(sorted) = n BY <1>7
<1>14. /\ d.p50 = sorted[a] /\ d.p90 = sorted[b] /\ d.p99 = sorted[c] /\ d.max = sorted[n]
  <2>1. \A f : Percentile(sorted, f) = sorted[RankAt(n, f)] BY <1>13 DEF Percentile, RankAt
  <2>2. Last(sorted) = sorted[n] BY <1>13 DEF Last
  <2>3. d = [sampleSize |-> Len(samples), p50 |-> Percentile(sorted, 50),
             p90 |-> Percentile(sorted, 90), p99 |-> Percentile(sorted, 99),
             mean |-> Fraction(SumFunction(sorted), Len(sorted)), max |-> Last(sorted)]
    BY <1>1, <1>2, <1>6 DEF DistributionOf
  <2> QED BY <1>11, <2>1, <2>2, <2>3
<1>15. {d.p50, d.p90, d.p99, d.max} \subseteq ToSet(samples)
  <2>1. \A k \in 1..n : sorted[k] \in ToSet(samples) BY <1>1, <1>8 DEF ToSet
  <2> QED BY <1>12, <1>14, <2>1
<1>16. ASSUME NEW k \in 1..n
       PROVE  Cardinality({i \in DOMAIN samples : samples[i] <= sorted[k]}) \in k..n
  <2>1. PICK T : T = {i \in 1..n : samples[i] <= sorted[k]} OBVIOUS
  <2>2. PICK up : up = {line[l] : l \in 1..k} OBVIOUS
  <2>3. up \subseteq T
    <3>1. ASSUME NEW l \in 1..k PROVE line[l] \in T
      <4>1. l \in 1..n /\ l <= k OBVIOUS
      <4>2. sorted[l] <= sorted[k] BY <1>9, <4>1
      <4> QED BY <1>8, <2>1, <4>1, <4>2
    <3> QED BY <2>2, <3>1
  <2>4. IsFiniteSet(1..k) /\ Cardinality(1..k) = k
    <3>1. k \in Nat OBVIOUS
    <3> QED BY <3>1, UpTo
  <2>5. Cardinality(up) = k
    <3>1. PICK f : f = [l \in 1..k |-> line[l]] OBVIOUS
    <3>2. 1..k \subseteq 1..n OBVIOUS
    <3>3. \A x, y \in 1..n : line[x] = line[y] => x = y
      BY <1>7 DEF Bijection, Injection, IsInjective
    <3>4. f \in [1..k -> up] /\ \A y \in up : \E l \in 1..k : f[l] = y BY <2>2, <3>1
    <3>5. \A x, y \in 1..k : f[x] = f[y] => x = y BY <3>1, <3>2, <3>3
    <3>6. f \in Bijection(1..k, up)
      BY <3>4, <3>5 DEF Bijection, Injection, Surjection, IsInjective
    <3>7. ExistsBijection(1..k, up) BY <3>6 DEF ExistsBijection
    <3> QED BY <2>4, <3>7, FS_Bijection
  <2>12. PICK D : D = 1..n OBVIOUS
  <2>6. IsFiniteSet(D) /\ Cardinality(D) = n BY <2>12, UpTo
  <2>7. T \subseteq D BY <2>1, <2>12
  <2>8. IsFiniteSet(T) /\ Cardinality(T) <= n BY <2>6, <2>7, FS_Subset
  <2>9. Cardinality(up) <= Cardinality(T) BY <2>3, <2>8, FS_Subset
  <2>10. Cardinality(T) \in Nat BY <2>8, FS_CardinalityType
  <2>11. Cardinality(T) \in k..n BY <2>5, <2>8, <2>9, <2>10
  <2> QED BY <1>1, <2>1, <2>11
<1>17. 2 * Cardinality({i \in DOMAIN samples : samples[i] <= d.p50}) >= Len(samples)
  <2>1. PICK m : m = Cardinality({i \in DOMAIN samples : samples[i] <= d.p50}) OBVIOUS
  <2>2. m \in a..n BY <1>12, <1>14, <1>16, <2>1
  <2>3. 2 * m >= n BY ONLY <1>12, <2>2, n \in Nat \ {0}
  <2> QED BY <1>1, <2>1, <2>3
<1>18. Cardinality({i \in DOMAIN samples : samples[i] <= d.max}) = Len(samples)
  <2>1. PICK m : m = Cardinality({i \in DOMAIN samples : samples[i] <= d.max}) OBVIOUS
  <2>2. m \in n..n BY <1>12, <1>14, <1>16, <2>1
  <2> QED BY <1>1, <2>1, <2>2
<1>19. Ordered(<<d.p50, d.p90, d.p99, d.max>>)
  <2>1. PICK w, x, y, z : w = d.p50 /\ x = d.p90 /\ y = d.p99 /\ z = d.max OBVIOUS
  <2>2. w \in Nat /\ x \in Nat /\ y \in Nat /\ z \in Nat BY <1>8, <1>12, <1>14, <2>1
  <2>3. w <= x /\ x <= y /\ y <= z BY <1>9, <1>12, <1>14, <2>1
  <2>4. w <= y /\ w <= z /\ x <= z BY <2>2, <2>3
  <2>5. Ordered(<<w, x, y, z>>) BY <2>2, <2>3, <2>4 DEF Ordered
  <2> QED BY <2>1, <2>5
<1> QED BY <1>15, <1>17, <1>18, <1>19 DEF Spreads

\* The samples of a stage: the records that went through it, each with its time.
Instants == {"detectedAt", "taskCreatedAt", "assignedAt", "acknowledgedAt",
             "lastAcknowledgedAt", "resolvedAt", "verifiedAt", "backInStockAt"}

\* Samples are natural numbers.
LEMMA SamplesAreTimes ==
    ASSUME NEW S, IsFiniteSet(S), \A r \in S : \A x \in Instants : r[x] \in Int,
           NEW stage, stage[1] \in Instants, stage[2] \in Instants
    PROVE  \E n \in Nat : SamplesOf(S, stage) \in [1..n -> Nat]
<1>1. PICK R : R = {r \in S : Reached(r, stage)} OBVIOUS
<1>2. IsFiniteSet(R) BY <1>1, FS_Subset
<1>3. PICK n : n = Cardinality(R) OBVIOUS
<1>4. n \in Nat BY <1>2, <1>3, FS_CardinalityType
<1>5. PICK reached : reached = SetToSeq(R) OBVIOUS
<1>6. reached \in [1..n -> R]
  <2>1. \E f \in [1..n -> R] : IsInjective(f)
    <3>1. ExistsBijection(1..n, R) BY <1>2, <1>3, <1>4, FS_NatBijection, FS_CountingElements
    <3> QED BY <3>1 DEF ExistsBijection, Bijection, Injection, IsInjective
  <2> QED BY <1>3, <1>5, <2>1 DEF SetToSeq
<1>7. SamplesOf(S, stage) = [i \in 1..n |-> Elapsed(reached[i], stage)]
  BY <1>1, <1>5, <1>6 DEF SamplesOf
<1>8. ASSUME NEW r \in S PROVE Elapsed(r, stage) \in Nat
  <2>1. PICK a, b : a = r[stage[1]] /\ b = r[stage[2]] OBVIOUS
  <2>2. a \in Int /\ b \in Int BY <2>1
  <2>3. PICK e : e = b - a OBVIOUS
  <2>4. e \in Int BY <2>2, <2>3
  <2>5. Max({0, e}) = IF 0 >= e THEN 0 ELSE e BY <2>4, LargerOf
  <2>6. Elapsed(r, stage) = Max({0, e}) BY <2>1, <2>3 DEF Elapsed
  <2> QED BY <2>4, <2>5, <2>6
<1>9. \A i \in 1..n : Elapsed(reached[i], stage) \in Nat BY <1>1, <1>6, <1>8
<1> HIDE DEF Instants
<1>10. SamplesOf(S, stage) \in [1..n -> Nat] BY <1>7, <1>9
<1> QED BY <1>4, <1>10

----------------------------------------------------------------------------
(* The reports of the records kept.                                        *)
LEMMA StagesOfInstants ==
    ASSUME NEW s \in DOMAIN Stages
    PROVE  Stages[s][1] \in Instants /\ Stages[s][2] \in Instants
BY DEF Stages, Instants

\* So is the distribution of a stage over its samples.
LEMMA TimesAreSamples ==
    ASSUME NEW S, IsFiniteSet(S), \A r \in S : Sound(r), NEW s \in DOMAIN Stages,
           NEW samples, samples = SamplesOf(S, Stages[s]),
           NEW d, d = DistributionOf(samples), d.sampleSize > 0
    PROVE  Spreads(d, samples)
<1>1. ASSUME NEW r \in S, NEW x \in Instants PROVE r[x] \in Int
  BY DEF Instants, Sound
<1>2. PICK n \in Nat : samples \in [1..n -> Nat]
  BY <1>1, StagesOfInstants, SamplesAreTimes
<1>3. n # 0
  <2>1. SUFFICES ASSUME n = 0 PROVE FALSE OBVIOUS
  <2>2. samples = <<>> BY <1>2, <2>1
  <2>3. d.sampleSize = 0 BY <2>2 DEF DistributionOf
  <2> QED BY <2>3
<1>4. n \in Nat \ {0} BY <1>3
<1> QED BY <1>2, <1>4, Spread

\* What a report over a window should be, of any records.
ReportsOf(K, w, step, within, hours) ==
    LET gaps  == ComputeResolvedGapRate(K, w, step, "department", within)
        work  == ComputeTaskWorkRate(K, w, step, "department", hours)
        times == ComputeDetectionToResolution(K, w, step, "department")
        SumOf(points, key) == SumFunction([i \in DOMAIN points |-> points[i][key]])
        SumsUp(report, key) ==
            /\ SumOf(report.series, key) = report.overall[key]
            /\ SumOf(report.breakdowns, key) = report.overall[key]
        g == gaps.overall
        t == work.overall
    IN  /\ \A key \in {"detectedGaps", "taskedGaps", "verifiedGaps", "resolvedGaps",
                       "selfResolvedGaps", "unresolvedGaps", "awaitingVerification"} :
              SumsUp(gaps, key)
        /\ \A key \in {"created", "resolved", "verified", "reopened", "outstanding"} :
              SumsUp(work, key)
        /\ g.verifiedGaps + g.awaitingVerification + g.unresolvedGaps <= g.detectedGaps
        /\ g.resolvedGapRate.num <= g.resolvedGapRate.den
        /\ t.verified <= t.resolved /\ t.resolved <= t.acknowledged
        /\ t.acknowledged <= t.assigned /\ t.assigned <= t.created
        /\ t.created = t.verified + t.cancelled + t.expired + t.outstanding
        /\ \A s \in DOMAIN Stages :
              LET d == times.overall[s]
                  samples == SamplesOf(Cohort(K, w), Stages[s])
                  AtMost(x) == Cardinality({i \in DOMAIN samples : samples[i] <= x})
              IN  d.sampleSize > 0 =>
                    /\ {d.p50, d.p90, d.p99, d.max} \subseteq ToSet(samples)
                    /\ 2 * AtMost(d.p50) >= Len(samples) /\ AtMost(d.max) = Len(samples)
                    /\ Ordered(<<d.p50, d.p90, d.p99, d.max>>)

\* Reports of sound records are as they should be.
LEMMA SoundReports ==
    ASSUME NEW K, IsFiniteSet(K), \A r \in K : Sound(r),
           NEW w, w.from \in Int, w.to \in Int, w.from <= w.to, NEW step \in Nat,
           NEW within, NEW hours
    PROVE  ReportsOf(K, w, step, within, hours)
<1>1. \A r \in K : /\ r.detectedAt \in Int /\ r.department # Null
                   /\ r.reopenCount \in Nat
  BY DEF Sound, Null
<1>2. PICK S : S = Cohort(K, w) OBVIOUS
<1>3. IsFiniteSet(S) /\ \A r \in S : Sound(r) BY <1>2, PartsAreParts
<1> DEFINE gaps  == ComputeResolvedGapRate(K, w, step, "department", within)
           work  == ComputeTaskWorkRate(K, w, step, "department", hours)
           times == ComputeDetectionToResolution(K, w, step, "department")
           g == gaps.overall
           t == work.overall
<1>4. ASSUME NEW key \in {"detectedGaps", "taskedGaps", "verifiedGaps", "resolvedGaps",
                          "selfResolvedGaps", "unresolvedGaps", "awaitingVerification"}
      PROVE  AddsUp(gaps, key, gaps.overall[key])
  <2>1. key \in DOMAIN GapAdds(K, w.to, within) BY DEF GapAdds
  <2>2. AddsUp(gaps, key, SumFunctionOnSet(GapAdds(K, w.to, within)[key], Cohort(K, w)))
    BY <1>1, <2>1, GapsAddUp
  <2> QED BY <2>2 DEF AddsUp
<1>5. ASSUME NEW key \in {"created", "resolved", "verified", "reopened", "outstanding"}
      PROVE  AddsUp(work, key, work.overall[key])
  <2>1. key \in DOMAIN WorkAdds(K) BY DEF WorkAdds
  <2>2. AddsUp(work, key, SumFunctionOnSet(WorkAdds(K)[key], Cohort(K, w)))
    BY <1>1, <2>1, WorksAddUp
  <2> QED BY <2>2 DEF AddsUp
<1>6. g = ResolvedGapRatePoint(S, w.to, within)
  BY <1>2 DEF ComputeResolvedGapRate, Report
<1>7. t = TaskWorkRatePoint(S, hours[w])
  BY <1>2 DEF ComputeTaskWorkRate, Report
<1>8. ASSUME NEW s \in DOMAIN Stages, times.overall[s].sampleSize > 0
      PROVE  Spreads(times.overall[s], SamplesOf(Cohort(K, w), Stages[s]))
  <2>1. times.overall = DetectionToResolutionPoint(S)
    BY <1>2 DEF ComputeDetectionToResolution, Report
  <2>2. PICK d, samples : d = times.overall[s] /\ samples = SamplesOf(S, Stages[s]) OBVIOUS
  <2>3. d = DistributionOf(samples) BY <2>1, <2>2 DEF DetectionToResolutionPoint
  <2>4. d.sampleSize > 0 BY <1>8, <2>2
  <2>5. Spreads(d, samples) BY <1>3, <2>2, <2>3, <2>4, TimesAreSamples
  <2> QED BY <1>2, <2>2, <2>5
<1> HIDE DEF gaps, work, times, g, t
<1>9. /\ g.verifiedGaps + g.awaitingVerification + g.unresolvedGaps <= g.detectedGaps
      /\ g.resolvedGapRate.num <= g.resolvedGapRate.den
  BY <1>3, <1>6, GapsApart
<1>10. /\ t.verified <= t.resolved /\ t.resolved <= t.acknowledged
       /\ t.acknowledged <= t.assigned /\ t.assigned <= t.created
       /\ t.created = t.verified + t.cancelled + t.expired + t.outstanding
  BY <1>3, <1>7, WorkInStages
<1> QED
  BY <1>4, <1>5, <1>8, <1>9, <1>10 DEF ReportsOf, AddsUp, Spreads, gaps, work, times, g, t

\* The records kept are sound, so their reports are as they should be.
LEMMA ReportsTell ==
    ASSUME OutcomesInv, ToldInv
    PROVE  LoopReportsAddUp
<1>1. ASSUME NEW cut \in Cuts, NEW hours
      PROVE  ReportsOf(Kept, cut.window, cut.step, 1, hours)
  <2>1. PICK K, w, step : K = Kept /\ w = cut.window /\ step = cut.step OBVIOUS
  <2>2. /\ w.from \in Int /\ w.to \in Int /\ w.from <= w.to /\ step \in Nat
    BY <2>1, OutcomesAssumption
  <2>3. IsFiniteSet(K) /\ \A r \in K : Sound(r) BY <2>1, KeptIsSound
  <2>4. ReportsOf(K, w, step, 1, hours) BY <2>2, <2>3, SoundReports
  <2> QED BY <2>1, <2>4
<1> QED BY <1>1, ZenonT(60) DEF LoopReportsAddUp, ReportsOf

\* Whatever the gaps, their departments, the windows and the grain: the buckets and the
\* departments of a report come to its whole, no gap is told twice, no stage has more
\* tasks than the one before, and the percentiles are times that were taken
\* (outcome-metrics.ts).
THEOREM ReportsAddUp == OutcomesSpec => []LoopReportsAddUp
<1>1. OutcomesInit => OutcomesInv /\ ToldInv
  BY OutcomesStart DEF OutcomesInit, ToldInv
<1>2. (OutcomesInv /\ ToldInv) /\ [OutcomesNext]_outcomeVars => (OutcomesInv /\ ToldInv)'
  BY OutcomesStep, ToldKeeps
<1>3. OutcomesInv /\ ToldInv => LoopReportsAddUp BY ReportsTell
<1> QED BY <1>1, <1>2, <1>3, PTL DEF OutcomesSpec

----------------------------------------------------------------------------
(***************************************************************************)
(* The artifacts and the listings.                                         *)
(***************************************************************************)
(***************************************************************************)
(* The read side.  Histories only grow.                                    *)
(***************************************************************************)
Timed(hs) ==
    /\ hs \in [Facing -> History]
    /\ \A f \in Facing : \A i, j \in 1..Len(hs[f].events) :
          i <= j => hs[f].events[i].at <= hs[f].events[j].at

\* What was read of the histories is where they began.
Behind(hs, later) ==
    \A f \in Facing :
      /\ hs[f].initialState = later[f].initialState
      /\ Len(hs[f].events) <= Len(later[f].events)
      /\ \A i \in 1..Len(hs[f].events) : hs[f].events[i] = later[f].events[i]

SignalsOf(hs, facings) == {e.signal : e \in UNION {ToSet(hs[f].events) : f \in facings}}

StoreInv ==
    /\ Timed(histories)
    /\ trail \in Seq(Int)
    /\ retainedFrom \in Nat
    /\ forgotten \subseteq SignalsOf(histories, Facing)

\* A step of the store takes nothing back.
StoreGrows ==
    /\ Behind(histories, histories')
    /\ Len(trail) <= Len(trail') /\ \A i \in 1..Len(trail) : trail'[i] = trail[i]
    /\ retainedFrom <= retainedFrom'
    /\ forgotten \subseteq forgotten'

\* A history as it is.
LEMMA TimedFacing ==
    ASSUME NEW hs, Timed(hs), NEW f \in Facing
    PROVE  /\ InTime(hs[f], Len(hs[f].events))
           /\ hs[f].events \in Seq(Event) /\ Len(hs[f].events) \in Nat
           /\ hs[f].initialState \in States /\ DOMAIN hs[f] = {"initialState", "events"}
<1>1. hs[f] \in History BY DEF Timed
<1>2. /\ hs[f].events \in Seq(Event) /\ hs[f].initialState \in States
      /\ DOMAIN hs[f] = {"initialState", "events"}
  BY <1>1 DEF History
<1>3. Len(hs[f].events) \in Nat /\ DOMAIN hs[f].events = 1..Len(hs[f].events) BY <1>2
<1>4. \A i \in 1..Len(hs[f].events) : hs[f].events[i] \in Event BY <1>2
<1>5. \A i \in 1..Len(hs[f].events) : hs[f].events[i].at \in Int /\ hs[f].events[i].to \in States
  BY <1>4 DEF Event
<1> QED BY <1>2, <1>3, <1>5 DEF InTime, Timed

\* What is now lies behind itself.
LEMMA BehindItself ==
    ASSUME NEW hs, Timed(hs)
    PROVE  Behind(hs, hs)
<1>1. \A f \in Facing : Len(hs[f].events) \in Nat BY TimedFacing
<1> QED BY <1>1 DEF Behind

\* What lies behind now lies behind what comes of it.
LEMMA BehindLater ==
    ASSUME NEW a, NEW b, NEW c, Timed(a), Timed(b), Timed(c), Behind(a, b), Behind(b, c)
    PROVE  Behind(a, c)
<1> SUFFICES ASSUME NEW f \in Facing
             PROVE  /\ a[f].initialState = c[f].initialState
                    /\ Len(a[f].events) <= Len(c[f].events)
                    /\ \A i \in 1..Len(a[f].events) : a[f].events[i] = c[f].events[i]
  BY DEF Behind
<1>1. /\ Len(a[f].events) \in Nat /\ Len(b[f].events) \in Nat /\ Len(c[f].events) \in Nat
  BY TimedFacing
<1>2. /\ Len(a[f].events) <= Len(b[f].events) /\ Len(b[f].events) <= Len(c[f].events)
      /\ a[f].initialState = b[f].initialState /\ b[f].initialState = c[f].initialState
      /\ \A i \in 1..Len(a[f].events) : a[f].events[i] = b[f].events[i]
      /\ \A i \in 1..Len(b[f].events) : b[f].events[i] = c[f].events[i]
  BY DEF Behind
<1>3. PICK p, q, o : p = Len(a[f].events) /\ q = Len(b[f].events) /\ o = Len(c[f].events)
  OBVIOUS
<1>4. p \in Nat /\ q \in Nat /\ o \in Nat /\ p <= q /\ q <= o BY <1>1, <1>2, <1>3
<1>5. p <= o BY ONLY <1>4
<1>6. ASSUME NEW i \in 1..p PROVE a[f].events[i] = c[f].events[i]
  <2>1. i \in 1..q BY ONLY <1>4, <1>6
  <2> QED BY <1>2, <1>3, <1>6, <2>1
<1> QED BY <1>2, <1>3, <1>5, <1>6

\* What lies behind what lies behind it is the same.
LEMMA BehindBoth ==
    ASSUME NEW a, NEW b, Timed(a), Timed(b), Behind(a, b), Behind(b, a)
    PROVE  a = b
<1>1. ASSUME NEW f \in Facing PROVE a[f] = b[f]
  <2>1. /\ a[f].events \in Seq(Event) /\ b[f].events \in Seq(Event)
        /\ Len(a[f].events) \in Nat /\ Len(b[f].events) \in Nat
        /\ a[f] \in History /\ b[f] \in History
    BY <1>1, TimedFacing DEF Timed
  <2>2. Len(a[f].events) = Len(b[f].events) BY <1>1, <2>1 DEF Behind
  <2>3. \A i \in 1..Len(a[f].events) : a[f].events[i] = b[f].events[i] BY <1>1 DEF Behind
  <2>4. a[f].events = b[f].events BY <2>1, <2>2, <2>3
  <2>5. a[f].initialState = b[f].initialState BY <1>1 DEF Behind
  <2> QED BY <2>1, <2>4, <2>5 DEF History
<1> QED BY <1>1 DEF Timed

\* An ingested event comes after those there are.
LEMMA IngestKeeps ==
    ASSUME StoreInv, NEW f \in Facing, Ingest(f)
    PROVE  StoreInv' /\ StoreGrows
<1> USE ReportingAssumption
<1>1. PICK es, n : es = histories[f].events /\ n = Len(es) OBVIOUS
<1>2. /\ InTime(histories[f], n) /\ es \in Seq(Event) /\ n \in Nat
      /\ DOMAIN histories = Facing /\ histories[f] \in History
  BY <1>1, TimedFacing DEF StoreInv, Timed
<1>3. PICK at \in LastAt(histories[f])..MaxAt, to \in {"in_stock", "out_of_stock"} :
         histories' = [histories EXCEPT ![f].events =
                Append(@, [at |-> at, to |-> to, signal |-> <<f, Len(@) + 1>>])]
  BY DEF Ingest
<1>4. PICK e : e = [at |-> at, to |-> to, signal |-> <<f, n + 1>>] OBVIOUS
<1>5. PICK next : next = Append(es, e) OBVIOUS
<1>6. LastAt(histories[f]) \in Int /\ \A i \in 1..n : es[i].at <= LastAt(histories[f])
  <2>1. CASE es = <<>> BY <1>1, <2>1 DEF LastAt
  <2>2. CASE es # <<>>
    <3>1. LastAt(histories[f]) = es[n].at BY <1>1, <2>2 DEF LastAt, Last
    <3>2. n \in 1..n BY <1>1, <1>2, <2>2
    <3>3. /\ \A i \in 1..n : es[i].at \in Int
          /\ \A i, j \in 1..n : i <= j => es[i].at <= es[j].at
      BY <1>1, <1>2 DEF InTime
    <3> QED BY <3>1, <3>2, <3>3, <1>2
  <2> QED BY <2>1, <2>2
<1>7. at \in Int /\ LastAt(histories[f]) <= at
  <2>1. PICK last : last = LastAt(histories[f]) OBVIOUS
  <2>2. last \in Int /\ MaxAt \in Int /\ at \in last..MaxAt BY <1>3, <1>6, <2>1
  <2> QED BY <2>1, <2>2
<1>8. e \in Event
  <2>1. n + 1 \in Nat /\ to \in States BY <1>2 DEF States
  <2>2. <<f, n + 1>> \in Facing \X Nat BY <2>1
  <2> QED BY <1>4, <1>7, <2>1, <2>2 DEF Event
<1>9. /\ next \in Seq(Event) /\ Len(next) = n + 1 /\ next[n + 1] = e
      /\ \A i \in 1..n : next[i] = es[i]
  BY <1>1, <1>2, <1>5, <1>8
<1>10. /\ histories' = [histories EXCEPT ![f] = [histories[f] EXCEPT !.events = next]]
  BY <1>1, <1>3, <1>4, <1>5
<1>11. /\ histories'[f].events = next /\ histories'[f].initialState = histories[f].initialState
       /\ histories'[f] \in History
       /\ \A g \in Facing \ {f} : histories'[g] = histories[g]
       /\ DOMAIN histories' = Facing
  <2>1. PICK h : h = [histories[f] EXCEPT !.events = next] OBVIOUS
  <2>2. /\ h \in History /\ h.events = next /\ h.initialState = histories[f].initialState
    BY <1>2, <1>9, <2>1 DEF History
  <2>3. histories' = [histories EXCEPT ![f] = h] BY <1>10, <2>1
  <2> QED BY <1>2, <2>2, <2>3
<1>12. histories' \in [Facing -> History]
  <2>1. \A g \in Facing : histories[g] \in History BY DEF StoreInv, Timed
  <2>2. \A g \in Facing : histories'[g] \in History BY <1>11, <2>1
  <2>3. histories' = [g \in Facing |-> histories'[g]] BY <1>10, <1>11
  <2> QED BY <2>2, <2>3
<1>13. \A i, j \in 1..(n + 1) : i <= j => next[i].at <= next[j].at
  <2>1. \A i \in 1..n : es[i].at \in Int BY <1>1, <1>2 DEF InTime
  <2>2. \A i, j \in 1..n : i <= j => es[i].at <= es[j].at BY <1>1, <1>2 DEF InTime
  <2>3. e.at = at BY <1>4
  <2>4. \A i \in 1..n : es[i].at <= at
    <3> SUFFICES ASSUME NEW i \in 1..n PROVE es[i].at <= at OBVIOUS
    <3>1. PICK a, last : a = es[i].at /\ last = LastAt(histories[f]) OBVIOUS
    <3>2. a \in Int /\ last \in Int /\ a <= last /\ last <= at BY <1>6, <1>7, <2>1, <3>1
    <3> QED BY <1>7, <3>1, <3>2
  <2>5. \A i \in 1..(n + 1) : i \in 1..n \/ i = n + 1 BY <1>2
  <2> QED BY <1>2, <1>7, <1>9, <2>2, <2>3, <2>4, <2>5
<1>14. Timed(histories')
  <2>1. ASSUME NEW g \in Facing, NEW i \in 1..Len(histories'[g].events),
               NEW j \in 1..Len(histories'[g].events), i <= j
        PROVE  histories'[g].events[i].at <= histories'[g].events[j].at
    <3>1. CASE g = f BY <1>9, <1>11, <1>13, <2>1, <3>1
    <3>2. CASE g # f BY <1>11, <2>1, <3>2 DEF StoreInv, Timed
    <3> QED BY <3>1, <3>2
  <2> QED BY <1>12, <2>1 DEF Timed
<1>15. Behind(histories, histories')
  <2> SUFFICES ASSUME NEW g \in Facing
               PROVE  /\ histories[g].initialState = histories'[g].initialState
                      /\ Len(histories[g].events) <= Len(histories'[g].events)
                      /\ \A i \in 1..Len(histories[g].events) :
                            histories[g].events[i] = histories'[g].events[i]
    BY DEF Behind
  <2>1. CASE g = f
    <3>1. histories[g].events = es /\ histories'[g].events = next BY <1>1, <1>11, <2>1
    <3>2. n <= n + 1 BY <1>2
    <3> QED BY <1>1, <1>9, <1>11, <2>1, <3>1, <3>2
  <2>2. CASE g # f
    <3>1. Len(histories[g].events) \in Nat BY TimedFacing DEF StoreInv
    <3> QED BY <1>11, <2>2, <3>1
  <2> QED BY <2>1, <2>2
<1>16. SignalsOf(histories, Facing) \subseteq SignalsOf(histories', Facing)
  <2> SUFFICES ASSUME NEW g \in Facing, NEW x \in ToSet(histories[g].events)
               PROVE  x \in ToSet(histories'[g].events)
    BY DEF SignalsOf
  <2>1. PICK i \in DOMAIN histories[g].events : x = histories[g].events[i] BY DEF ToSet
  <2>2. /\ DOMAIN histories[g].events = 1..Len(histories[g].events)
        /\ Len(histories[g].events) \in Nat
    BY TimedFacing DEF StoreInv, InTime
  <2>3. /\ DOMAIN histories'[g].events = 1..Len(histories'[g].events)
        /\ Len(histories'[g].events) \in Nat
    BY <1>14, TimedFacing DEF InTime
  <2>4. Len(histories[g].events) <= Len(histories'[g].events)
        /\ \A k \in 1..Len(histories[g].events) :
             histories[g].events[k] = histories'[g].events[k]
    BY <1>15 DEF Behind
  <2>5. PICK p, q : p = Len(histories[g].events) /\ q = Len(histories'[g].events) OBVIOUS
  <2>6. p \in Nat /\ q \in Nat /\ p <= q /\ i \in 1..p BY <2>1, <2>2, <2>3, <2>4, <2>5
  <2>7. i \in 1..q BY ONLY <2>6
  <2>8. i \in DOMAIN histories'[g].events BY <2>3, <2>5, <2>7
  <2>9. x = histories'[g].events[i] BY <2>1, <2>4, <2>5, <2>6
  <2> QED BY <2>8, <2>9 DEF ToSet
<1>17. UNCHANGED <<trail, retainedFrom, forgotten>> BY DEF Ingest
<1>18. Len(trail) \in Nat BY DEF StoreInv
<1>19. forgotten' \subseteq SignalsOf(histories', Facing) BY <1>16, <1>17 DEF StoreInv
<1>20. StoreInv' BY <1>14, <1>17, <1>19 DEF StoreInv
<1> QED BY <1>15, <1>17, <1>18, <1>20 DEF StoreInv, StoreGrows

\* Whatever happens to the store, histories stay in time and only grow.
LEMMA StoreKeeps ==
    ASSUME StoreInv, StoreNext
    PROVE  StoreInv' /\ StoreGrows
<1>1. ASSUME AppendAudit PROVE StoreInv' /\ StoreGrows
  <2>1. PICK at \in (IF trail = <<>> THEN 0 ELSE Last(trail))..MaxAt : trail' = Append(trail, at)
    BY <1>1 DEF AppendAudit
  <2>2. UNCHANGED <<histories, retainedFrom, forgotten>> BY <1>1 DEF AppendAudit
  <2>3. trail \in Seq(Int) BY DEF StoreInv
  <2>4. at \in Int
    <3>1. CASE trail = <<>> BY <2>1, <3>1
    <3>2. CASE trail # <<>>
      <4>1. Last(trail) \in Int BY <2>3, <3>2 DEF Last
      <4> QED BY <2>1, <3>2, <4>1
    <3> QED BY <3>1, <3>2
  <2>5. /\ trail' \in Seq(Int) /\ Len(trail) <= Len(trail')
        /\ \A i \in 1..Len(trail) : trail'[i] = trail[i]
    BY <2>1, <2>3, <2>4
  <2>6. StoreInv' BY <2>2, <2>5 DEF StoreInv
  <2>7. Behind(histories, histories') BY <2>2, BehindItself DEF StoreInv
  <2> QED BY <2>2, <2>5, <2>6, <2>7 DEF StoreGrows, StoreInv
<1>2. ASSUME AgesOut PROVE StoreInv' /\ StoreGrows
  <2>1. retainedFrom' = retainedFrom + 1 /\ UNCHANGED <<histories, trail, forgotten>>
    BY <1>2 DEF AgesOut
  <2>2. Behind(histories, histories') BY <2>1, BehindItself DEF StoreInv
  <2>3. Len(trail) \in Nat BY DEF StoreInv
  <2>4. StoreInv' BY <2>1 DEF StoreInv
  <2> QED BY <2>1, <2>2, <2>3, <2>4 DEF StoreGrows, StoreInv
<1>3. ASSUME ForgetProducers PROVE StoreInv' /\ StoreGrows
  <2>1. forgotten' = SignalsOf(histories, Facing) /\ UNCHANGED <<histories, trail, retainedFrom>>
    BY <1>3 DEF ForgetProducers, SignalsOf
  <2>2. Behind(histories, histories') BY <2>1, BehindItself DEF StoreInv
  <2>3. Len(trail) \in Nat BY DEF StoreInv
  <2>4. StoreInv' BY <2>1 DEF StoreInv
  <2> QED BY <2>1, <2>2, <2>3, <2>4 DEF StoreGrows, StoreInv
<1> QED BY <1>1, <1>2, <1>3, IngestKeeps DEF StoreNext

----------------------------------------------------------------------------
(* Sealing.  A manifest was made from what was read of the facings, in some *)
(* order, over what was retained of the period by then.                     *)
ScopeOK(scope) ==
    /\ scope.facings \subseteq Facing /\ IsFiniteSet(scope.facings)
    /\ scope.period.from \in Nat /\ scope.period.to \in Nat
    /\ scope.period.from <= scope.period.to

CutFrom(p, period) ==
    /\ p.from \in Nat /\ p.to = period.to
    /\ period.from <= p.from /\ p.from <= p.to

ReadFrom(scope, order, hs, period, now) ==
    /\ order \in ReadOrders(scope.facings)
    /\ Timed(hs) /\ Behind(hs, now)
    /\ CutFrom(period, scope.period)

MadeFrom(m, id, order, hs, period, lost, now, gone) ==
    /\ ScopeOK(m.scope) /\ ReadFrom(m.scope, order, hs, period, now) /\ lost \subseteq gone
    /\ id = RenderArtifactBody(AuditRecords(order, hs, period, lost), m.format)
    /\ m.contentHash = id
    /\ m.figures = Figures(AuditRecords(order, hs, period, lost), m.scope.period)
    /\ m.closed <=> /\ period.from < period.to
                    /\ \A f \in m.scope.facings : LastAt(hs[f]) >= period.to

CallStages == {"idle", "scoped", "retained", "read", "rendered", "stored"}

CallInv ==
    /\ DOMAIN call = {"at", "format", "scope", "period", "order", "read", "records", "body"}
    /\ call.at \in CallStages
    /\ call.at # "idle" => ScopeOK(call.scope)
    /\ call.at = "retained" => CutFrom(call.period, call.scope.period)
    /\ call.at \in {"read", "rendered", "stored"} =>
          ReadFrom(call.scope, call.order, call.read, call.period, histories)
    /\ call.at \in {"rendered", "stored"} =>
          /\ call.body = RenderArtifactBody(call.records, call.format)
          /\ \E lost \in SUBSET forgotten :
                call.records = AuditRecords(call.order, call.read, call.period, lost)
    /\ call.at = "stored" => call.body \in DOMAIN bodies

ArtifactInv ==
    /\ \A id \in DOMAIN bodies : bodies[id] = id
    /\ \A id \in DOMAIN manifests :
         /\ id \in DOMAIN bodies
         /\ \E order, hs, period, lost :
              MadeFrom(manifests[id], id, order, hs, period, lost, histories, forgotten)

\* What is retained of a period lies in it and ends where it ends.
LEMMA RetainedIsCut ==
    ASSUME NEW period, period.from \in Nat, period.to \in Nat, period.from <= period.to,
           NEW retained \in Nat
    PROVE  CutFrom(RetainedPeriod(period, retained), period)
<1>1. PICK a, b, m : a = period.from /\ b = period.to /\ m = Max({a, retained}) OBVIOUS
<1>2. a \in Int /\ b \in Int /\ retained \in Int BY <1>1
<1>3. m = IF a >= retained THEN a ELSE retained BY <1>1, <1>2, LargerOf
<1>4. m \in Int BY <1>2, <1>3
<1>5. Min({m, b}) = IF m <= b THEN m ELSE b BY <1>2, <1>4, SmallerOf
<1>6. RetainedPeriod(period, retained).from = Min({m, b}) /\ RetainedPeriod(period, retained).to = b
  BY <1>1 DEF RetainedPeriod, Window
<1>7. Min({m, b}) \in Nat /\ a <= Min({m, b}) /\ Min({m, b}) <= b
  BY <1>1, <1>2, <1>3, <1>5
<1> QED BY <1>1, <1>6, <1>7 DEF CutFrom

\* A step of the store leaves what was read behind.
LEMMA SealingBehindStore ==
    ASSUME StoreInv, StoreInv', StoreGrows, CallInv, ArtifactInv, UNCHANGED artifactVars
    PROVE  CallInv' /\ ArtifactInv'
<1>1. UNCHANGED <<bodies, manifests, call>> BY DEF artifactVars
<1>2. ASSUME NEW scope, NEW order, NEW hs, NEW period, ReadFrom(scope, order, hs, period, histories)
      PROVE  ReadFrom(scope, order, hs, period, histories')
  <2>1. Timed(hs) /\ Behind(hs, histories) BY <1>2 DEF ReadFrom
  <2>2. Behind(hs, histories') BY <2>1, BehindLater DEF StoreInv, StoreGrows
  <2> QED BY <1>2, <2>2 DEF ReadFrom
<1>3. CallInv'
  <2>1. call.at \in {"read", "rendered", "stored"} =>
          ReadFrom(call.scope, call.order, call.read, call.period, histories')
    BY <1>2 DEF CallInv
  <2>2. forgotten \subseteq forgotten' BY DEF StoreGrows
  <2> QED BY <1>1, <2>1, <2>2 DEF CallInv
<1>4. ASSUME NEW id \in DOMAIN manifests
      PROVE  \E order, hs, period, lost :
               MadeFrom(manifests[id], id, order, hs, period, lost, histories', forgotten')
  <2>1. PICK order, hs, period, lost :
          MadeFrom(manifests[id], id, order, hs, period, lost, histories, forgotten)
    BY DEF ArtifactInv
  <2>2. ReadFrom(manifests[id].scope, order, hs, period, histories')
    BY <1>1, <1>2, <2>1 DEF MadeFrom
  <2>3. lost \subseteq forgotten' BY <2>1 DEF MadeFrom, StoreGrows
  <2>4. MadeFrom(manifests[id], id, order, hs, period, lost, histories', forgotten')
    BY <1>1, <2>1, <2>2, <2>3 DEF MadeFrom
  <2> QED BY <2>4
<1>5. ArtifactInv' BY <1>1, <1>4 DEF ArtifactInv
<1> QED BY <1>3, <1>5

\* Every step of a sealing call keeps what it has read and rendered.
LEMMA SealStepKeeps ==
    ASSUME StoreInv, CallInv, ArtifactInv, SealNext, UNCHANGED storeVars
    PROVE  CallInv' /\ ArtifactInv'
<1>0. UNCHANGED <<histories, trail, retainedFrom, forgotten>> BY DEF storeVars
<1>a. ASSUME UNCHANGED <<bodies, manifests>> PROVE ArtifactInv'
  BY <1>0, <1>a DEF ArtifactInv, MadeFrom, ReadFrom
<1>b. retainedFrom \in Nat BY DEF StoreInv
<1>1. ASSUME SealArtifact PROVE CallInv' /\ ArtifactInv'
  <2>1. PICK scope \in Scopes, format \in Formats :
          call' = [NoCallYet EXCEPT !.at = "scoped", !.format = format,
                     !.scope = [scope EXCEPT !.period = RetainedPeriod(@, retainedFrom)]]
    BY <1>1 DEF SealArtifact
  <2>2. /\ scope \in [facings : SUBSET Facing, period : [from : Nat, to : Nat]]
        /\ IsFiniteSet(scope.facings) /\ scope.period.from <= scope.period.to
    BY ReportingAssumption
  <2>3. PICK p : p = RetainedPeriod(scope.period, retainedFrom) OBVIOUS
  <2>4. CutFrom(p, scope.period) BY <1>b, <2>2, <2>3, RetainedIsCut
  <2>5. PICK s : s = [scope EXCEPT !.period = p] OBVIOUS
  <2>6. ScopeOK(s) BY <2>2, <2>4, <2>5 DEF ScopeOK, CutFrom
  <2>7. /\ call'.at = "scoped" /\ call'.scope = s
        /\ DOMAIN call' = {"at", "format", "scope", "period", "order", "read", "records", "body"}
    BY <2>1, <2>3, <2>5 DEF NoCallYet
  <2>8. CallInv' BY <2>6, <2>7 DEF CallInv, CallStages
  <2> QED BY <1>1, <1>a, <2>8 DEF SealArtifact
<1>2. ASSUME RetainAgain PROVE CallInv' /\ ArtifactInv'
  <2>1. /\ call.at = "scoped" /\ UNCHANGED <<bodies, manifests>>
        /\ call' = [call EXCEPT !.at = "retained",
                                !.period = RetainedPeriod(call.scope.period, retainedFrom)]
    BY <1>2 DEF RetainAgain
  <2>2. ScopeOK(call.scope) BY <2>1 DEF CallInv
  <2>3. CutFrom(RetainedPeriod(call.scope.period, retainedFrom), call.scope.period)
    BY <1>b, <2>2, RetainedIsCut DEF ScopeOK
  <2>4. /\ call'.at = "retained" /\ call'.scope = call.scope
        /\ call'.period = RetainedPeriod(call.scope.period, retainedFrom)
        /\ DOMAIN call' = DOMAIN call
    BY <2>1 DEF CallInv
  <2>5. CallInv' BY <2>2, <2>3, <2>4 DEF CallInv, CallStages
  <2> QED BY <1>a, <2>1, <2>5
<1>3. ASSUME ReadFacings PROVE CallInv' /\ ArtifactInv'
  <2>1. call.at = "retained" /\ UNCHANGED <<bodies, manifests>> BY <1>3 DEF ReadFacings
  <2>2. PICK order \in ReadOrders(call.scope.facings) :
          call' = [call EXCEPT !.at = "read", !.order = order, !.read = histories]
    BY <1>3 DEF ReadFacings
  <2>3. ScopeOK(call.scope) /\ CutFrom(call.period, call.scope.period) BY <2>1 DEF CallInv
  <2>4. /\ call'.at = "read" /\ call'.scope = call.scope /\ call'.period = call.period
        /\ call'.order = order /\ call'.read = histories /\ DOMAIN call' = DOMAIN call
    BY <2>2 DEF CallInv
  <2>5. Timed(histories) /\ Behind(histories, histories) BY BehindItself DEF StoreInv
  <2>6. ReadFrom(call.scope, order, histories, call.period, histories') 
    BY <1>0, <2>3, <2>4, <2>5 DEF ReadFrom
  <2>7. CallInv' BY <1>0, <2>3, <2>4, <2>6 DEF CallInv, CallStages
  <2> QED BY <1>a, <2>1, <2>7
<1>4. ASSUME Render PROVE CallInv' /\ ArtifactInv'
  <2>1. PICK recs : recs = AuditRecords(call.order, call.read, call.period, forgotten)
    OBVIOUS
  <2>2. /\ call.at = "read" /\ UNCHANGED <<bodies, manifests>>
        /\ call' = [call EXCEPT !.at = "rendered", !.records = recs,
                                !.body = RenderArtifactBody(recs, call.format)]
    BY <1>4, <2>1 DEF Render
  <2>3. ScopeOK(call.scope) /\ ReadFrom(call.scope, call.order, call.read, call.period, histories)
    BY <2>2 DEF CallInv
  <2>4. /\ call'.at = "rendered" /\ call'.scope = call.scope /\ call'.period = call.period
        /\ call'.order = call.order /\ call'.read = call.read /\ DOMAIN call' = DOMAIN call
        /\ call'.records = recs /\ call'.format = call.format
        /\ call'.body = RenderArtifactBody(recs, call.format)
    BY <2>2 DEF CallInv
  <2>5. ReadFrom(call.scope, call.order, call.read, call.period, histories')
    BY <1>0, <2>3, <2>4 DEF ReadFrom
  <2>6. forgotten \in SUBSET forgotten' BY <1>0
  <2>7. CallInv' BY <1>0, <2>1, <2>3, <2>4, <2>5, <2>6 DEF CallInv, CallStages
  <2> QED BY <1>a, <2>2, <2>7
<1>5. ASSUME Put PROVE CallInv' /\ ArtifactInv'
  <2>1. PICK id : id = call.body OBVIOUS
  <2>2. ArtifactId = id BY <2>1 DEF ArtifactId, MintArtifactId, Sha256
  <2>3. /\ call.at = "rendered" /\ call' = [call EXCEPT !.at = "stored"]
        /\ bodies' = [i \in DOMAIN bodies \cup {id} |-> IF i = id THEN id ELSE bodies[i]]
        /\ UNCHANGED manifests
    BY <1>5, <2>1, <2>2 DEF Put, With
  <2>4. /\ call'.at = "stored" /\ DOMAIN call' = DOMAIN call
        /\ call'.scope = call.scope /\ call'.period = call.period
        /\ call'.order = call.order /\ call'.read = call.read
        /\ call'.records = call.records /\ call'.format = call.format /\ call'.body = call.body
    BY <2>3 DEF CallInv
  <2>5. DOMAIN bodies' = DOMAIN bodies \cup {id} /\ \A i \in DOMAIN bodies' : bodies'[i] = i
    BY <2>3 DEF ArtifactInv
  <2>6. ReadFrom(call.scope, call.order, call.read, call.period, histories')
    BY <1>0, <2>3, <2>4 DEF ReadFrom, CallInv
  <2>7. CallInv' BY <1>0, <2>1, <2>3, <2>4, <2>5, <2>6 DEF CallInv, CallStages
  <2>8. ArtifactInv' BY <1>0, <2>3, <2>5 DEF ArtifactInv, MadeFrom, ReadFrom
  <2> QED BY <2>7, <2>8
<1>6. ASSUME PutManifest PROVE CallInv' /\ ArtifactInv'
  <2>1. PICK id : id = call.body OBVIOUS
  <2>2. ArtifactId = id BY <2>1 DEF ArtifactId, MintArtifactId, Sha256
  <2>3. PICK m : m = [scope |-> call.scope, format |-> call.format,
                      contentHash |-> Sha256(call.body),
                      figures |-> Figures(Substantiated, call.scope.period),
                      closed |-> Closed]
    OBVIOUS
  <2>4. /\ call.at = "stored" /\ call' = NoCallYet /\ UNCHANGED bodies
        /\ manifests' = [i \in DOMAIN manifests \cup {id} |-> IF i = id THEN m ELSE manifests[i]]
    BY <1>6, <2>2, <2>3 DEF PutManifest, With
  <2>5. PICK lost \in SUBSET forgotten :
          call.records = AuditRecords(call.order, call.read, call.period, lost)
    BY <2>4 DEF CallInv
  <2>6. /\ ScopeOK(call.scope)
        /\ ReadFrom(call.scope, call.order, call.read, call.period, histories)
        /\ id \in DOMAIN bodies /\ id = RenderArtifactBody(call.records, call.format)
    BY <2>1, <2>4 DEF CallInv
  <2>7. /\ m.scope = call.scope /\ m.format = call.format /\ m.contentHash = id
        /\ m.figures = Figures(call.records, call.scope.period)
        /\ m.closed = Closed
    BY <2>1, <2>3 DEF Sha256, Substantiated
  <2>8. MadeFrom(m, id, call.order, call.read, call.period, lost, histories, forgotten)
    <3>1. m.closed <=> /\ call.period.from < call.period.to
                       /\ \A f \in m.scope.facings : LastAt(call.read[f]) >= call.period.to
      BY <2>7 DEF Closed
    <3> QED BY <2>5, <2>6, <2>7, <3>1 DEF MadeFrom
  <2>9. ASSUME NEW i \in DOMAIN manifests'
        PROVE  i \in DOMAIN bodies' /\
               \E order, hs, period, known :
                 MadeFrom(manifests'[i], i, order, hs, period, known, histories', forgotten')
    <3>1. CASE i = id
      <4>1. manifests'[i] = m BY <2>4, <3>1
      <4>2. MadeFrom(m, id, call.order, call.read, call.period, lost, histories, forgotten)
        BY <2>8
      <4>3. PICK order, hs, period : order = call.order /\ hs = call.read /\ period = call.period
        OBVIOUS
      <4>4. MadeFrom(m, id, order, hs, period, lost, histories, forgotten) BY <4>2, <4>3
      <4>5. MadeFrom(manifests'[i], i, order, hs, period, lost, histories', forgotten')
        BY <1>0, <3>1, <4>1, <4>4 DEF MadeFrom, ReadFrom
      <4> QED BY <2>4, <2>6, <3>1, <4>5
    <3>2. CASE i # id
      <4>1. i \in DOMAIN manifests /\ manifests'[i] = manifests[i] BY <2>4, <2>9, <3>2
      <4>2. PICK order, hs, period, known :
              MadeFrom(manifests[i], i, order, hs, period, known, histories, forgotten)
        BY <4>1 DEF ArtifactInv
      <4>3. MadeFrom(manifests'[i], i, order, hs, period, known, histories', forgotten')
        BY <1>0, <4>1, <4>2 DEF MadeFrom, ReadFrom
      <4> QED BY <2>4, <4>1, <4>3 DEF ArtifactInv
    <3> QED BY <3>1, <3>2
  <2>10. ArtifactInv' BY <2>4, <2>9 DEF ArtifactInv
  <2>11. CallInv' BY <2>4 DEF CallInv, CallStages, NoCallYet
  <2> QED BY <2>10, <2>11
<1>7. ASSUME SealFails PROVE CallInv' /\ ArtifactInv'
  <2>1. call' = NoCallYet /\ UNCHANGED <<bodies, manifests>> BY <1>7 DEF SealFails
  <2> QED BY <1>a, <2>1 DEF CallInv, CallStages, NoCallYet
<1> QED BY <1>1, <1>2, <1>3, <1>4, <1>5, <1>6, <1>7 DEF SealNext

----------------------------------------------------------------------------
(* Orders.  Whatever order the store reads the facings of a scope in, their *)
(* records are sorted by the id of the facing.                              *)
ById(facings) == {p \in facings \X facings : p[1] < p[2]}

\* Ids set facings in a line.
LEMMA IdsInLine ==
    ASSUME NEW F \in SUBSET Facing
    PROVE  InLine(F, ById(F))
<1>1. \A x \in F : x \in Int BY ReportingAssumption
<1>2. \A x, y \in F : <<x, y>> \in ById(F) <=> x < y BY DEF ById
<1> QED BY <1>1, <1>2 DEF InLine

\* Every facing is read once.
LEMMA ReadOnce ==
    ASSUME NEW F, IsFiniteSet(F), NEW order \in ReadOrders(F), NEW n, n = Cardinality(F)
    PROVE  n \in Nat /\ order \in Bijection(1..n, F)
<1>1. n \in Nat BY FS_CardinalityType
<1>2. order \in [1..n -> F] /\ \A f \in F : \E i \in 1..n : order[i] = f
  BY DEF ReadOrders, ToSet
<1>3. order \in Surjection(1..n, F) BY <1>2 DEF Surjection
<1>4. PICK D : D = 1..n OBVIOUS
<1>5. IsFiniteSet(D) /\ Cardinality(D) = n BY <1>1, <1>4, UpTo
<1>6. order \in Injection(D, F) BY <1>3, <1>4, <1>5, FS_SurjSameCardinalityImpliesInj
<1> QED BY <1>1, <1>3, <1>4, <1>6 DEF Bijection

\* There is an order to read them in, and a listing of them is one.
LEMMA ListedOnce ==
    ASSUME NEW F, IsFiniteSet(F)
    PROVE  SetToSeq(F) \in ReadOrders(F)
<1>1. PICK n : n = Cardinality(F) OBVIOUS
<1>2. PICK D : D = 1..n OBVIOUS
<1>3. n \in Nat /\ IsFiniteSet(D) /\ Cardinality(D) = n BY <1>1, <1>2, FS_CardinalityType, UpTo
<1>4. ExistsBijection(D, F) BY <1>1, <1>3, FS_SameCardinalityBij
<1>5. \E f \in [D -> F] : IsInjective(f) BY <1>4 DEF ExistsBijection, Bijection, Injection
<1>6. PICK s : s = SetToSeq(F) OBVIOUS
<1>7. s \in [D -> F] /\ IsInjective(s) BY <1>1, <1>2, <1>5, <1>6 DEF SetToSeq
<1>8. s \in Injection(D, F) BY <1>7 DEF Injection
<1>9. s \in Surjection(D, F) BY <1>1, <1>3, <1>8, FS_Injection
<1>10. ToSet(s) = F BY <1>7, <1>9 DEF Surjection, ToSet
<1> QED BY <1>1, <1>2, <1>6, <1>7, <1>10 DEF ReadOrders

\* Records sorted by the id of their facing.
SortedById(line, n, recs) ==
    /\ line \in Bijection(1..n, 1..n)
    /\ SortAuditRecords(recs) = [k \in 1..n |-> recs[line[k]]]
    /\ \A k, l \in 1..n : k < l => recs[line[k]].facing <= recs[line[l]].facing

\* The records of an audit are sorted by facing.
LEMMA RecordsSorted ==
    ASSUME NEW n \in Nat, NEW recs, DOMAIN recs = 1..n,
           \A k \in 1..n : recs[k].facing \in Nat
    PROVE  \E line : SortedById(line, n, recs)
<1>1. PICK before : before = {p \in Pairs(recs) : recs[p[1]].facing < recs[p[2]].facing}
  OBVIOUS
<1>2. \A x, y \in 1..n : <<x, y>> \in before <=> recs[x].facing < recs[y].facing
  BY <1>1 DEF Pairs
<1>3. Ranks(1..n, before)
  <2>1. ASSUME NEW x \in 1..n, NEW y \in 1..n, <<x, y>> \in before PROVE <<y, x>> \notin before
    <3>1. PICK a, b : a = recs[x].facing /\ b = recs[y].facing OBVIOUS
    <3>2. a \in Nat /\ b \in Nat BY <3>1
    <3> QED BY <1>2, <2>1, <3>1, <3>2
  <2>2. ASSUME NEW x \in 1..n, NEW y \in 1..n, NEW z \in 1..n, <<x, z>> \in before
        PROVE  <<x, y>> \in before \/ <<y, z>> \in before
    <3>1. PICK a, b, c : a = recs[x].facing /\ b = recs[y].facing /\ c = recs[z].facing
      OBVIOUS
    <3>2. a \in Nat /\ b \in Nat /\ c \in Nat BY <3>1
    <3> QED BY <1>2, <2>2, <3>1, <3>2
  <2> QED BY <2>1, <2>2 DEF Ranks
<1>4. PICK line : PutsInOrder(line, n, recs, before) BY <1>3, SortedByTurns
<1>5. line \in Bijection(1..n, 1..n) /\ \A k \in 1..n : line[k] \in 1..n
  BY <1>4 DEF PutsInOrder, Bijection, Injection
<1>6. SortAuditRecords(recs) = [k \in 1..n |-> recs[line[k]]]
  BY <1>1, <1>4 DEF PutsInOrder, SortAuditRecords
<1>7. ASSUME NEW k \in 1..n, NEW l \in 1..n, k < l
      PROVE  recs[line[k]].facing <= recs[line[l]].facing
  <2>1. <<line[k], line[l]>> \in Turns(n, before) BY <1>4, <1>7 DEF PutsInOrder
  <2>2. <<line[l], line[k]>> \notin before
    BY <1>3, <1>5, <2>1 DEF Turns, Ranks
  <2>3. PICK a, b : a = recs[line[k]].facing /\ b = recs[line[l]].facing OBVIOUS
  <2>4. a \in Nat /\ b \in Nat BY <1>5, <2>3
  <2>5. ~(b < a) BY <1>2, <1>5, <2>2, <2>3
  <2> QED BY <2>3, <2>4, <2>5
<1> QED BY <1>5, <1>6, <1>7 DEF SortedById

\* The facings of a scope by id, and the records of an audit by facing.
\* The records of the facings F, by their ids.
ReadById(recs, g, n, F, hs, period, lost) ==
    /\ Lined(g, n, F, ById(F)) /\ g \in Bijection(1..n, F)
    /\ recs = [k \in 1..n |-> AuditRecordFor(g[k], hs[g[k]], period, lost)]

\* The records of some facings are theirs, by their ids.
LEMMA RecordsById ==
    ASSUME NEW F \in SUBSET Facing, IsFiniteSet(F), NEW order \in ReadOrders(F),
           NEW hs, NEW period, NEW lost
    PROVE  \E n \in Nat : \E g :
             ReadById(AuditRecords(order, hs, period, lost), g, n, F, hs, period, lost)
<1>1. PICK n : n = Cardinality(F) OBVIOUS
<1>2. n \in Nat /\ order \in Bijection(1..n, F) BY <1>1, ReadOnce
<1>3. order \in [1..n -> F] /\ DOMAIN order = 1..n BY <1>2 DEF Bijection, Injection
<1>4. PICK raw : raw = [i \in DOMAIN order |->
                          AuditRecordFor(order[i], hs[order[i]], period, lost)]
  OBVIOUS
<1>5. DOMAIN raw = 1..n /\ \A i \in 1..n : raw[i].facing = order[i]
  BY <1>3, <1>4 DEF AuditRecordFor
<1>6. \A i \in 1..n : raw[i].facing \in Nat BY <1>3, <1>5, ReportingAssumption
<1>7. PICK line : SortedById(line, n, raw) BY <1>2, <1>5, <1>6, RecordsSorted
<1>8. PICK g : g = [k \in 1..n |-> order[line[k]]] OBVIOUS
<1>9. line \in Bijection(1..n, 1..n) /\ \A k \in 1..n : line[k] \in 1..n
  BY <1>7 DEF SortedById, Bijection, Injection
<1>10. AuditRecords(order, hs, period, lost) =
         [k \in 1..n |-> AuditRecordFor(g[k], hs[g[k]], period, lost)]
  <2>1. AuditRecords(order, hs, period, lost) = [k \in 1..n |-> raw[line[k]]]
    BY <1>4, <1>7 DEF SortedById, AuditRecords
  <2>2. \A k \in 1..n : raw[line[k]] = AuditRecordFor(g[k], hs[g[k]], period, lost)
    BY <1>3, <1>4, <1>8, <1>9
  <2> QED BY <2>1, <2>2
<1>11. g \in [1..n -> F] BY <1>3, <1>8, <1>9
<1>12. \A k, l \in 1..n : g[k] = g[l] => k = l
  <2>1. \A i, j \in 1..n : order[i] = order[j] => i = j
    BY <1>2, <1>3 DEF Bijection, Injection, IsInjective
  <2>2. \A k, l \in 1..n : line[k] = line[l] => k = l
    BY <1>9 DEF Bijection, Injection, IsInjective
  <2> QED BY <1>8, <1>9, <2>1, <2>2
<1>13. \A f \in F : \E k \in 1..n : g[k] = f
  <2> SUFFICES ASSUME NEW f \in F PROVE \E k \in 1..n : g[k] = f OBVIOUS
  <2>1. PICK i \in 1..n : order[i] = f BY <1>2 DEF Bijection, Surjection
  <2>2. PICK k \in 1..n : line[k] = i BY <1>9 DEF Bijection, Surjection
  <2> QED BY <1>8, <2>1, <2>2
<1>14. g \in Bijection(1..n, F)
  BY <1>11, <1>12, <1>13 DEF Bijection, Injection, Surjection, IsInjective
<1>15. ASSUME NEW k \in 1..n, NEW l \in 1..n, k < l PROVE <<g[k], g[l]>> \in ById(F)
  <2>1. raw[line[k]].facing = g[k] /\ raw[line[l]].facing = g[l] BY <1>5, <1>8, <1>9
  <2>2. g[k] <= g[l] BY <1>7, <1>15, <2>1 DEF SortedById
  <2>3. g[k] # g[l] BY <1>12, <1>15
  <2>4. g[k] \in F /\ g[l] \in F BY <1>11
  <2>5. PICK a, b : a = g[k] /\ b = g[l] OBVIOUS
  <2>6. a \in Nat /\ b \in Nat /\ a <= b /\ a # b BY <2>2, <2>3, <2>4, <2>5, ReportingAssumption
  <2>7. a < b BY <2>6
  <2> QED BY <2>4, <2>5, <2>7 DEF ById
<1>16. Lined(g, n, F, ById(F)) BY <1>11, <1>13, <1>15 DEF Lined
<1>17. ReadById(AuditRecords(order, hs, period, lost), g, n, F, hs, period, lost)
  BY <1>10, <1>14, <1>16 DEF ReadById
<1> QED BY <1>2, <1>17

----------------------------------------------------------------------------
(* What a manifest says of its body.                                       *)
\* Summing in another order comes to the same.
LEMMA SumShuffled ==
    ASSUME NEW n \in Nat, NEW u, DOMAIN u = 1..n, \A k \in 1..n : u[k] \in Int,
           NEW v, DOMAIN v = 1..n, NEW line \in Bijection(1..n, 1..n),
           \A k \in 1..n : v[k] = u[line[k]]
    PROVE  SumFunction(v) = SumFunction(u)
<1>1. PICK D : D = 1..n OBVIOUS
<1>2. IsFiniteSet(D) BY <1>1, UpTo
<1>3. Integral(u, D) BY <1>1 DEF Integral
<1>4. line \in Bijection(D, D) BY <1>1
<1>5. \A k \in D : v[k] = u[line[k]] BY <1>1
<1>6. SumFunctionOnSet(v, D) = SumFunctionOnSet(u, D) BY <1>2, <1>3, <1>4, <1>5, SumRenamed
<1>7. DOMAIN u = D /\ DOMAIN v = D BY <1>1
<1> QED BY <1>6, <1>7 DEF SumFunction

\* What an auditor computes from a record.
Recomputed(r) == ComputeFacingAvailability(
                   [stateAtWindowStart |-> r.stateAtPeriodStart, events |-> r.transitions],
                   r.period)

\* The record of a facing: the figures of its history, which its transitions give again.
RecordTells(r, f, h, period) ==
    /\ DOMAIN r = {"facing", "period", "stateAtPeriodStart", "transitions", "inStock",
                   "measured", "unknown"}
    /\ r.facing = f /\ r.period = period
    /\ \E c \in Nat : DOMAIN r.transitions = 1..c /\ Len(r.transitions) = c
    /\ \A key \in DOMAIN Counted :
         r[key] \in Nat /\ r[key] = ComputeFacingAvailability(TimelineFor(h, period), period)[key]
    /\ Recomputed(r) = [inStock |-> r.inStock, measured |-> r.measured, unknown |-> r.unknown]

\* What a record says of its facing.
LEMMA RecordOfFacing ==
    ASSUME NEW f, NEW h, NEW n \in Nat, InTime(h, n), NEW period, period.from \in Int,
           period.to \in Int, period.from <= period.to, NEW lost
    PROVE  RecordTells(AuditRecordFor(f, h, period, lost), f, h, period)
<1>1. PICK r : r = AuditRecordFor(f, h, period, lost) OBVIOUS
<1>2. PICK line, c : WithinAt(line, c, h, n, period) BY WithinInOrder
<1>3. PICK events : events = EventsWithin(h, period) OBVIOUS
<1>4. c \in Nat /\ DOMAIN events = 1..c BY <1>2, <1>3 DEF WithinAt
<1>5. PICK figures : figures = ComputeFacingAvailability(TimelineFor(h, period), period) OBVIOUS
<1>6. r = [facing |-> f, period |-> period, stateAtPeriodStart |-> StateAt(h, period.from),
           transitions |-> [i \in DOMAIN events |->
              [at |-> events[i].at, to |-> events[i].to, signal |-> events[i].signal,
               traced |-> events[i].signal \notin lost]],
           inStock |-> figures.inStock, measured |-> figures.measured,
           unknown |-> figures.unknown]
  BY <1>1, <1>3, <1>5 DEF AuditRecordFor
<1>7. \A key \in DOMAIN Counted : figures[key] \in Nat BY <1>5, FiguresOfFacing
<1>8. /\ "inStock" \in DOMAIN Counted /\ "measured" \in DOMAIN Counted
      /\ "unknown" \in DOMAIN Counted
      /\ \A key \in DOMAIN Counted : key \in {"inStock", "measured", "unknown"}
  BY DEF Counted
<1>9. \A key \in DOMAIN Counted : r[key] = figures[key] BY <1>6, <1>8
<1>10. PICK d : d = r.transitions OBVIOUS
<1>11. /\ DOMAIN d = 1..c /\ Len(d) = c
       /\ \A i \in 1..c : d[i].at = events[i].at /\ d[i].to = events[i].to
  BY <1>4, <1>6, <1>10
<1>12. Recomputed(r) = figures
  <2>1. PICK start : start = [cursor |-> period.from, state |-> StateAt(h, period.from),
                              totals |-> [s \in States |-> 0]]
    OBVIOUS
  <2>2. Walked(start, d, period) = Walked(start, events, period) BY <1>4, <1>11, SameWalk
  <2> DEFINE Of(es) == LET totals == Spent(Walked(start, es, period), period, period.to)
                       IN  [inStock  |-> totals["in_stock"],
                            measured |-> totals["in_stock"] + totals["out_of_stock"],
                            unknown  |-> totals["unknown"]]
  <2>3. Recomputed(r) = Of(d)
    <3>1. r.stateAtPeriodStart = StateAt(h, period.from) /\ r.period = period BY <1>6
    <3> QED BY <1>10, <2>1, <3>1 DEF Recomputed, ComputeFacingAvailability, Walked
  <2>4. figures = Of(events)
    <3>1. figures = ComputeFacingAvailability([stateAtWindowStart |-> StateAt(h, period.from),
                                               events |-> events], period)
      BY <1>3, <1>5 DEF TimelineFor
    <3> QED BY <2>1, <3>1 DEF ComputeFacingAvailability, Walked
  <2>5. Of(d) = Of(events) BY <2>2
  <2> QED BY <2>3, <2>4, <2>5
<1>13. figures = [inStock |-> figures.inStock, measured |-> figures.measured,
                  unknown |-> figures.unknown]
  BY <1>5 DEF ComputeFacingAvailability
<1>14. Recomputed(r) = [inStock |-> r.inStock, measured |-> r.measured, unknown |-> r.unknown]
  BY <1>6, <1>12, <1>13
<1>15. RecordTells(r, f, h, period)
  <2>1. DOMAIN r = {"facing", "period", "stateAtPeriodStart", "transitions", "inStock",
                    "measured", "unknown"} /\ r.facing = f /\ r.period = period
    BY <1>6
  <2>2. \E k \in Nat : DOMAIN r.transitions = 1..k /\ Len(r.transitions) = k
    BY <1>4, <1>10, <1>11
  <2>3. \A key \in DOMAIN Counted : r[key] \in Nat /\
          r[key] = ComputeFacingAvailability(TimelineFor(h, period), period)[key]
    BY <1>5, <1>7, <1>9
  <2> QED BY <1>14, <2>1, <2>2, <2>3 DEF RecordTells
<1> QED BY <1>1, <1>15

\* The rows of a body are the records, each on a line of its own.
RowsOf(rows, line, n, recs, format) ==
    /\ line \in Bijection(1..n, 1..n) /\ DOMAIN rows = 1..n /\ Len(rows) = n
    /\ \A k \in 1..n :
         rows[k] = IF format # "text/csv" THEN recs[line[k]]
                   ELSE [recs[line[k]] EXCEPT !.transitions = Len(recs[line[k]].transitions)]

\* A body has a row for each record.
LEMMA BodyHasTheRecords ==
    ASSUME NEW n \in Nat, NEW recs, DOMAIN recs = 1..n,
           \A k \in 1..n : recs[k].facing \in Nat, NEW format
    PROVE  \E line : RowsOf(RenderArtifactBody(recs, format).rows, line, n, recs, format)
<1>1. PICK line : SortedById(line, n, recs) BY RecordsSorted
<1>2. PICK sorted : sorted = SortAuditRecords(recs) OBVIOUS
<1>3. line \in Bijection(1..n, 1..n) /\ sorted = [k \in 1..n |-> recs[line[k]]]
  BY <1>1, <1>2 DEF SortedById
<1>4. PICK rows : rows = RenderArtifactBody(recs, format).rows OBVIOUS
<1>5. rows = IF format # "text/csv" THEN sorted
             ELSE [i \in 1..n |-> [sorted[i] EXCEPT !.transitions = Len(@)]]
  BY <1>2, <1>4 DEF RenderArtifactBody
<1>6. CASE format # "text/csv"
  <2>1. rows = [k \in 1..n |-> recs[line[k]]] BY <1>3, <1>5, <1>6
  <2>2. DOMAIN rows = 1..n /\ Len(rows) = n BY <2>1
  <2>3. \A k \in 1..n : rows[k] = recs[line[k]] BY <2>1
  <2>4. RowsOf(rows, line, n, recs, format) BY <1>3, <1>6, <2>2, <2>3 DEF RowsOf
  <2> QED BY <1>4, <2>4
<1>7. CASE format = "text/csv"
  <2>1. rows = [k \in 1..n |-> [sorted[k] EXCEPT !.transitions = Len(@)]] BY <1>5, <1>7
  <2>2. DOMAIN rows = 1..n /\ Len(rows) = n BY <2>1
  <2>3. ASSUME NEW k \in 1..n
        PROVE  rows[k] = [recs[line[k]] EXCEPT !.transitions = Len(recs[line[k]].transitions)]
    <3>1. rows[k] = [sorted[k] EXCEPT !.transitions = Len(sorted[k].transitions)] BY <2>1
    <3>2. sorted[k] = recs[line[k]] BY <1>3
    <3> QED BY <3>1, <3>2
  <2>4. RowsOf(rows, line, n, recs, format) BY <1>3, <1>7, <2>2, <2>3 DEF RowsOf
  <2> QED BY <1>4, <2>4
<1> QED BY <1>6, <1>7

\* The records a manifest was made from, one for each facing of its scope.
RecordsFrom(recs, g, n, F, hs, period) ==
    /\ Lined(g, n, F, ById(F)) /\ g \in Bijection(1..n, F)
    /\ DOMAIN recs = 1..n /\ Len(recs) = n
    /\ \A k \in 1..n : RecordTells(recs[k], g[k], hs[g[k]], period)

\* The records of an audit tell of each facing once.
LEMMA RecordsTell ==
    ASSUME NEW scope, ScopeOK(scope), NEW order, NEW hs, NEW period, NEW now,
           ReadFrom(scope, order, hs, period, now), NEW lost
    PROVE  \E n \in Nat : \E g :
             /\ RecordsFrom(AuditRecords(order, hs, period, lost), g, n, scope.facings, hs, period)
             /\ AuditRecords(order, hs, period, lost) =
                  [k \in 1..n |-> AuditRecordFor(g[k], hs[g[k]], period, lost)]
<1>1. PICK F : F = scope.facings OBVIOUS
<1>2. F \in SUBSET Facing /\ IsFiniteSet(F) /\ order \in ReadOrders(F)
  BY <1>1 DEF ScopeOK, ReadFrom
<1>3. PICK n \in Nat :
         \E h : ReadById(AuditRecords(order, hs, period, lost), h, n, F, hs, period, lost)
  BY <1>2, RecordsById
<1>3a. PICK g : ReadById(AuditRecords(order, hs, period, lost), g, n, F, hs, period, lost)
  BY <1>3
<1>4. /\ Lined(g, n, F, ById(F)) /\ g \in Bijection(1..n, F)
      /\ AuditRecords(order, hs, period, lost) =
           [k \in 1..n |-> AuditRecordFor(g[k], hs[g[k]], period, lost)]
  BY <1>3a DEF ReadById
<1>5. PICK recs : recs = AuditRecords(order, hs, period, lost) OBVIOUS
<1>6. recs = [k \in 1..n |-> AuditRecordFor(g[k], hs[g[k]], period, lost)] BY <1>4, <1>5
<1>7. DOMAIN recs = 1..n /\ Len(recs) = n BY <1>6
<1>8. period.from \in Int /\ period.to \in Int /\ period.from <= period.to
  BY DEF ReadFrom, CutFrom, ScopeOK
<1>9. ASSUME NEW k \in 1..n PROVE RecordTells(recs[k], g[k], hs[g[k]], period)
  <2>1. PICK f : f = g[k] OBVIOUS
  <2>2. f \in Facing BY <1>2, <1>4, <2>1 DEF Bijection, Injection
  <2>3. PICK h : h = hs[f] OBVIOUS
  <2>4. PICK m : m = Len(h.events) OBVIOUS
  <2>5. InTime(h, m) /\ m \in Nat BY <2>2, <2>3, <2>4, TimedFacing DEF ReadFrom
  <2>6. RecordTells(AuditRecordFor(f, h, period, lost), f, h, period)
    BY <1>8, <2>5, RecordOfFacing
  <2> QED BY <1>6, <2>1, <2>3, <2>6
<1>10. RecordsFrom(recs, g, n, F, hs, period) BY <1>4, <1>7, <1>9 DEF RecordsFrom
<1> QED BY <1>1, <1>5, <1>6, <1>10

\* What holds of every artifact is what a manifest vouches for.
LEMMA Vouches ==
    ASSUME ArtifactInv
    PROVE  ManifestVouchesForItsBody
<1> SUFFICES ASSUME NEW id \in DOMAIN manifests
             PROVE  LET m    == manifests[id]
                        rows == bodies[id].rows
                    IN  /\ id \in DOMAIN bodies /\ m.contentHash = Sha256(bodies[id])
                        /\ m.figures.facingCount = Len(rows)
                        /\ m.figures.inStock  = Total(rows, "inStock")
                        /\ m.figures.measured = Total(rows, "measured")
                        /\ m.format = "text/csv" =>
                              m.figures.transitionCount = Total(rows, "transitions")
                        /\ \A i \in DOMAIN rows :
                              /\ rows[i].period.to = m.scope.period.to
                              /\ rows[i].period.from >= m.scope.period.from
                              /\ m.format # "text/csv" =>
                                    Recomputed(rows[i]) = [inStock |-> rows[i].inStock,
                                      measured |-> rows[i].measured, unknown |-> rows[i].unknown]
  BY DEF ManifestVouchesForItsBody, Recomputed
<1>1. PICK m : m = manifests[id] OBVIOUS
<1>2. PICK order, hs, period, lost : MadeFrom(m, id, order, hs, period, lost, histories, forgotten)
  BY <1>1 DEF ArtifactInv
<1>3. PICK recs : recs = AuditRecords(order, hs, period, lost) OBVIOUS
<1>4. /\ id \in DOMAIN bodies /\ bodies[id] = id /\ m.contentHash = id
      /\ id = RenderArtifactBody(recs, m.format) /\ m.figures = Figures(recs, m.scope.period)
      /\ ScopeOK(m.scope) /\ ReadFrom(m.scope, order, hs, period, histories)
  BY <1>2, <1>3 DEF ArtifactInv, MadeFrom
<1>5. PICK scope : scope = m.scope OBVIOUS
<1>6. PICK n \in Nat : \E h :
             /\ RecordsFrom(recs, h, n, scope.facings, hs, period)
             /\ recs = [k \in 1..n |-> AuditRecordFor(h[k], hs[h[k]], period, lost)]
  BY <1>3, <1>4, <1>5, RecordsTell
<1>7. PICK g : RecordsFrom(recs, g, n, scope.facings, hs, period) BY <1>6
<1>8. /\ DOMAIN recs = 1..n /\ Len(recs) = n
      /\ \A k \in 1..n : RecordTells(recs[k], g[k], hs[g[k]], period) /\ g[k] \in Nat
  <2>1. \A k \in 1..n : g[k] \in Nat
    BY <1>4, <1>5, <1>7, ReportingAssumption DEF RecordsFrom, Bijection, Injection, ScopeOK
  <2> QED BY <1>7, <2>1 DEF RecordsFrom
<1>9. \A k \in 1..n : recs[k].facing \in Nat BY <1>8 DEF RecordTells
<1>10. PICK rows : rows = bodies[id].rows OBVIOUS
<1>11. PICK format : format = m.format OBVIOUS
<1>12. PICK line : RowsOf(rows, line, n, recs, format)
  <2>1. \E l : RowsOf(RenderArtifactBody(recs, format).rows, l, n, recs, format)
    BY <1>8, <1>9, BodyHasTheRecords
  <2> QED BY <1>4, <1>10, <1>11, <2>1
<1>13. /\ line \in Bijection(1..n, 1..n) /\ DOMAIN rows = 1..n /\ Len(rows) = n
       /\ \A k \in 1..n : line[k] \in 1..n
  BY <1>12 DEF RowsOf, Bijection, Injection
<1>a. line \in Bijection(1..n, 1..n) BY <1>13
<1>14. ASSUME NEW k \in 1..n
       PROVE  /\ \A key \in {"inStock", "measured", "unknown", "period"} :
                   rows[k][key] = recs[line[k]][key]
              /\ format # "text/csv" => rows[k] = recs[line[k]]
              /\ format = "text/csv" => rows[k].transitions = Len(recs[line[k]].transitions)
  <2>1. PICK r : r = recs[line[k]] OBVIOUS
  <2>2. DOMAIN r = {"facing", "period", "stateAtPeriodStart", "transitions", "inStock",
                    "measured", "unknown"}
    BY <1>8, <1>13, <2>1 DEF RecordTells
  <2>3. rows[k] = IF format # "text/csv" THEN r ELSE [r EXCEPT !.transitions = Len(r.transitions)]
    BY <1>12, <2>1 DEF RowsOf
  <2> QED BY <2>1, <2>2, <2>3
<1>15. ASSUME NEW key \in {"inStock", "measured"}
       PROVE  Total(rows, key) = Total(recs, key)
  <2>1. PICK u : u = [i \in 1..n |-> recs[i][key]] OBVIOUS
  <2>2. PICK v : v = [i \in 1..n |-> rows[i][key]] OBVIOUS
  <2>3. \A k \in 1..n : u[k] \in Int
    <3>1. key \in DOMAIN Counted BY DEF Counted
    <3> QED BY <1>8, <2>1, <3>1 DEF RecordTells
  <2>4. \A k \in 1..n : v[k] = u[line[k]] BY <1>13, <1>14, <2>1, <2>2
  <2>5. DOMAIN u = 1..n /\ DOMAIN v = 1..n BY <2>1, <2>2
  <2>6. SumFunction(v) = SumFunction(u) BY ONLY n \in Nat, <1>a, <2>3, <2>4, <2>5, SumShuffled
  <2> QED BY <1>8, <1>13, <2>1, <2>2, <2>6 DEF Total
<1>16. ASSUME format = "text/csv" PROVE m.figures.transitionCount = Total(rows, "transitions")
  <2>1. PICK u : u = [i \in 1..n |-> Len(recs[i].transitions)] OBVIOUS
  <2>2. PICK v : v = [i \in 1..n |-> rows[i].transitions] OBVIOUS
  <2>3. \A k \in 1..n : u[k] \in Int BY <1>8, <2>1 DEF RecordTells
  <2>4. \A k \in 1..n : v[k] = u[line[k]] BY <1>13, <1>14, <1>16, <2>1, <2>2
  <2>5. DOMAIN u = 1..n /\ DOMAIN v = 1..n BY <2>1, <2>2
  <2>6. SumFunction(v) = SumFunction(u) BY ONLY n \in Nat, <1>a, <2>3, <2>4, <2>5, SumShuffled
  <2>7. m.figures.transitionCount = SumFunction(u) BY <1>4, <1>8, <2>1 DEF Figures
  <2>8. Total(rows, "transitions") = SumFunction(v) BY <1>13, <2>2 DEF Total
  <2> QED BY <2>6, <2>7, <2>8
<1>17. ASSUME NEW k \in 1..n
       PROVE  /\ rows[k].period.to = m.scope.period.to
              /\ rows[k].period.from >= m.scope.period.from
              /\ format # "text/csv" =>
                    Recomputed(rows[k]) = [inStock |-> rows[k].inStock,
                      measured |-> rows[k].measured, unknown |-> rows[k].unknown]
  <2>1. rows[k].period = period BY <1>8, <1>13, <1>14 DEF RecordTells
  <2>2. period.to = scope.period.to /\ period.from >= scope.period.from
    <3>1. CutFrom(period, scope.period) /\ ScopeOK(scope) BY <1>4, <1>5 DEF ReadFrom
    <3>2. PICK a, b : a = period.from /\ b = scope.period.from OBVIOUS
    <3>3. a \in Nat /\ b \in Nat /\ b <= a BY <3>1, <3>2 DEF CutFrom, ScopeOK
    <3> QED BY <3>1, <3>2, <3>3 DEF CutFrom
  <2>3. format # "text/csv" =>
                    Recomputed(rows[k]) = [inStock |-> rows[k].inStock,
                      measured |-> rows[k].measured, unknown |-> rows[k].unknown]
    <3>1. PICK r : r = recs[line[k]] OBVIOUS
    <3>2. Recomputed(r) = [inStock |-> r.inStock, measured |-> r.measured, unknown |-> r.unknown]
      BY <1>8, <1>13, <3>1 DEF RecordTells
    <3>3. format # "text/csv" => rows[k] = r BY <1>14, <3>1
    <3> QED BY <3>2, <3>3
  <2> QED BY <1>5, <2>1, <2>2, <2>3
<1>18. m.figures.facingCount = n /\ m.figures.inStock = Total(recs, "inStock")
       /\ m.figures.measured = Total(recs, "measured")
  BY <1>4, <1>8 DEF Figures
<1> QED BY <1>1, <1>4, <1>10, <1>11, <1>13, <1>15, <1>16, <1>17, <1>18 DEF Sha256

----------------------------------------------------------------------------
(* A closed period.  What comes later changes nothing of it.               *)
\* The same positions keep the same elements.
LEMMA KeptAlike ==
    ASSUME NEW n \in Nat, NEW m \in Nat, n <= m, NEW s, NEW t, \A i \in 1..n : s[i] = t[i],
           NEW P \in SUBSET (1..n)
    PROVE  Selected(s, P) = Selected(t, P)
<1>1. PICK c : c = Cardinality(P) OBVIOUS
<1>2. IsFiniteSet(P)
  <2>1. IsFiniteSet(1..n) BY UpTo
  <2> QED BY <2>1, FS_Subset
<1>3. c \in Nat BY <1>1, <1>2, FS_CardinalityType
<1>4. PICK before : before = {p \in P \X P : p[1] < p[2]} OBVIOUS
<1>5. \A x, y \in P : <<x, y>> \in before <=> x < y BY <1>4
<1>6. InLine(P, before)
  <2>1. P \subseteq 1..n OBVIOUS
  <2>2. \A x \in P : x \in Int BY ONLY <2>1, n \in Nat
  <2> QED BY <1>5, <2>2 DEF InLine
<1>7. ASSUME NEW l, NEW r, Keeps(l, c, r, P) PROVE Lined(l, c, P, before)
  <2>1. /\ l \in [1..c -> P] /\ \A x \in P : \E k \in 1..c : l[k] = x
        /\ \A j, k \in 1..c : j < k => l[j] < l[k]
    BY <1>7 DEF Keeps, Bijection, Injection, Surjection
  <2>2. \A j, k \in 1..c : j < k => <<l[j], l[k]>> \in before BY <1>5, <2>1
  <2> QED BY <2>1, <2>2 DEF Lined
<1>8. PICK f : Keeps(f, c, s, P) BY <1>1, SelectedInOrder
<1>9. PICK g : Keeps(g, c, t, P) BY <1>1, SelectedInOrder
<1>10. Lined(f, c, P, before) BY <1>7, <1>8
<1>11. Lined(g, c, P, before) BY <1>7, <1>9
<1>12. f = g BY <1>2, <1>3, <1>6, <1>10, <1>11, LinesAgree
<1>13. \A k \in 1..c : f[k] \in 1..n BY <1>10 DEF Lined
<1>14. /\ Selected(s, P) = [k \in 1..c |-> s[f[k]]]
       /\ Selected(t, P) = [k \in 1..c |-> t[f[k]]]
  BY <1>8, <1>9, <1>12 DEF Keeps
<1> QED BY <1>13, <1>14

\* A history observed past the end of a window, and the same history later on.
LEMMA ClosedHistory ==
    ASSUME NEW h, NEW later, NEW n \in Nat, NEW m \in Nat, InTime(h, n), InTime(later, m),
           n <= m, h.initialState = later.initialState,
           \A i \in 1..n : h.events[i] = later.events[i],
           n = Len(h.events), h.events \in Seq(Event),
           NEW w, w.from \in Nat, w.to \in Nat, w.from < w.to, LastAt(h) >= w.to
    PROVE  TimelineFor(h, w) = TimelineFor(later, w)
<1>1. h.events # <<>>
  <2>1. h.events = <<>> => LastAt(h) = 0 BY DEF LastAt
  <2> QED BY <2>1
<1>2. n \in 1..n /\ LastAt(h) = h.events[n].at BY <1>1 DEF LastAt, Last
<1>3. ASSUME NEW i \in 1..m, i > n PROVE later.events[i].at >= w.to
  <2>1. n \in 1..m /\ n <= i BY <1>2, <1>3
  <2>2. later.events[n].at <= later.events[i].at BY <2>1 DEF InTime
  <2>3. PICK a, b, c : a = later.events[n].at /\ b = later.events[i].at /\ c = w.to OBVIOUS
  <2>4. a \in Int /\ b \in Int /\ c \in Int BY <2>1, <2>3 DEF InTime
  <2>5. a >= c BY <1>2, <2>3
  <2> QED BY <2>2, <2>3, <2>4, <2>5
<1>4. DOMAIN h.events = 1..n /\ DOMAIN later.events = 1..m BY DEF InTime
<1>5. StateAt(h, w.from) = StateAt(later, w.from)
  <2>1. PICK past : past = {i \in 1..n : h.events[i].at <= w.from} OBVIOUS
  <2>2. past = {i \in 1..m : later.events[i].at <= w.from}
    <3>1. ASSUME NEW i \in 1..m, later.events[i].at <= w.from PROVE i \in 1..n
      <4>1. PICK b, c, d : b = later.events[i].at /\ c = w.to /\ d = w.from OBVIOUS
      <4>2. b \in Int /\ c \in Int /\ d \in Int /\ b <= d /\ d < c BY <3>1, <4>1 DEF InTime
      <4>3. ~(b >= c) BY <4>2
      <4>4. ~(i > n) BY <1>3, <4>1, <4>3
      <4> QED BY <4>4
    <3>2. \A i \in 1..n : i \in 1..m OBVIOUS
    <3> QED BY <2>1, <3>1, <3>2
  <2>3. StateAt(h, w.from) = IF past = {} THEN h.initialState ELSE h.events[Max(past)].to
    BY <1>4, <2>1 DEF StateAt
  <2>4. StateAt(later, w.from) =
          IF past = {} THEN later.initialState ELSE later.events[Max(past)].to
    BY <1>4, <2>2 DEF StateAt
  <2>5. past # {} => Max(past) \in 1..n
    <3>1. past \in SUBSET (1..n) BY <2>1
    <3>2. past # {} => Max(past) \in past BY <3>1, LargestOf
    <3> QED BY <3>1, <3>2
  <2> QED BY <2>3, <2>4, <2>5
<1>6. EventsWithin(h, w) = EventsWithin(later, w)
  <2>1. PICK P : P = {i \in 1..n : InWindow(w, h.events[i].at)} OBVIOUS
  <2>2. P = {i \in 1..m : InWindow(w, later.events[i].at)}
    <3>1. ASSUME NEW i \in 1..m, InWindow(w, later.events[i].at) PROVE i \in 1..n
      <4>1. PICK b, c : b = later.events[i].at /\ c = w.to OBVIOUS
      <4>2. b \in Int /\ c \in Int /\ b < c BY <3>1, <4>1 DEF InTime, InWindow
      <4>3. ~(b >= c) BY <4>2
      <4>4. ~(i > n) BY <1>3, <4>1, <4>3
      <4> QED BY <4>4
    <3>2. \A i \in 1..n : i \in 1..m OBVIOUS
    <3> QED BY <2>1, <3>1, <3>2
  <2>3. P \in SUBSET (1..n) BY <2>1
  <2>4. Selected(h.events, P) = Selected(later.events, P)
    <3>1. PICK a, b : a = h.events /\ b = later.events OBVIOUS
    <3>2. \A i \in 1..n : a[i] = b[i] BY <3>1
    <3>3. Selected(a, P) = Selected(b, P)
      BY ONLY n \in Nat, m \in Nat, n <= m, <2>3, <3>2, KeptAlike
    <3> QED BY <3>1, <3>3
  <2>5. EventsWithin(h, w) = Selected(h.events, P) BY <1>4, <2>1 DEF EventsWithin
  <2>6. EventsWithin(later, w) = Selected(later.events, P) BY <1>4, <2>2 DEF EventsWithin
  <2> QED BY <2>4, <2>5, <2>6
<1> QED BY <1>5, <1>6 DEF TimelineFor

\* The figures of some facings, by facing.
FigureOf(v, hs, F, w, key) ==
    \A f \in F : v[f] = ComputeFacingAvailability(TimelineFor(hs[f], w), w)[key]

\* The figures of some facings are natural numbers.
LEMMA FiguresAreWhole ==
    ASSUME NEW hs, Timed(hs), NEW F \in SUBSET Facing, NEW w, w.from \in Int, w.to \in Int,
           w.from <= w.to, NEW key \in DOMAIN Counted, NEW v, FigureOf(v, hs, F, w, key),
           NEW f \in F
    PROVE  v[f] \in Nat /\ v[f] = Cardinality(Lived(hs[f], w, Counted[key]))
<1>1. PICK h : h = hs[f] OBVIOUS
<1>2. PICK n : n = Len(h.events) OBVIOUS
<1>3. InTime(h, n) /\ n \in Nat BY <1>1, <1>2, TimedFacing
<1>4. PICK x : x = ComputeFacingAvailability(TimelineFor(h, w), w)[key] OBVIOUS
<1>5. x \in Nat BY <1>3, <1>4, FiguresOfFacing
<1>6. x = Cardinality(Lived(h, w, Counted[key])) BY <1>3, <1>4, FiguresOfFacing
<1>7. v[f] = x BY <1>1, <1>4 DEF FigureOf
<1> QED BY <1>1, <1>5, <1>6, <1>7

\* A point of a report has the moments of its facings.
LEMMA PointAddsUp ==
    ASSUME NEW hs, Timed(hs), NEW F \in SUBSET Facing, IsFiniteSet(F), NEW w, w.from \in Int,
           w.to \in Int, w.from <= w.to, NEW key \in DOMAIN Counted,
           NEW v, FigureOf(v, hs, F, w, key)
    PROVE  IndexPointFor(hs, F, w)[key] = SumFunctionOnSet(v, F)
<1>1. PICK order : order = SetToSeq(F) OBVIOUS
<1>2. order \in ReadOrders(F) BY <1>1, ListedOnce
<1>3. PICK n : n = Cardinality(F) OBVIOUS
<1>4. n \in Nat /\ order \in Bijection(1..n, F) BY <1>2, <1>3, ReadOnce
<1>5. PICK D : D = 1..n OBVIOUS
<1>6. IsFiniteSet(D) /\ order \in Bijection(D, F) BY <1>4, <1>5, UpTo
<1>7. DOMAIN order = D /\ \A i \in D : order[i] \in F BY <1>6 DEF Bijection, Injection
<1>8. PICK timelines : timelines = [i \in DOMAIN order |-> TimelineFor(hs[order[i]], w)] OBVIOUS
<1>9. PICK u : u = [i \in D |-> v[order[i]]] OBVIOUS
<1>10. ASSUME NEW i \in DOMAIN timelines
       PROVE  u[i] = ComputeFacingAvailability(timelines[i], w)[key] /\ u[i] \in Int
  <2>1. i \in D /\ order[i] \in F BY <1>7, <1>8, <1>10
  <2>2. v[order[i]] \in Nat BY <2>1, FiguresAreWhole
  <2> QED BY <1>7, <1>8, <1>9, <2>1, <2>2 DEF FigureOf
<1>11. DOMAIN timelines = D BY <1>7, <1>8
<1>12. IsFiniteSet(DOMAIN timelines) BY <1>6, <1>11
<1>13. ComputeAvailabilityIndex(timelines, w)[key] = SumFunctionOnSet(u, DOMAIN timelines)
  <2>1. \A i \in DOMAIN timelines :
           u[i] = ComputeFacingAvailability(timelines[i], w)[key] /\ u[i] \in Int
    BY <1>10
  <2> QED BY <1>12, <2>1, IndexAddsUp
<1>14. SumFunctionOnSet(u, D) = SumFunctionOnSet(v, F)
  <2>1. Integral(v, F)
    <3>1. \A f \in F : v[f] \in Nat BY FiguresAreWhole
    <3> QED BY <3>1 DEF Integral
  <2>2. \A i \in D : u[i] = v[order[i]] BY <1>9
  <2> QED BY <1>6, <2>1, <2>2, SumRenamed
<1>15. IndexPointFor(hs, F, w)[key] = ComputeAvailabilityIndex(timelines, w)[key]
  BY <1>1, <1>8 DEF IndexPointFor
<1> QED BY <1>11, <1>13, <1>14, <1>15

\* By aisle, or by bucket, the figures come to those of the whole.
LEMMA AislesAddUp ==
    ASSUME NEW hs, Timed(hs), NEW F \in SUBSET Facing, IsFiniteSet(F), NEW w, w.from \in Int,
           w.to \in Int, w.from <= w.to, NEW key \in DOMAIN Counted,
           NEW v, FigureOf(v, hs, F, w, key),
           NEW points, points = AvailabilityIndexReport(hs, F, w, 1).breakdowns
    PROVE  SumFunction([a \in DOMAIN points |-> points[a][key]]) = SumFunctionOnSet(v, F)
<1>1. PICK K : K = {AisleOf[f] : f \in F} OBVIOUS
<1>2. PICK aisle : aisle = [f \in F |-> AisleOf[f]] OBVIOUS
<1>3. aisle \in Surjection(F, K) BY <1>1, <1>2 DEF Surjection
<1>4. IsFiniteSet(K) BY <1>3, FS_Surjection
<1>5. \A f \in F : aisle[f] \in K BY <1>1, <1>2
<1>6. points = [a \in K |-> IndexPointFor(hs, {f \in F : AisleOf[f] = a}, w)]
  BY <1>1 DEF AvailabilityIndexReport
<1>7. PICK u : u = [a \in K |-> points[a][key]] OBVIOUS
<1>8. ASSUME NEW a \in K PROVE u[a] = SumFunctionOnSet(v, Placed(F, aisle, a))
  <2>1. PICK S : S = {f \in F : AisleOf[f] = a} OBVIOUS
  <2>2. S = Placed(F, aisle, a) BY <1>2, <2>1 DEF Placed
  <2>3. S \in SUBSET Facing /\ IsFiniteSet(S)
    <3>1. S \subseteq F BY <2>1
    <3> QED BY <3>1, FS_Subset
  <2>4. FigureOf(v, hs, S, w, key) BY <2>1 DEF FigureOf
  <2>5. IndexPointFor(hs, S, w)[key] = SumFunctionOnSet(v, S) BY <2>3, <2>4, PointAddsUp
  <2> QED BY <1>6, <1>7, <2>1, <2>2, <2>5
<1>9. SumFunctionOnSet(u, K) = SumFunctionOnSet(v, F)
  <2>1. Integral(v, F)
    <3>1. \A f \in F : v[f] \in Nat BY FiguresAreWhole
    <3> QED BY <3>1 DEF Integral
  <2>2. \A a \in K : u[a] = SumFunctionOnSet(v, Placed(F, aisle, a)) BY <1>8
  <2> QED BY <1>4, <1>5, <2>1, <2>2, SumOfParts
<1>10. DOMAIN points = K /\ DOMAIN u = K BY <1>6, <1>7
<1> QED BY <1>7, <1>9, <1>10 DEF SumFunction

\* With a step of one instant there is a bucket for each.
LEMMA InstantBuckets ==
    ASSUME NEW w, w.from \in Int, w.to \in Int, w.from < w.to, NEW n, n = w.to - w.from
    PROVE  /\ n \in Nat /\ DOMAIN BucketsFor(w, 1) = 1..n
           /\ \A i \in 1..n : BucketsFor(w, 1)[i] = Window(w.from + i - 1, w.from + i)
<1>1. PICK a, b : a = w.from /\ b = w.to OBVIOUS
<1>2. a \in Int /\ b \in Int /\ a < b /\ n = b - a BY <1>1
<1>3. n \in Nat /\ n # 0 /\ (n + 1 - 1) \div 1 = n BY <1>2
<1>4. Duration(w) = n BY <1>1, <1>2 DEF Duration
<1>5. BucketsFor(w, 1) = [i \in 1..((n + 1 - 1) \div 1) |->
                            Window(a + (i - 1) * 1, Min({a + i * 1, b}))]
  BY <1>1, <1>3, <1>4 DEF BucketsFor
<1>6. BucketsFor(w, 1) = [i \in 1..n |-> Window(a + (i - 1) * 1, Min({a + i * 1, b}))]
  BY <1>3, <1>5
<1>7. ASSUME NEW i \in 1..n
      PROVE  Window(a + (i - 1) * 1, Min({a + i * 1, b})) = Window(a + i - 1, a + i)
  <2>1. PICK c : c = a + i * 1 OBVIOUS
  <2>2. c = a + i /\ c \in Int /\ c <= b BY <1>2, <2>1
  <2>3. Min({c, b}) = c BY <1>2, <2>2, SmallerOf
  <2>4. a + (i - 1) * 1 = a + i - 1 BY <1>2
  <2> QED BY <2>1, <2>2, <2>3, <2>4
<1> QED BY <1>1, <1>3, <1>6, <1>7

\* The buckets of a report have the moments of its window between them.
LEMMA BucketsAddUp ==
    ASSUME NEW hs, Timed(hs), NEW F \in SUBSET Facing, IsFiniteSet(F), NEW w, w.from \in Int,
           w.to \in Int, w.from < w.to, NEW key \in DOMAIN Counted,
           NEW v, FigureOf(v, hs, F, w, key),
           NEW points, points = AvailabilityIndexReport(hs, F, w, 1).series
    PROVE  SumFunction([i \in DOMAIN points |-> points[i][key]]) = SumFunctionOnSet(v, F)
<1>1. PICK states : states = Counted[key] OBVIOUS
<1>2. PICK a, b : a = w.from /\ b = w.to OBVIOUS
<1>3. PICK n : n = b - a OBVIOUS
<1>4. a \in Int /\ b \in Int /\ a < b /\ n \in Nat BY <1>2, <1>3
<1>5. /\ DOMAIN BucketsFor(w, 1) = 1..n
      /\ \A i \in 1..n : BucketsFor(w, 1)[i] = Window(a + i - 1, a + i)
  BY <1>2, <1>3, InstantBuckets
<1>6. PICK D : D = 1..n OBVIOUS
<1>7. IsFiniteSet(D) BY <1>4, <1>6, UpTo
<1>8. points = [i \in D |-> IndexPointFor(hs, F, Window(a + i - 1, a + i))]
  BY <1>5, <1>6 DEF AvailabilityIndexReport
<1>9. PICK S : S = Moments(hs, F, w, states) OBVIOUS
<1>10. SumFunctionOnSet(v, F) = Cardinality(S)
  <2>1. \A f \in F : v[f] = Cardinality(Lived(hs[f], w, states))
    BY <1>1, FiguresAreWhole
  <2>2. SumFunctionOnSet(v, F) = Cardinality(Moments(hs, F, w, states))
    BY <2>1, MomentsByFacing
  <2> QED BY <1>9, <2>2
<1>11. IsFiniteSet(S)
  <2>1. PICK T : T = a..(b - 1) OBVIOUS
  <2>2. IsFiniteSet(T)
    <3>1. a \in Int /\ b - 1 \in Int BY <1>4
    <3> QED BY <2>1, <3>1, FS_Interval
  <2>3. IsFiniteSet(F \X T) BY <2>2, FS_Product
  <2>4. S \subseteq F \X T BY <1>2, <1>9, <2>1 DEF Moments
  <2> QED BY <2>3, <2>4, FS_Subset
<1>12. PICK part : part = [x \in S |-> x[2] - a + 1] OBVIOUS
<1>13. \A x \in S : x[2] \in Int /\ a <= x[2] /\ x[2] < b /\ part[x] = x[2] - a + 1
  BY <1>2, <1>4, <1>9, <1>12 DEF Moments
<1>14. \A x \in S : part[x] \in D BY <1>3, <1>4, <1>6, <1>13
<1>15. PICK u : u = [i \in D |-> points[i][key]] OBVIOUS
<1>16. ASSUME NEW i \in D PROVE u[i] = Cardinality(Placed(S, part, i))
  <2>1. PICK bucket : bucket = Window(a + i - 1, a + i) OBVIOUS
  <2>2. i \in Int /\ 1 <= i /\ i <= n BY <1>4, <1>6
  <2>3. bucket.from = a + i - 1 /\ bucket.to = a + i BY <2>1 DEF Window
  <2>4. bucket.from \in Int /\ bucket.to \in Int /\ bucket.from <= bucket.to
    BY <1>4, <2>2, <2>3
  <2>5. PICK x : x = [f \in F |-> ComputeFacingAvailability(TimelineFor(hs[f], bucket), bucket)[key]]
    OBVIOUS
  <2>6. FigureOf(x, hs, F, bucket, key) BY <2>5 DEF FigureOf
  <2>7. IndexPointFor(hs, F, bucket)[key] = SumFunctionOnSet(x, F) BY <2>4, <2>6, PointAddsUp
  <2>8. \A f \in F : x[f] = Cardinality(Lived(hs[f], bucket, states))
    BY <1>1, <2>4, <2>6, FiguresAreWhole
  <2>9. SumFunctionOnSet(x, F) = Cardinality(Moments(hs, F, bucket, states))
    BY <2>4, <2>8, MomentsByFacing
  <2>10. Moments(hs, F, bucket, states) = Placed(S, part, i)
    <3>1. ASSUME NEW y \in Moments(hs, F, bucket, states) PROVE y \in Placed(S, part, i)
      <4>1. y \in F \X ((a + i - 1)..(a + i - 1)) /\ StateAt(hs[y[1]], y[2]) \in states
        <5>1. bucket.to - 1 = a + i - 1 BY <1>4, <2>2, <2>3
        <5> QED BY <2>3, <3>1, <5>1 DEF Moments
      <4>2. y = <<y[1], y[2]>> /\ y[1] \in F /\ y[2] = a + i - 1 BY <1>4, <2>2, <4>1
      <4>3. y[2] \in a..(b - 1) BY <1>3, <1>4, <2>2, <4>2
      <4>4. y \in S BY <1>2, <1>9, <4>1, <4>2, <4>3 DEF Moments
      <4>5. part[y] = i
        <5>1. part[y] = y[2] - a + 1 BY <1>13, <4>4
        <5> QED BY <1>4, <2>2, <4>2, <5>1
      <4> QED BY <4>4, <4>5 DEF Placed
    <3>2. ASSUME NEW y \in Placed(S, part, i) PROVE y \in Moments(hs, F, bucket, states)
      <4>1. y \in S /\ part[y] = i BY <3>2 DEF Placed
      <4>2. y[2] \in Int /\ y[2] - a + 1 = i BY <1>13, <4>1
      <4>3. y[2] = a + i - 1 BY <1>4, <2>2, <4>2
      <4>4. y = <<y[1], y[2]>> /\ y[1] \in F /\ StateAt(hs[y[1]], y[2]) \in states
        BY <1>9, <4>1 DEF Moments
      <4>5. y[2] \in bucket.from..(bucket.to - 1) BY <1>4, <2>2, <2>3, <4>3
      <4> QED BY <4>4, <4>5 DEF Moments
    <3> QED BY <3>1, <3>2
  <2> QED BY <1>8, <1>15, <2>1, <2>7, <2>9, <2>10
<1>17. SumFunctionOnSet(u, D) = Cardinality(S)
  <2>1. \A i \in D : u[i] = Cardinality(Placed(S, part, i)) BY <1>16
  <2> QED BY <1>7, <1>11, <1>14, <2>1, CountByParts
<1>18. DOMAIN points = D /\ DOMAIN u = D BY <1>8, <1>15
<1> QED BY <1>10, <1>15, <1>17, <1>18 DEF SumFunction

\* One facing is recorded, and its timeline read, the same from two histories.
ReadsAlike(f, a, lost, b, gone, w) ==
    /\ AuditRecordFor(f, a, w, lost) = AuditRecordFor(f, b, w, gone)
    /\ TimelineFor(a, w) = TimelineFor(b, w)

\* A record made before is the record made now, once the period is closed and while
\* everybody behind its signals is known.
LEMMA RecordsStay ==
    ASSUME NEW hs, Timed(hs), NEW now, Timed(now), Behind(hs, now), NEW f \in Facing,
           NEW w, w.from \in Nat, w.to \in Nat, w.from < w.to, LastAt(hs[f]) >= w.to,
           NEW gone, \A i \in DOMAIN now[f].events : now[f].events[i].signal \notin gone,
           NEW lost, lost \subseteq gone
    PROVE  ReadsAlike(f, hs[f], lost, now[f], gone, w)
<1>1. PICK h, later : h = hs[f] /\ later = now[f] OBVIOUS
<1>2. PICK n, m : n = Len(h.events) /\ m = Len(later.events) OBVIOUS
<1>3. InTime(h, n) /\ n \in Nat /\ h.events \in Seq(Event) BY <1>1, <1>2, TimedFacing
<1>4. InTime(later, m) /\ m \in Nat BY <1>1, <1>2, TimedFacing
<1>5. n <= m /\ h.initialState = later.initialState
      /\ \A i \in 1..n : h.events[i] = later.events[i]
  BY <1>1, <1>2 DEF Behind
<1>6. TimelineFor(h, w) = TimelineFor(later, w)
  <2>1. LastAt(h) >= w.to BY <1>1
  <2>2. n <= m BY <1>5
  <2>3. h.initialState = later.initialState BY <1>5
  <2>4. \A i \in 1..n : h.events[i] = later.events[i] BY <1>5
  <2>5. n = Len(h.events) BY <1>2
  <2> QED BY <1>3, <1>4, <2>1, <2>2, <2>3, <2>4, <2>5, ClosedHistory
<1>7. /\ EventsWithin(h, w) = EventsWithin(later, w)
      /\ StateAt(h, w.from) = StateAt(later, w.from)
  BY <1>6 DEF TimelineFor
<1>8. PICK events : events = EventsWithin(later, w) OBVIOUS
<1>9. PICK line, c : WithinAt(line, c, later, m, w) BY <1>4, WithinInOrder
<1>10. ASSUME NEW i \in DOMAIN events
       PROVE  events[i].signal \notin lost /\ events[i].signal \notin gone
  <2>1. DOMAIN events = 1..c /\ events[i] = later.events[line[i]] /\ line[i] \in 1..m
    BY <1>8, <1>9, <1>10 DEF WithinAt
  <2>2. line[i] \in DOMAIN later.events BY <1>4, <2>1 DEF InTime
  <2> QED BY <1>1, <2>1, <2>2
<1> DEFINE Transitions(unknown) == [i \in DOMAIN events |->
             [at |-> events[i].at, to |-> events[i].to, signal |-> events[i].signal,
              traced |-> events[i].signal \notin unknown]]
<1>11. Transitions(lost) = Transitions(gone) BY <1>10
<1>12. PICK a : a = ComputeFacingAvailability(TimelineFor(later, w), w) OBVIOUS
<1>13. AuditRecordFor(f, h, w, lost) =
         [facing |-> f, period |-> w, stateAtPeriodStart |-> StateAt(later, w.from),
          transitions |-> Transitions(lost),
          inStock |-> a.inStock, measured |-> a.measured, unknown |-> a.unknown]
  BY <1>6, <1>7, <1>8, <1>12 DEF AuditRecordFor
<1>14. AuditRecordFor(f, later, w, gone) =
         [facing |-> f, period |-> w, stateAtPeriodStart |-> StateAt(later, w.from),
          transitions |-> Transitions(gone),
          inStock |-> a.inStock, measured |-> a.measured, unknown |-> a.unknown]
  BY <1>8, <1>12 DEF AuditRecordFor
<1> HIDE DEF Transitions
<1> QED BY <1>1, <1>6, <1>11, <1>13, <1>14 DEF ReadsAlike

\* What holds of every artifact makes a closed period seal the same again.
LEMMA SealsAlike ==
    ASSUME StoreInv, ArtifactInv
    PROVE  ClosedPeriodsSealAlike
<1> DEFINE SignalsIn(m) ==
             {e.signal : e \in UNION {ToSet(histories[f].events) : f \in m.scope.facings}}
           ReportOf(m) == AvailabilityIndexReport(histories, m.scope.facings, m.scope.period, 1)
           SumsTo(points, key) == SumFunction([i \in DOMAIN points |-> points[i][key]])
<1> SUFFICES ASSUME NEW id \in DOMAIN manifests, NEW m, m = manifests[id],
                    m.closed, SignalsIn(m) \cap forgotten = {},
                    \A i \in DOMAIN bodies[id].rows : bodies[id].rows[i].period = m.scope.period
             PROVE  /\ \A order \in ReadOrders(m.scope.facings) :
                          MintArtifactId(m.scope, Sha256(RenderArtifactBody(
                            AuditRecords(order, histories, m.scope.period, forgotten), m.format))) = id
                    /\ \A key \in {"inStock", "measured"} :
                          /\ ReportOf(m).overall[key] = m.figures[key]
                          /\ SumsTo(ReportOf(m).series, key) = m.figures[key]
                          /\ SumsTo(ReportOf(m).breakdowns, key) = m.figures[key]
  BY DEF ClosedPeriodsSealAlike
<1>1. PICK order, hs, period, lost : MadeFrom(m, id, order, hs, period, lost, histories, forgotten)
  BY DEF ArtifactInv
<1>2. PICK recs : recs = AuditRecords(order, hs, period, lost) OBVIOUS
<1>3. PICK scope, F, w : scope = m.scope /\ F = scope.facings /\ w = scope.period OBVIOUS
<1>4. /\ bodies[id] = id /\ id = RenderArtifactBody(recs, m.format)
      /\ m.figures = Figures(recs, w)
      /\ ScopeOK(scope) /\ ReadFrom(scope, order, hs, period, histories)
      /\ lost \subseteq forgotten
      /\ period.from < period.to /\ \A f \in F : LastAt(hs[f]) >= period.to
  BY <1>1, <1>2, <1>3 DEF ArtifactInv, MadeFrom
<1>5. PICK n \in Nat : \E h :
             /\ RecordsFrom(recs, h, n, F, hs, period)
             /\ recs = [k \in 1..n |-> AuditRecordFor(h[k], hs[h[k]], period, lost)]
  BY <1>2, <1>3, <1>4, RecordsTell
<1>6. PICK g : /\ RecordsFrom(recs, g, n, F, hs, period)
               /\ recs = [k \in 1..n |-> AuditRecordFor(g[k], hs[g[k]], period, lost)]
  BY <1>5
<1>7. /\ F \in SUBSET Facing /\ IsFiniteSet(F) /\ w.from \in Nat /\ w.to \in Nat
      /\ Timed(hs) /\ Behind(hs, histories) /\ Timed(histories)
      /\ period.from \in Nat /\ period.to = w.to /\ w.from <= period.from
  BY <1>3, <1>4 DEF ScopeOK, ReadFrom, CutFrom, StoreInv
<1>8. w.from < w.to
  <2>1. PICK a, b, c : a = w.from /\ b = w.to /\ c = period.from OBVIOUS
  <2>2. a \in Nat /\ b \in Nat /\ c \in Nat /\ a <= c /\ c < b BY <1>4, <1>7, <2>1
  <2> QED BY <2>1, <2>2
<1>9. /\ DOMAIN recs = 1..n /\ g \in Bijection(1..n, F) /\ Lined(g, n, F, ById(F))
      /\ \A k \in 1..n : RecordTells(recs[k], g[k], hs[g[k]], period) /\ g[k] \in F
  BY <1>6 DEF RecordsFrom, Bijection, Injection
<1>10. n # 0 => period = w
  <2> SUFFICES ASSUME n # 0 PROVE period = w OBVIOUS
  <2>1. \A k \in 1..n : recs[k].facing \in Nat
    BY <1>7, <1>9, ReportingAssumption DEF RecordTells
  <2>2. PICK rows, format : rows = bodies[id].rows /\ format = m.format OBVIOUS
  <2>3. \E l : RowsOf(RenderArtifactBody(recs, format).rows, l, n, recs, format)
    BY <1>9, <2>1, BodyHasTheRecords
  <2>4. PICK line : RowsOf(rows, line, n, recs, format) BY <1>4, <2>2, <2>3
  <2>5. 1 \in 1..n OBVIOUS
  <2>6. 1 \in DOMAIN rows /\ line[1] \in 1..n BY <2>4, <2>5 DEF RowsOf, Bijection, Injection
  <2>7. PICK r : r = recs[line[1]] OBVIOUS
  <2>8. rows[1] = IF format # "text/csv" THEN r ELSE [r EXCEPT !.transitions = Len(r.transitions)]
    BY <2>4, <2>5, <2>7 DEF RowsOf
  <2>9. r.period = period /\ "period" \in DOMAIN r BY <1>9, <2>6, <2>7 DEF RecordTells
  <2>10. rows[1].period = period BY <2>8, <2>9
  <2> QED BY <1>3, <2>2, <2>6, <2>10
<1>11. ASSUME NEW f \in F
       PROVE  /\ AuditRecordFor(f, hs[f], period, lost)
                   = AuditRecordFor(f, histories[f], w, forgotten)
              /\ TimelineFor(hs[f], period) = TimelineFor(histories[f], w)
              /\ period = w
  <2>1. n # 0 BY <1>9 DEF Bijection, Surjection
  <2>2. period = w BY <1>10, <2>1
  <2>3. f \in Facing /\ LastAt(hs[f]) >= w.to BY <1>4, <1>7
  <2>4. \A i \in DOMAIN histories[f].events : histories[f].events[i].signal \notin forgotten
    <3> SUFFICES ASSUME NEW i \in DOMAIN histories[f].events
                 PROVE  histories[f].events[i].signal \in SignalsIn(m)
      OBVIOUS
    <3>1. histories[f].events[i] \in ToSet(histories[f].events) BY DEF ToSet
    <3> QED BY <1>3, <3>1
  <2> HIDE DEF SignalsIn
  <2>5. ReadsAlike(f, hs[f], lost, histories[f], forgotten, w)
    BY <1>4, <1>7, <1>8, <2>3, <2>4, RecordsStay
  <2> QED BY <2>2, <2>5 DEF ReadsAlike
<1>12. ASSUME NEW other \in ReadOrders(F)
       PROVE  AuditRecords(other, histories, w, forgotten) = recs
  <2>1. PICK k \in Nat : \E h :
           ReadById(AuditRecords(other, histories, w, forgotten), h, k, F, histories, w, forgotten)
    BY <1>7, <1>12, RecordsById
  <2>1a. PICK h :
           ReadById(AuditRecords(other, histories, w, forgotten), h, k, F, histories, w, forgotten)
    BY <2>1
  <2>2. /\ Lined(h, k, F, ById(F)) /\ h \in Bijection(1..k, F)
        /\ AuditRecords(other, histories, w, forgotten) =
             [i \in 1..k |-> AuditRecordFor(h[i], histories[h[i]], w, forgotten)]
    BY <2>1a DEF ReadById
  <2>3. PICK before : before = ById(F) OBVIOUS
  <2>4. InLine(F, before) BY <1>7, <2>3, IdsInLine
  <2>5. Lined(h, k, F, before) /\ Lined(g, n, F, before) BY <1>9, <2>2, <2>3
  <2>6. n = k /\ g = h BY <1>7, <2>4, <2>5, LinesAgree
  <2>7. \A i \in 1..n : AuditRecordFor(g[i], histories[g[i]], w, forgotten)
                          = AuditRecordFor(g[i], hs[g[i]], period, lost)
    BY <1>9, <1>11
  <2> QED BY <1>6, <2>2, <2>6, <2>7
<1>13. \A other \in ReadOrders(m.scope.facings) :
          MintArtifactId(m.scope, Sha256(RenderArtifactBody(
            AuditRecords(other, histories, m.scope.period, forgotten), m.format))) = id
  BY <1>3, <1>4, <1>12 DEF MintArtifactId, Sha256
<1>14. ASSUME NEW key \in {"inStock", "measured"}
       PROVE  /\ ReportOf(m).overall[key] = m.figures[key]
              /\ SumsTo(ReportOf(m).series, key) = m.figures[key]
              /\ SumsTo(ReportOf(m).breakdowns, key) = m.figures[key]
  <2>1. key \in DOMAIN Counted BY DEF Counted
  <2>2. PICK v : v = [f \in F |-> ComputeFacingAvailability(TimelineFor(histories[f], w), w)[key]]
    OBVIOUS
  <2>3. FigureOf(v, histories, F, w, key) BY <2>2 DEF FigureOf
  <2>4. w.from \in Int /\ w.to \in Int /\ w.from <= w.to
    <3>1. PICK a, b : a = w.from /\ b = w.to OBVIOUS
    <3>2. a \in Nat /\ b \in Nat /\ a < b BY <1>7, <1>8, <3>1
    <3> QED BY <3>1, <3>2
  <2>5. m.figures[key] = SumFunctionOnSet(v, F)
    <3>1. PICK D : D = 1..n OBVIOUS
    <3>2. IsFiniteSet(D) /\ g \in Bijection(D, F) BY <1>9, <3>1, UpTo
    <3>3. PICK u : u = [k \in D |-> recs[k][key]] OBVIOUS
    <3>4. \A k \in D : u[k] = v[g[k]]
      <4> SUFFICES ASSUME NEW k \in 1..n PROVE u[k] = v[g[k]] BY <3>1
      <4>1. g[k] \in F BY <1>9
      <4>2. u[k] = ComputeFacingAvailability(TimelineFor(hs[g[k]], period), period)[key]
        BY <1>9, <2>1, <3>1, <3>3 DEF RecordTells
      <4>3. TimelineFor(hs[g[k]], period) = TimelineFor(histories[g[k]], w) /\ period = w
        BY <1>11, <4>1
      <4> QED BY <2>2, <4>1, <4>2, <4>3
    <3>5. Integral(v, F)
      <4>1. \A f \in F : v[f] \in Nat BY <1>7, <2>1, <2>3, <2>4, FiguresAreWhole
      <4> QED BY <4>1 DEF Integral
    <3>6. SumFunctionOnSet(u, D) = SumFunctionOnSet(v, F)
      BY <1>7, <3>2, <3>4, <3>5, SumRenamed
    <3>7. m.figures[key] = SumFunction(u)
      <4>1. u = [i \in DOMAIN recs |-> recs[i][key]] BY <1>9, <3>1, <3>3
      <4>2. Total(recs, key) = SumFunction(u) BY <4>1 DEF Total
      <4>3. m.figures[key] = Total(recs, key) BY <1>4 DEF Figures
      <4> QED BY <4>2, <4>3
    <3>8. DOMAIN u = D BY <3>3
    <3> QED BY <3>6, <3>7, <3>8 DEF SumFunction
  <2>6. ReportOf(m).overall[key] = SumFunctionOnSet(v, F)
    <3>1. IndexPointFor(histories, F, w)[key] = SumFunctionOnSet(v, F)
      BY <1>7, <2>1, <2>3, <2>4, PointAddsUp
    <3> QED BY <1>3, <3>1 DEF AvailabilityIndexReport
  <2>7. SumsTo(ReportOf(m).series, key) = SumFunctionOnSet(v, F)
    <3>1. PICK points : points = ReportOf(m).series OBVIOUS
    <3>2. points = AvailabilityIndexReport(histories, F, w, 1).series BY <1>3, <3>1
    <3>3. SumFunction([i \in DOMAIN points |-> points[i][key]]) = SumFunctionOnSet(v, F)
      BY <1>7, <1>8, <2>1, <2>3, <2>4, <3>2, BucketsAddUp
    <3> HIDE DEF ReportOf
    <3> QED BY <3>1, <3>3
  <2>8. SumsTo(ReportOf(m).breakdowns, key) = SumFunctionOnSet(v, F)
    <3>1. PICK points : points = ReportOf(m).breakdowns OBVIOUS
    <3>2. points = AvailabilityIndexReport(histories, F, w, 1).breakdowns BY <1>3, <3>1
    <3>3. SumFunction([i \in DOMAIN points |-> points[i][key]]) = SumFunctionOnSet(v, F)
      BY <1>7, <2>1, <2>3, <2>4, <3>2, AislesAddUp
    <3> HIDE DEF ReportOf
    <3> QED BY <3>1, <3>3
  <2> HIDE DEF ReportOf, SumsTo
  <2> QED BY <2>5, <2>6, <2>7, <2>8
<1> QED BY <1>13, <1>14

----------------------------------------------------------------------------
(* Listings.  What orders the rows of a report leaves no two of them level. *)
\* The pairs whose first goes first; of two that are level, the lower id does.
TiesById(D, above) ==
    {p \in D \X D : p \in above \/ (<<p[2], p[1]>> \notin above /\ p[1] < p[2])}

\* A ranking whose ties go by id sets its members in a line.
LEMMA TiesInLine ==
    ASSUME NEW D, \A x \in D : x \in Int, NEW above, Ranks(D, above)
    PROVE  InLine(D, TiesById(D, above))
<1> DEFINE T == TiesById(D, above)
<1>1. \A x, y \in D : <<x, y>> \in T <=>
        (<<x, y>> \in above \/ (<<y, x>> \notin above /\ x < y))
  BY DEF TiesById
<1> HIDE DEF T
<1>2. \A x, y \in D : x # y => <<x, y>> \in T \/ <<y, x>> \in T BY <1>1
<1>3. \A x, y \in D : <<x, y>> \in T => <<y, x>> \notin T BY <1>1 DEF Ranks
<1>4. ASSUME NEW x \in D, NEW y \in D, NEW z \in D, <<x, y>> \in T, <<y, z>> \in T
      PROVE  <<x, z>> \in T
  <2>1. <<y, x>> \notin above /\ <<z, y>> \notin above BY <1>1, <1>4 DEF Ranks
  <2>2. <<z, x>> \notin above BY <2>1 DEF Ranks
  <2>3. CASE <<x, y>> \in above
    <3>1. <<x, z>> \in above \/ <<z, y>> \in above BY <2>3 DEF Ranks
    <3> QED BY <3>1, <2>1, <1>1
  <2>4. CASE <<y, z>> \in above
    <3>1. <<y, x>> \in above \/ <<x, z>> \in above BY <2>4 DEF Ranks
    <3> QED BY <3>1, <2>1, <1>1
  <2>5. CASE x < y /\ y < z
    <3>1. x < z BY <2>5
    <3> QED BY <3>1, <2>2, <1>1
  <2> QED BY <1>1, <1>4, <2>3, <2>4, <2>5
<1> QED BY <1>2, <1>3, <1>4 DEF InLine, T

\* Fractions over positive denominators, compared by crossing.
LEMMA CrossedFractions ==
    ASSUME NEW a \in Nat, NEW p \in Nat, p # 0, NEW b \in Nat, NEW q \in Nat, q # 0,
           NEW c \in Nat, NEW r \in Nat, r # 0, a * q <= b * p, b * r <= c * q
    PROVE  a * r <= c * p
<1>1. (a * q) * r <= (b * p) * r
  <2>1. PICK x, y : x = a * q /\ y = b * p OBVIOUS
  <2>2. x \in Nat /\ y \in Nat /\ x <= y BY <2>1
  <2>3. x * r <= y * r BY <2>2
  <2> QED BY <2>1, <2>3
<1>2. (b * r) * p <= (c * q) * p
  <2>1. PICK x, y : x = b * r /\ y = c * q OBVIOUS
  <2>2. x \in Nat /\ y \in Nat /\ x <= y BY <2>1
  <2>3. x * p <= y * p BY <2>2
  <2> QED BY <2>1, <2>3
<1>3. (a * r) * q = (a * q) * r /\ (b * p) * r = (b * r) * p /\ (c * q) * p = (c * p) * q
  OBVIOUS
<1>4. PICK x, y : x = a * r /\ y = c * p OBVIOUS
<1>5. x \in Nat /\ y \in Nat BY <1>4
<1>6. x * q <= y * q
  <2>1. PICK i, j, k : i = (a * q) * r /\ j = (b * p) * r /\ k = (c * q) * p OBVIOUS
  <2>2. i \in Int /\ j \in Int /\ k \in Int BY <2>1
  <2>3. i <= j /\ j <= k BY <1>1, <1>2, <1>3, <2>1
  <2>4. i <= k BY <2>2, <2>3
  <2> QED BY <1>3, <1>4, <2>1, <2>4
<1>7. x <= y
  <2>1. SUFFICES ASSUME y + 1 <= x PROVE FALSE BY <1>5
  <2>2. (y + 1) * q <= x * q BY <1>5, <2>1
  <2>3. (y + 1) * q = y * q + q BY <1>5
  <2>4. PICK i, j : i = x * q /\ j = y * q OBVIOUS
  <2>5. i \in Nat /\ j \in Nat /\ i <= j /\ j + q <= i BY <1>5, <1>6, <2>2, <2>3, <2>4
  <2> QED BY <2>5
<1> QED BY <1>4, <1>7

\* The figures of a row that a report may be sorted by.
Sortable(row) == row.inStock \in Nat /\ row.measured \in Nat /\ row.gapCount \in Nat

AboveOf(D, rows, sort) == {p \in D \X D : Above(rows[p[1]], rows[p[2]], sort)}

\* The ratio that listings sort by ranks facings.
LEMMA IndexRanks ==
    ASSUME NEW D, NEW rows, \A x \in D : Sortable(rows[x]), NEW sort \in {"index_asc", "index_desc"}
    PROVE  Ranks(D, AboveOf(D, rows, sort))
<1> DEFINE i(x) == rows[x].inStock
           m(x) == rows[x].measured
<1>1. \A x \in D : i(x) \in Nat /\ m(x) \in Nat BY DEF Sortable
<1>2. ASSUME NEW x \in D, NEW y \in D
      PROVE  <<x, y>> \in AboveOf(D, rows, sort) <=>
               /\ m(x) # 0
               /\ m(y) = 0 \/ (IF sort = "index_asc" THEN i(x) * m(y) < i(y) * m(x)
                                                     ELSE i(y) * m(x) < i(x) * m(y))
  <2>1. PICK u, v : u = i(x) * m(y) /\ v = i(y) * m(x) OBVIOUS
  <2>2. u \in Int /\ v \in Int BY <1>1, <2>1
  <2>3. <<x, y>> \in AboveOf(D, rows, sort) <=> Above(rows[x], rows[y], sort) BY DEF AboveOf
  <2>4. Above(rows[x], rows[y], sort) <=>
          IF sort = "index_asc"
          THEN IF m(x) # 0 /\ m(y) # 0 THEN u - v < 0 ELSE m(x) # 0 /\ m(y) = 0
          ELSE IF m(x) # 0 /\ m(y) # 0 THEN u - v > 0 ELSE m(x) # 0 /\ m(y) = 0
    BY <2>1 DEF Above
  <2>5. (u - v < 0 <=> u < v) /\ (u - v > 0 <=> v < u) BY <2>2
  <2> QED BY <2>1, <2>3, <2>4, <2>5
<1> HIDE DEF i, m
<1>3. ASSUME NEW x \in D, NEW y \in D, <<x, y>> \in AboveOf(D, rows, sort)
      PROVE  <<y, x>> \notin AboveOf(D, rows, sort)
  <2>1. PICK u, v : u = i(x) * m(y) /\ v = i(y) * m(x) OBVIOUS
  <2>2. u \in Int /\ v \in Int BY <1>1, <2>1
  <2>3. ~(u < v /\ v < u) BY <2>2
  <2> QED BY <1>2, <1>3, <2>1, <2>3
<1>4. ASSUME NEW x \in D, NEW y \in D, NEW z \in D, <<x, z>> \in AboveOf(D, rows, sort),
             <<x, y>> \notin AboveOf(D, rows, sort), <<y, z>> \notin AboveOf(D, rows, sort)
      PROVE  FALSE
  <2>1. m(x) # 0 BY <1>2, <1>4
  <2>2. m(y) # 0 BY <1>2, <1>4, <2>1
  <2>3. m(z) # 0 BY <1>2, <1>4, <2>2
  <2>4. PICK a, p, b, q, c, r : /\ a = i(x) /\ p = m(x) /\ b = i(y) /\ q = m(y)
                                /\ c = i(z) /\ r = m(z)
    OBVIOUS
  <2>5. /\ a \in Nat /\ b \in Nat /\ c \in Nat /\ p \in Nat /\ q \in Nat /\ r \in Nat
        /\ p # 0 /\ q # 0 /\ r # 0
    BY <1>1, <2>1, <2>2, <2>3, <2>4
  <2>6. /\ a * q \in Int /\ b * p \in Int /\ b * r \in Int /\ c * q \in Int
        /\ a * r \in Int /\ c * p \in Int
    BY <2>5
  <2>7. CASE sort = "index_asc"
    <3>1. a * r < c * p /\ ~(a * q < b * p) /\ ~(b * r < c * q)
      BY <1>2, <1>4, <2>1, <2>2, <2>3, <2>4, <2>7
    <3>2. c * q <= b * r /\ b * p <= a * q BY <2>6, <3>1
    <3>3. c * p <= a * r BY <2>5, <3>2, CrossedFractions
    <3> QED BY <2>6, <3>1, <3>3
  <2>8. CASE sort = "index_desc"
    <3>1. c * p < a * r /\ ~(b * p < a * q) /\ ~(c * q < b * r)
      BY <1>2, <1>4, <2>1, <2>2, <2>3, <2>4, <2>8
    <3>2. a * q <= b * p /\ b * r <= c * q BY <2>6, <3>1
    <3>3. a * r <= c * p BY <2>5, <3>2, CrossedFractions
    <3> QED BY <2>6, <3>1, <3>3
  <2> QED BY <2>7, <2>8
<1> QED BY <1>3, <1>4 DEF Ranks

\* The other orders compare one figure.
LEMMA FigureRanks ==
    ASSUME NEW D, NEW rows, \A x \in D : Sortable(rows[x]),
           NEW sort \in {"out_of_stock_millis_desc", "gap_count_desc", "coverage_asc"}
    PROVE  Ranks(D, AboveOf(D, rows, sort))
<1>1. PICK k : k = [x \in D |-> CASE sort = "out_of_stock_millis_desc" -> rows[x].measured - rows[x].inStock
                                  [] sort = "gap_count_desc" -> rows[x].gapCount
                                  [] sort = "coverage_asc" -> 0 - rows[x].measured]
  OBVIOUS
<1>2. \A x \in D : /\ rows[x].measured \in Int /\ rows[x].inStock \in Int
                   /\ rows[x].gapCount \in Int
  BY DEF Sortable
<1>3. \A x \in D : k[x] \in Int BY <1>1, <1>2
<1>4. ASSUME NEW x \in D, NEW y \in D
      PROVE  <<x, y>> \in AboveOf(D, rows, sort) <=> k[x] > k[y]
  <2>1. <<x, y>> \in AboveOf(D, rows, sort) <=> Above(rows[x], rows[y], sort) BY DEF AboveOf
  <2>2. CASE sort = "out_of_stock_millis_desc" BY <1>1, <2>1, <2>2 DEF Above
  <2>3. CASE sort = "gap_count_desc" BY <1>1, <2>1, <2>3 DEF Above
  <2>4. CASE sort = "coverage_asc"
    <3>1. PICK u, v : u = rows[x].measured /\ v = rows[y].measured OBVIOUS
    <3>2. k[x] = 0 - u /\ k[y] = 0 - v BY <1>1, <2>4, <3>1
    <3>3. u \in Int /\ v \in Int BY <1>2, <3>1
    <3>4. 0 - u > 0 - v <=> u < v BY <3>3
    <3> QED BY <2>1, <2>4, <3>1, <3>2, <3>4 DEF Above
  <2> QED BY <2>2, <2>3, <2>4
<1> QED BY <1>3, <1>4 DEF Ranks

\* Whatever it is sorted by, a listing stands in a line.
LEMMA RowsInLine ==
    ASSUME NEW D \in SUBSET Facing, NEW rows, \A x \in D : Sortable(rows[x]), NEW sort \in Sorts
    PROVE  InLine(D, TiesById(D, AboveOf(D, rows, sort)))
<1>1. Ranks(D, AboveOf(D, rows, sort)) BY IndexRanks, FigureRanks DEF Sorts
<1>2. \A x \in D : x \in Int BY ReportingAssumption
<1> QED BY <1>1, <1>2, TiesInLine

\* The facing log: the facings of the scope by id, whatever was written of them.
LogOf(order, hs, period, lost) ==
    LET rows == AuditRecords(order, hs, period, lost)
    IN  [i \in DOMAIN rows |-> rows[i].facing]

\* The log of an audit lists its facings by id.
LEMMA LogListed ==
    ASSUME NEW F \in SUBSET Facing, IsFiniteSet(F), NEW order \in ReadOrders(F),
           NEW hs, NEW period, NEW lost
    PROVE  \E n \in Nat : Lined(LogOf(order, hs, period, lost), n, F, ById(F))
<1>1. PICK n \in Nat :
         \E h : ReadById(AuditRecords(order, hs, period, lost), h, n, F, hs, period, lost)
  BY RecordsById
<1>2. PICK g : ReadById(AuditRecords(order, hs, period, lost), g, n, F, hs, period, lost)
  BY <1>1
<1>2a. /\ Lined(g, n, F, ById(F))
       /\ AuditRecords(order, hs, period, lost) =
            [k \in 1..n |-> AuditRecordFor(g[k], hs[g[k]], period, lost)]
  BY <1>2 DEF ReadById
<1>3. PICK rows : rows = AuditRecords(order, hs, period, lost) OBVIOUS
<1>4. DOMAIN rows = 1..n /\ \A k \in 1..n : rows[k].facing = g[k]
  BY <1>2a, <1>3 DEF AuditRecordFor
<1>5. g \in [1..n -> F] BY <1>2a DEF Lined
<1>6. LogOf(order, hs, period, lost) = g
  <2>1. LogOf(order, hs, period, lost) = [k \in 1..n |-> rows[k].facing]
    BY <1>3, <1>4 DEF LogOf
  <2> QED BY <1>4, <1>5, <2>1
<1> QED BY <1>2a, <1>6

\* The trail: what of it lies in the period.  What is added to it comes after.
TrailOf(entries, period) == Selected(entries, {i \in DOMAIN entries : InWindow(period, entries[i])})

\* What is exportable of a trail is a sequence of instants.
LEMMA TrailListed ==
    ASSUME NEW entries \in Seq(Int), NEW period
    PROVE  TrailOf(entries, period) \in Seq(Int)
<1>1. PICK n : n = Len(entries) OBVIOUS
<1>2. n \in Nat /\ DOMAIN entries = 1..n /\ \A i \in 1..n : entries[i] \in Int BY <1>1
<1>3. PICK P : P = {i \in DOMAIN entries : InWindow(period, entries[i])} OBVIOUS
<1>4. P \in SUBSET (1..n) BY <1>2, <1>3
<1>5. PICK c : c = Cardinality(P) OBVIOUS
<1>6. c \in Nat
  <2>1. IsFiniteSet(1..n) BY <1>2, UpTo
  <2>2. IsFiniteSet(P) BY <1>4, <2>1, FS_Subset
  <2> QED BY <1>5, <2>2, FS_CardinalityType
<1>7. PICK line : Keeps(line, c, entries, P) BY <1>2, <1>4, <1>5, SelectedInOrder
<1>8. TrailOf(entries, period) = [k \in 1..c |-> entries[line[k]]] BY <1>3, <1>7 DEF TrailOf, Keeps
<1>9. \A k \in 1..c : line[k] \in 1..n BY <1>4, <1>7 DEF Keeps, Bijection, Injection
<1> QED BY <1>2, <1>6, <1>8, <1>9

\* A listing begins as another does.
Begins(s, t) ==
    /\ s \in Seq(Int) /\ t \in Seq(Int) /\ Len(s) <= Len(t)
    /\ \A i \in 1..Len(s) : s[i] = t[i]

\* As the trail grows, what is exportable of it grows at the end.
LEMMA TrailGrows ==
    ASSUME NEW a \in Seq(Int), NEW b \in Seq(Int), Begins(a, b), NEW period
    PROVE  Begins(TrailOf(a, period), TrailOf(b, period))
<1>1. PICK n, m : n = Len(a) /\ m = Len(b) OBVIOUS
<1>2. /\ n \in Nat /\ m \in Nat /\ n <= m /\ DOMAIN a = 1..n /\ DOMAIN b = 1..m
      /\ \A i \in 1..n : a[i] = b[i]
  BY <1>1 DEF Begins
<1>3. PICK P : P = {i \in DOMAIN a : InWindow(period, a[i])} OBVIOUS
<1>4. PICK Q : Q = {i \in DOMAIN b : InWindow(period, b[i])} OBVIOUS
<1>5. /\ P \subseteq 1..n /\ Q \subseteq 1..m /\ P \subseteq Q
      /\ \A i \in Q : i \in 1..n => i \in P
  BY <1>2, <1>3, <1>4
<1>6. IsFiniteSet(Q) /\ IsFiniteSet(P)
  <2>1. IsFiniteSet(1..m) BY <1>2, UpTo
  <2>2. IsFiniteSet(Q) BY <1>5, <2>1, FS_Subset
  <2> QED BY <1>5, <2>2, FS_Subset
<1>7. PICK c, d : c = Cardinality(P) /\ d = Cardinality(Q) OBVIOUS
<1>8. c \in Nat /\ d \in Nat /\ c <= d
  <2>1. c \in Nat /\ d \in Nat BY <1>6, <1>7, FS_CardinalityType
  <2>2. Cardinality(P) <= Cardinality(Q) BY <1>5, <1>6, FS_Subset
  <2> QED BY <1>7, <2>1, <2>2
<1>9. P \in SUBSET (1..n) /\ Q \in SUBSET (1..m) BY <1>5
<1>10. PICK f : Keeps(f, c, a, P) BY <1>2, <1>7, <1>9, SelectedInOrder
<1>11. PICK g : Keeps(g, d, b, Q) BY <1>2, <1>7, <1>9, SelectedInOrder
<1>12. PICK inP, inQ : inP = {p \in P \X P : p[1] < p[2]} /\ inQ = {p \in Q \X Q : p[1] < p[2]}
  OBVIOUS
<1>13. /\ \A x, y \in P : <<x, y>> \in inP <=> x < y
       /\ \A x, y \in Q : <<x, y>> \in inQ <=> x < y
  BY <1>12
<1>14. (\A x \in Q : x \in Int) /\ (\A x \in P : x \in Int) BY <1>2, <1>5
<1>15. InLine(P, inP) BY <1>13, <1>14 DEF InLine
<1>16. InLine(Q, inQ) BY <1>13, <1>14 DEF InLine
<1>17. Lined(f, c, P, inP)
  <2>1. /\ f \in [1..c -> P] /\ \A x \in P : \E k \in 1..c : f[k] = x
        /\ \A j, k \in 1..c : j < k => f[j] < f[k]
    BY <1>10 DEF Keeps, Bijection, Injection, Surjection
  <2>2. \A j, k \in 1..c : j < k => <<f[j], f[k]>> \in inP BY <1>13, <2>1
  <2> QED BY <2>1, <2>2 DEF Lined
<1>18. Lined(g, d, Q, inQ)
  <2>1. /\ g \in [1..d -> Q] /\ \A x \in Q : \E k \in 1..d : g[k] = x
        /\ \A j, k \in 1..d : j < k => g[j] < g[k]
    BY <1>11 DEF Keeps, Bijection, Injection, Surjection
  <2>2. \A j, k \in 1..d : j < k => <<g[j], g[k]>> \in inQ BY <1>13, <2>1
  <2> QED BY <2>1, <2>2 DEF Lined
<1>19. \A k \in 1..c : Cardinality({y \in P : <<y, f[k]>> \in inP}) = k - 1
  BY <1>6, <1>8, <1>15, <1>17, OneLine
<1>20. \A k \in 1..d : Cardinality({y \in Q : <<y, g[k]>> \in inQ}) = k - 1
  BY <1>6, <1>8, <1>16, <1>18, OneLine
<1>21. ASSUME NEW k \in 1..c PROVE f[k] = g[k]
  <2>1. PICK x : x = f[k] OBVIOUS
  <2>2. x \in P /\ x \in Q /\ x \in 1..n BY <1>5, <1>17, <2>1 DEF Lined
  <2>3. PICK j \in 1..d : g[j] = x BY <1>18, <2>2 DEF Lined
  <2>4. {y \in P : <<y, x>> \in inP} = {y \in Q : <<y, x>> \in inQ}
    <3>1. \A y \in Q : y < x => y \in 1..n BY <1>2, <1>5, <2>2
    <3>2. \A y \in P : <<y, x>> \in inP <=> y < x BY <1>13, <2>2
    <3>3. \A y \in Q : <<y, x>> \in inQ <=> y < x BY <1>13, <2>2
    <3> QED BY <1>5, <3>1, <3>2, <3>3
  <2>5. Cardinality({y \in P : <<y, x>> \in inP}) = k - 1 BY <1>19, <2>1
  <2>6. Cardinality({y \in Q : <<y, x>> \in inQ}) = j - 1 BY <1>20, <2>3
  <2>7. k - 1 = j - 1 BY <2>4, <2>5, <2>6
  <2>8. k = j BY <1>8, <2>3, <2>7
  <2> QED BY <2>1, <2>3, <2>8
<1>22. PICK s, t : s = TrailOf(a, period) /\ t = TrailOf(b, period) OBVIOUS
<1>23. s = [k \in 1..c |-> a[f[k]]] BY <1>3, <1>10, <1>22 DEF TrailOf, Keeps
<1>24. t = [k \in 1..d |-> b[g[k]]] BY <1>4, <1>11, <1>22 DEF TrailOf, Keeps
<1>25. s \in Seq(Int) /\ t \in Seq(Int) BY <1>22, TrailListed
<1>26. Len(s) = c /\ Len(t) = d BY <1>8, <1>23, <1>24
<1>27. ASSUME NEW k \in 1..c PROVE s[k] = t[k]
  <2>1. k \in 1..d BY <1>8
  <2>2. f[k] \in 1..n BY <1>5, <1>17 DEF Lined
  <2> QED BY <1>2, <1>21, <1>23, <1>24, <2>1, <2>2
<1> QED BY <1>8, <1>22, <1>25, <1>26, <1>27 DEF Begins

\* The rows of a report that have gaps enough, in the order asked for.
ReportOf(order, hs, period, sort, least) ==
    LET all  == [i \in DOMAIN order |-> AvailabilityRecordFor(order[i], hs[order[i]], period)]
        rows == Selected(all, {i \in DOMAIN all : all[i].gapCount >= least})
    IN  [i \in DOMAIN rows |-> SortAvailabilityRecords(rows, sort)[i].facing]

RowOf(hs, period) == [f \in Facing |-> AvailabilityRecordFor(f, hs[f], period)]
Gapped(F, hs, period, least) == {f \in F : RowOf(hs, period)[f].gapCount >= least}
RankOf(F, hs, period, sort, least) ==
    TiesById(Gapped(F, hs, period, least),
             AboveOf(Gapped(F, hs, period, least), RowOf(hs, period), sort))

\* A row's figures are counts.
LEMMA RowsSortable ==
    ASSUME NEW hs, Timed(hs), NEW period, period.from \in Int, period.to \in Int,
           period.from <= period.to, NEW f \in Facing
    PROVE  Sortable(RowOf(hs, period)[f]) /\ RowOf(hs, period)[f].facing = f
<1>1. PICK h, n : h = hs[f] /\ n = Len(h.events) OBVIOUS
<1>2. InTime(h, n) /\ n \in Nat BY <1>1, TimedFacing
<1>3. PICK row : row = RowOf(hs, period)[f] OBVIOUS
<1>4. PICK events : events = EventsWithin(h, period) OBVIOUS
<1>5. PICK figures : figures = ComputeFacingAvailability(TimelineFor(h, period), period) OBVIOUS
<1>6. /\ row.facing = f /\ row.inStock = figures.inStock /\ row.measured = figures.measured
      /\ row.gapCount = Cardinality({i \in DOMAIN events : events[i].to = "out_of_stock"})
  BY <1>1, <1>3, <1>4, <1>5 DEF RowOf, AvailabilityRecordFor
<1>7. "inStock" \in DOMAIN Counted /\ "measured" \in DOMAIN Counted BY DEF Counted
<1>8. figures["inStock"] \in Nat BY <1>2, <1>5, <1>7, FiguresOfFacing
<1>9. figures["measured"] \in Nat BY <1>2, <1>5, <1>7, FiguresOfFacing
<1>10. row.gapCount \in Nat
  <2>1. PICK line, c : WithinAt(line, c, h, n, period) BY <1>2, WithinInOrder
  <2>2. c \in Nat /\ DOMAIN events = 1..c BY <1>4, <2>1 DEF WithinAt
  <2>3. PICK S : S = {i \in DOMAIN events : events[i].to = "out_of_stock"} OBVIOUS
  <2>4. IsFiniteSet(1..c) BY <2>2, UpTo
  <2>5. S \subseteq 1..c BY <2>2, <2>3
  <2>6. IsFiniteSet(S) BY <2>4, <2>5, FS_Subset
  <2> QED BY <1>6, <2>3, <2>6, FS_CardinalityType
<1> QED BY <1>3, <1>6, <1>8, <1>9, <1>10 DEF Sortable

\* Whatever order they are read in, they are listed in one.
LEMMA ReportListed ==
    ASSUME NEW F \in SUBSET Facing, IsFiniteSet(F), NEW order \in ReadOrders(F),
           NEW hs, Timed(hs), NEW period, period.from \in Int, period.to \in Int,
           period.from <= period.to, NEW sort \in Sorts, NEW least
    PROVE  \E c \in Nat : Lined(ReportOf(order, hs, period, sort, least), c,
                                Gapped(F, hs, period, least), RankOf(F, hs, period, sort, least))
<1>1. PICK n : n = Cardinality(F) OBVIOUS
<1>2. n \in Nat /\ order \in Bijection(1..n, F) BY <1>1, ReadOnce
<1>3. /\ order \in [1..n -> F] /\ DOMAIN order = 1..n
      /\ \A i, j \in 1..n : order[i] = order[j] => i = j
      /\ \A f \in F : \E i \in 1..n : order[i] = f
  BY <1>2 DEF Bijection, Injection, Surjection, IsInjective
<1>4. PICK rec : rec = RowOf(hs, period) OBVIOUS
<1>5. \A f \in F : Sortable(rec[f]) /\ rec[f].facing = f BY <1>4, RowsSortable
<1>6. PICK all : all = [i \in DOMAIN order |->
                          AvailabilityRecordFor(order[i], hs[order[i]], period)]
  OBVIOUS
<1>7. DOMAIN all = 1..n /\ \A i \in 1..n : all[i] = rec[order[i]]
  BY <1>3, <1>4, <1>6 DEF RowOf
<1>8. PICK P : P = {i \in DOMAIN all : all[i].gapCount >= least} OBVIOUS
<1>9. P \in SUBSET (1..n) BY <1>7, <1>8
<1>10. PICK c : c = Cardinality(P) OBVIOUS
<1>11. c \in Nat
  <2>1. IsFiniteSet(1..n) BY <1>2, UpTo
  <2>2. IsFiniteSet(P) BY <1>9, <2>1, FS_Subset
  <2> QED BY <1>10, <2>2, FS_CardinalityType
<1>12. PICK line : Keeps(line, c, all, P) BY <1>2, <1>9, <1>10, SelectedInOrder
<1>13. PICK kept : kept = Gapped(F, hs, period, least) OBVIOUS
<1>14. PICK h : h = [k \in 1..c |-> order[line[k]]] OBVIOUS
<1>15. /\ line \in [1..c -> P] /\ \A j, k \in 1..c : line[j] = line[k] => j = k
       /\ \A i \in P : \E k \in 1..c : line[k] = i
  BY <1>12 DEF Keeps, Bijection, Injection, Surjection, IsInjective
<1>16. \A k \in 1..c : line[k] \in P /\ line[k] \in 1..n BY <1>9, <1>15
<1>17. /\ \A k \in 1..c : h[k] \in kept
       /\ \A j, k \in 1..c : h[j] = h[k] => j = k
       /\ \A f \in kept : \E k \in 1..c : h[k] = f
  <2>1. ASSUME NEW k \in 1..c PROVE h[k] \in kept
    <3>1. order[line[k]] \in F /\ rec[order[line[k]]].gapCount >= least
      BY <1>3, <1>7, <1>8, <1>16
    <3> QED BY <1>4, <1>13, <1>14, <3>1 DEF Gapped
  <2>2. ASSUME NEW f \in kept PROVE \E k \in 1..c : h[k] = f
    <3>1. f \in F /\ rec[f].gapCount >= least BY <1>4, <1>13 DEF Gapped
    <3>2. PICK i \in 1..n : order[i] = f BY <1>3, <3>1
    <3>3. i \in P BY <1>7, <1>8, <3>1, <3>2
    <3> QED BY <1>14, <1>15, <3>2, <3>3
  <2>3. \A j, k \in 1..c : h[j] = h[k] => j = k BY <1>3, <1>14, <1>15, <1>16
  <2> QED BY <2>1, <2>2, <2>3
<1>18. PICK rows : rows = Selected(all, P) OBVIOUS
<1>19. /\ rows = [k \in 1..c |-> all[line[k]]] /\ DOMAIN rows = 1..c
       /\ \A k \in 1..c : rows[k] = rec[h[k]]
  <2>1. rows = [k \in 1..c |-> all[line[k]]] BY <1>12, <1>18 DEF Keeps
  <2> QED BY <1>7, <1>14, <1>16, <2>1
<1>20. PICK T : T = RankOf(F, hs, period, sort, least) OBVIOUS
<1>21. kept \in SUBSET Facing /\ \A f \in kept : Sortable(rec[f]) /\ rec[f].facing = f
  BY <1>5, <1>13 DEF Gapped
<1>22. T = TiesById(kept, AboveOf(kept, rec, sort)) BY <1>4, <1>13, <1>20 DEF RankOf
<1>23. InLine(kept, T) BY <1>21, <1>22, RowsInLine
<1>24. PICK B : B = {p \in Pairs(rows) : Precedes(rows[p[1]], rows[p[2]], sort)} OBVIOUS
<1>25. ASSUME NEW j \in 1..c, NEW k \in 1..c
       PROVE  <<j, k>> \in B <=> <<h[j], h[k]>> \in T
  <2>1. <<j, k>> \in B <=> Precedes(rows[j], rows[k], sort) BY <1>19, <1>24 DEF Pairs
  <2>2. PICK x, y : x = h[j] /\ y = h[k] OBVIOUS
  <2>3. x \in kept /\ y \in kept BY <1>17, <2>2
  <2>4. Precedes(rows[j], rows[k], sort) <=>
          Above(rec[x], rec[y], sort) \/ (~Above(rec[y], rec[x], sort) /\ x < y)
    BY <1>19, <1>21, <2>2, <2>3 DEF Precedes
  <2>5. PICK above : above = AboveOf(kept, rec, sort) OBVIOUS
  <2>6. /\ <<x, y>> \in above <=> Above(rec[x], rec[y], sort)
        /\ <<y, x>> \in above <=> Above(rec[y], rec[x], sort)
    BY <2>3, <2>5 DEF AboveOf
  <2>7. <<x, y>> \in T <=> <<x, y>> \in above \/ (<<y, x>> \notin above /\ x < y)
    BY <1>22, <2>3, <2>5 DEF TiesById
  <2> QED BY <2>1, <2>2, <2>4, <2>6, <2>7
<1>26. Ranks(1..c, B)
  <2>1. ASSUME NEW j \in 1..c, NEW k \in 1..c, <<j, k>> \in B PROVE <<k, j>> \notin B
    <3>1. h[j] \in kept /\ h[k] \in kept /\ <<h[j], h[k]>> \in T BY <1>17, <1>25, <2>1
    <3> QED BY <1>23, <1>25, <3>1 DEF InLine
  <2>2. ASSUME NEW j \in 1..c, NEW k \in 1..c, NEW l \in 1..c, <<j, l>> \in B
        PROVE  <<j, k>> \in B \/ <<k, l>> \in B
    <3>1. PICK x, y, z : x = h[j] /\ y = h[k] /\ z = h[l] OBVIOUS
    <3>2. x \in kept /\ y \in kept /\ z \in kept /\ <<x, z>> \in T
      BY <1>17, <1>25, <2>2, <3>1
    <3>3. CASE x = y
      <4>1. <<y, z>> \in T BY <3>2, <3>3
      <4> QED BY <1>25, <3>1, <4>1
    <3>4. CASE x # y
      <4>1. <<x, y>> \in T \/ <<y, x>> \in T BY <1>23, <3>2, <3>4 DEF InLine
      <4>2. <<x, y>> \in T \/ <<y, z>> \in T BY <1>23, <3>2, <4>1 DEF InLine
      <4> QED BY <1>25, <3>1, <4>2
    <3> QED BY <3>3, <3>4
  <2> QED BY <2>1, <2>2 DEF Ranks
<1>27. PICK turn : PutsInOrder(turn, c, rows, B) BY <1>11, <1>19, <1>26, SortedByTurns
<1>28. /\ turn \in [1..c -> 1..c] /\ \A j, k \in 1..c : turn[j] = turn[k] => j = k
       /\ \A i \in 1..c : \E k \in 1..c : turn[k] = i
       /\ Arranged(rows, B) = [k \in 1..c |-> rows[turn[k]]]
       /\ \A j, k \in 1..c : j < k => <<turn[j], turn[k]>> \in Turns(c, B)
  BY <1>27 DEF PutsInOrder, Bijection, Injection, Surjection, IsInjective
<1>29. PICK g : g = [k \in 1..c |-> h[turn[k]]] OBVIOUS
<1>30. g \in [1..c -> kept] /\ \A f \in kept : \E k \in 1..c : g[k] = f
  <2>1. \A k \in 1..c : turn[k] \in 1..c BY <1>28
  <2>2. g \in [1..c -> kept] BY <1>17, <1>29, <2>1
  <2>3. ASSUME NEW f \in kept PROVE \E k \in 1..c : g[k] = f
    <3>1. PICK i \in 1..c : h[i] = f BY <1>17
    <3>2. PICK k \in 1..c : turn[k] = i BY <1>28
    <3> QED BY <1>29, <3>1, <3>2
  <2> QED BY <2>2, <2>3
<1>31. ASSUME NEW j \in 1..c, NEW k \in 1..c, j < k PROVE <<g[j], g[k]>> \in T
  <2>1. PICK a, b : a = turn[j] /\ b = turn[k] OBVIOUS
  <2>2. a \in 1..c /\ b \in 1..c /\ a # b
    <3>1. j # k BY <1>11, <1>31
    <3> QED BY <1>28, <2>1, <3>1
  <2>3. <<a, b>> \in B \/ <<b, a>> \notin B BY <1>28, <1>31, <2>1 DEF Turns
  <2>4. <<h[a], h[b]>> \in T \/ <<h[b], h[a]>> \notin T BY <1>25, <2>2, <2>3
  <2>5. h[a] # h[b] /\ h[a] \in kept /\ h[b] \in kept BY <1>17, <2>2
  <2>6. <<h[a], h[b]>> \in T BY <1>23, <2>4, <2>5 DEF InLine
  <2> QED BY <1>29, <2>1, <2>6
<1>32. Lined(g, c, kept, T) BY <1>30, <1>31 DEF Lined
<1>33. ReportOf(order, hs, period, sort, least) = g
  <2>1. PICK sorted : sorted = SortAvailabilityRecords(rows, sort) OBVIOUS
  <2>2. sorted = [k \in 1..c |-> rows[turn[k]]]
    BY <1>24, <1>28, <2>1 DEF SortAvailabilityRecords
  <2>3. ReportOf(order, hs, period, sort, least) = [i \in 1..c |-> sorted[i].facing]
    BY <1>6, <1>8, <1>18, <1>19, <2>1 DEF ReportOf
  <2>4. \A k \in 1..c : sorted[k].facing = g[k]
    <3> SUFFICES ASSUME NEW k \in 1..c PROVE sorted[k].facing = g[k] OBVIOUS
    <3>1. turn[k] \in 1..c BY <1>28
    <3>2. sorted[k] = rec[h[turn[k]]] BY <1>19, <2>2, <3>1
    <3>3. h[turn[k]] \in kept BY <1>17, <3>1
    <3> QED BY <1>21, <1>29, <3>2, <3>3
  <2> QED BY <1>29, <2>3, <2>4
<1> QED BY <1>11, <1>13, <1>20, <1>32, <1>33

----------------------------------------------------------------------------
(* Paging.  A reader holds what a listing begins with, and the cursor says  *)
(* how much of it.                                                          *)
ListOf(listing, order, hs, entries, period, kept, lost, least) ==
    CASE listing = "log"   -> LogOf(order, hs, kept, lost)
      [] listing = "trail" -> TrailOf(entries, kept)
      [] OTHER             -> ReportOf(order, hs, period, listing, least)

\* A listing, with everything it is made from named.
LEMMA ListingIs ==
    ASSUME NEW r, NEW order
    PROVE  Listing(r, order) =
             ListOf(r.listing, order, histories, trail, r.scope.period,
                    RetainedPeriod(r.scope.period, retainedFrom), forgotten, r.minGapCount)
  BY DEF Listing, ListOf, LogOf, TrailOf, ReportOf

\* Facings are known by numbers.
LEMMA IdsOfFacings ==
    ASSUME NEW D \in SUBSET Facing
    PROVE  D \in SUBSET Int
  BY ReportingAssumption

\* Lines of numbers are sequences of numbers.
LEMMA LineIsSeq ==
    ASSUME NEW n \in Nat, NEW D, D \in SUBSET Int, NEW before, NEW s, Lined(s, n, D, before)
    PROVE  s \in Seq(Int) /\ Len(s) = n
<1>1. s \in [1..n -> D] BY DEF Lined
<1>2. s \in [1..n -> Int] BY <1>1
<1> QED BY <1>2

\* The log and a report do not depend on the order the store reads in.
LEMMA OneListing ==
    ASSUME NEW F \in SUBSET Facing, IsFiniteSet(F),
           NEW a \in ReadOrders(F), NEW b \in ReadOrders(F),
           NEW hs, Timed(hs), NEW entries \in Seq(Int), NEW period, period.from \in Int,
           period.to \in Int, period.from <= period.to, NEW kept, NEW lost, NEW least,
           NEW listing \in Sorts \cup {"log", "trail"}
    PROVE  /\ ListOf(listing, a, hs, entries, period, kept, lost, least)
                = ListOf(listing, b, hs, entries, period, kept, lost, least)
           /\ ListOf(listing, a, hs, entries, period, kept, lost, least) \in Seq(Int)
<1>1. PICK s, t : /\ s = ListOf(listing, a, hs, entries, period, kept, lost, least)
                  /\ t = ListOf(listing, b, hs, entries, period, kept, lost, least)
  OBVIOUS
<1>2. CASE listing = "log"
  <2>1. s = LogOf(a, hs, kept, lost) /\ t = LogOf(b, hs, kept, lost) BY <1>1, <1>2 DEF ListOf
  <2>2. PICK n \in Nat : Lined(s, n, F, ById(F)) BY <2>1, LogListed
  <2>3. PICK m \in Nat : Lined(t, m, F, ById(F)) BY <2>1, LogListed
  <2>4. PICK before : before = ById(F) OBVIOUS
  <2>5. InLine(F, before) BY <2>4, IdsInLine
  <2>6. Lined(s, n, F, before) /\ Lined(t, m, F, before) BY <2>2, <2>3, <2>4
  <2>7. s = t BY <2>5, <2>6, LinesAgree
  <2>8. F \in SUBSET Int BY IdsOfFacings
  <2>9. s \in Seq(Int) BY <2>6, <2>8, LineIsSeq
  <2> QED BY <1>1, <2>7, <2>9
<1>3. CASE listing = "trail"
  <2>1. s = TrailOf(entries, kept) /\ t = TrailOf(entries, kept)
    BY <1>1, <1>3 DEF ListOf
  <2>2. s \in Seq(Int) BY <2>1, TrailListed
  <2> QED BY <1>1, <2>1, <2>2
<1>4. CASE listing \in Sorts
  <2>1. listing # "log" /\ listing # "trail" BY <1>4 DEF Sorts
  <2>2. /\ s = ReportOf(a, hs, period, listing, least)
        /\ t = ReportOf(b, hs, period, listing, least)
    BY <1>1, <2>1 DEF ListOf
  <2>3. PICK D, before : /\ D = Gapped(F, hs, period, least)
                         /\ before = RankOf(F, hs, period, listing, least)
    OBVIOUS
  <2>4. PICK n \in Nat : Lined(s, n, D, before) BY <1>4, <2>2, <2>3, ReportListed
  <2>5. PICK m \in Nat : Lined(t, m, D, before) BY <1>4, <2>2, <2>3, ReportListed
  <2>6. D \in SUBSET Facing /\ IsFiniteSet(D)
    <3>1. D \subseteq F BY <2>3 DEF Gapped
    <3> QED BY <3>1, FS_Subset
  <2>7. InLine(D, before)
    <3>1. PICK rows : rows = RowOf(hs, period) OBVIOUS
    <3>2. \A x \in D : Sortable(rows[x]) BY <2>6, <3>1, RowsSortable
    <3>3. before = TiesById(D, AboveOf(D, rows, listing)) BY <2>3, <3>1 DEF RankOf
    <3> QED BY <1>4, <2>6, <3>2, <3>3, RowsInLine
  <2>8. s = t BY <2>4, <2>5, <2>6, <2>7, LinesAgree
  <2>9. D \in SUBSET Int BY <2>6, IdsOfFacings
  <2>10. s \in Seq(Int) BY <2>4, <2>9, LineIsSeq
  <2> QED BY <1>1, <2>8, <2>10
<1> QED BY <1>2, <1>3, <1>4

\* What the reader got, by what its cursor says.
PagedTo(got, cursor, total, now, grows) ==
    /\ Begins(got, now)
    /\ cursor # Null => cursor = Len(got)
    /\ cursor = Null => total = Len(got) /\ (~grows => got = now)

\* A page goes on from the row the cursor names, and names the next one.
LEMMA PageGoesOn ==
    ASSUME NEW items \in Seq(Int), NEW got, Begins(got, items), NEW cursor,
           IF cursor = Null THEN got = <<>> ELSE cursor = Len(got),
           NEW page, page = PageOf(items, cursor, PageLimit), NEW grows \in BOOLEAN
    PROVE  PagedTo(got \o page.items, page.nextCursor, page.total, items, grows)
<1>1. PICK n, o : n = Len(items) /\ o = Len(got) OBVIOUS
<1>2. /\ n \in Nat /\ o \in Nat /\ o <= n /\ got \in Seq(Int)
      /\ \A i \in 1..o : got[i] = items[i]
  BY <1>1 DEF Begins
<1>3. cursor \in Int /\ (IF cursor >= 0 THEN cursor ELSE 0) = o
  BY <1>1, <1>2 DEF Null
<1>4. Max({0, cursor}) = o
  <2>1. Max({0, cursor}) = IF 0 >= cursor THEN 0 ELSE cursor BY <1>3, LargerOf
  <2> QED BY <1>2, <1>3, <2>1
<1>5. PICK k : k = Max({1, PageLimit}) OBVIOUS
<1>6. k \in Int /\ k >= 1
  <2>1. PageLimit \in Int BY ReportingAssumption
  <2>2. k = IF 1 >= PageLimit THEN 1 ELSE PageLimit BY <1>5, <2>1, LargerOf
  <2> QED BY <2>1, <2>2
<1>7. PICK e : e = Min({o + k, n}) OBVIOUS
<1>8. e = IF o + k <= n THEN o + k ELSE n
  <2>1. PICK u : u = o + k OBVIOUS
  <2>2. u \in Int BY <1>2, <1>6, <2>1
  <2>3. n \in Int BY <1>2
  <2>4. Min({u, n}) = IF u <= n THEN u ELSE n BY ONLY <2>2, <2>3, SmallerOf
  <2> QED BY <1>7, <2>1, <2>4
<1>9. e \in Nat /\ o <= e /\ e <= n BY <1>2, <1>6, <1>8
<1>10. PICK slice : slice = SubSeq(items, o + 1, e) OBVIOUS
<1>11. /\ slice \in Seq(Int) /\ Len(slice) = e - o
       /\ \A i \in 1..(e - o) : slice[i] = items[o + i]
  <2>1. PICK m : m = o + 1 OBVIOUS
  <2>2. m \in Int /\ e \in Int /\ \A i \in m..e : items[i] \in Int
    <3>1. \A i \in m..e : i \in 1..n BY <1>2, <1>9, <2>1
    <3> QED BY <1>1, <1>2, <1>9, <2>1, <3>1
  <2>3. slice = SubSeq(items, m, e) BY <1>10, <2>1
  <2>4. /\ slice \in Seq(Int) /\ Len(slice) = IF m <= e THEN e - m + 1 ELSE 0
        /\ \A i \in 1..(e - m + 1) : slice[i] = items[m + i - 1]
    BY <2>2, <2>3, SubSeqProperties
  <2>5. e - m + 1 = e - o /\ \A i \in Int : m + i - 1 = o + i BY <1>2, <1>9, <2>1
  <2>6. m <= e \/ e - o = 0 BY <1>2, <1>9, <2>1
  <2>7. Len(slice) = e - o BY <1>2, <1>9, <2>1, <2>4, <2>5, <2>6
  <2>8. ASSUME NEW i \in 1..(e - o) PROVE slice[i] = items[o + i]
    <3>1. i \in 1..(e - m + 1) BY <2>5
    <3>2. slice[i] = items[m + i - 1] BY <2>4, <3>1
    <3>3. m + i - 1 = o + i BY <2>5
    <3> QED BY <3>2, <3>3
  <2> QED BY <2>4, <2>7, <2>8
<1>12. PICK next : next = got \o slice OBVIOUS
<1>13. /\ next \in Seq(Int) /\ Len(next) = e
       /\ \A i \in 1..e : next[i] = items[i]
  <2>1. next \in Seq(Int) BY <1>2, <1>11, <1>12
  <2>2. Len(next) = e BY <1>1, <1>2, <1>9, <1>11, <1>12
  <2>3. ASSUME NEW i \in 1..e PROVE next[i] = items[i]
    <3>1. CASE i <= o BY <1>1, <1>2, <1>11, <1>12, <2>3, <3>1
    <3>2. CASE o < i
      <4>1. i - o \in 1..(e - o) BY <1>2, <1>9, <2>3, <3>2
      <4>2. next[i] = slice[i - o]
        <5>1. \A j \in 1..(Len(got) + Len(slice)) :
                 next[j] = IF j <= Len(got) THEN got[j] ELSE slice[j - Len(got)]
          BY <1>2, <1>11, <1>12, ConcatProperties
        <5>2. i \in 1..(Len(got) + Len(slice)) /\ ~(i <= Len(got))
          BY <1>1, <1>2, <1>9, <1>11, <2>3, <3>2
        <5> QED BY <1>1, <5>1, <5>2
      <4>3. o + (i - o) = i BY <1>2, <1>9, <2>3
      <4> QED BY <1>11, <4>1, <4>2, <4>3
    <3> QED BY <1>2, <1>9, <2>3, <3>1, <3>2
  <2> QED BY <2>1, <2>2, <2>3
<1>14. Begins(next, items) BY <1>1, <1>9, <1>13 DEF Begins
<1>15. page = [items |-> slice, nextCursor |-> IF e < n THEN e ELSE Null, total |-> n]
  <2>1. o + Len(slice) = e BY <1>2, <1>9, <1>11
  <2> QED BY <1>1, <1>4, <1>5, <1>7, <1>10, <2>1 DEF PageOf
<1>16. CASE e < n
  <2>1. page.nextCursor = e /\ e # Null BY <1>9, <1>15, <1>16 DEF Null
  <2> QED BY <1>12, <1>13, <1>14, <1>15, <2>1 DEF PagedTo
<1>17. CASE e = n
  <2>1. page.nextCursor = Null /\ page.total = n BY <1>2, <1>15, <1>17
  <2>2. next = items
    <3>1. Len(next) = Len(items) /\ \A i \in 1..Len(next) : next[i] = items[i] BY <1>1, <1>13, <1>17
    <3> QED BY <1>13, <3>1, SeqEqual
  <2>3. page.items = slice BY <1>15
  <2>4. next = got \o page.items /\ Len(next) = page.total BY <1>12, <1>13, <1>17, <2>1, <2>3
  <2> QED BY <1>14, <2>1, <2>2, <2>4 DEF PagedTo
<1> QED BY <1>2, <1>9, <1>16, <1>17

\* Whether what was being listed has stayed as it was.
SettledFor(listing, since, hs, retained) ==
    CASE listing = "log"   -> TRUE
      [] listing = "trail" -> since[2] = retained
      [] OTHER             -> since[1] = hs

\* The listing of a reader, over a store with these contents.
NowOf(r, hs, entries, retained, lost) ==
    ListOf(r.listing, SetToSeq(r.scope.facings), hs, entries, r.scope.period,
           RetainedPeriod(r.scope.period, retained), lost, r.minGapCount)

ReadingWell(r, hs, entries, retained, lost) ==
    /\ DOMAIN r = {"listing", "scope", "minGapCount", "cursor", "got", "total", "since"}
    /\ r.listing \in Sorts \cup {"log", "trail"}
    /\ ScopeOK(r.scope)
    /\ Timed(r.since[1]) /\ Behind(r.since[1], hs)
    /\ r.since[2] \in Nat /\ r.since[2] <= retained
    /\ SettledFor(r.listing, r.since, hs, retained) =>
          PagedTo(r.got, r.cursor, r.total, NowOf(r, hs, entries, retained, lost),
                  r.listing = "trail")

\* A reader without a listing has not begun.
ReaderInv ==
    /\ reader.listing = "none" => reader.cursor = Null
    /\ reader.listing # "none" => ReadingWell(reader, histories, trail, retainedFrom, forgotten)

\* What one page adds.
LEMMA PageKeeps ==
    ASSUME StoreInv, NEW r,
           DOMAIN r = {"listing", "scope", "minGapCount", "cursor", "got", "total", "since"},
           r.listing \in Sorts \cup {"log", "trail"}, ScopeOK(r.scope),
           Timed(r.since[1]), Behind(r.since[1], histories),
           r.since[2] \in Nat, r.since[2] <= retainedFrom,
           SettledFor(r.listing, r.since, histories, retainedFrom) =>
              /\ Begins(r.got, NowOf(r, histories, trail, retainedFrom, forgotten))
              /\ IF r.cursor = Null THEN r.got = <<>> ELSE r.cursor = Len(r.got),
           ReadPage(r)
    PROVE  ReadingWell(reader', histories, trail, retainedFrom, forgotten)
<1>1. PICK order \in ReadOrders(r.scope.facings) :
         LET page == PageOf(Listing(r, order), r.cursor, PageLimit)
         IN  reader' = [r EXCEPT !.cursor = page.nextCursor, !.got = @ \o page.items,
                                 !.total = page.total]
  BY DEF ReadPage
<1>2. PICK items : items = Listing(r, order) OBVIOUS
<1>3. PICK page : page = PageOf(items, r.cursor, PageLimit) OBVIOUS
<1>4. reader' = [r EXCEPT !.cursor = page.nextCursor, !.got = @ \o page.items,
                          !.total = page.total]
  BY <1>1, <1>2, <1>3
<1>5. PICK s : s = reader' OBVIOUS
<1>6. /\ DOMAIN s = DOMAIN r /\ s.listing = r.listing /\ s.scope = r.scope
      /\ s.minGapCount = r.minGapCount /\ s.since = r.since
      /\ s.cursor = page.nextCursor /\ s.got = r.got \o page.items /\ s.total = page.total
  BY <1>4, <1>5
<1>7. PICK now : now = NowOf(r, histories, trail, retainedFrom, forgotten) OBVIOUS
<1>8. NowOf(s, histories, trail, retainedFrom, forgotten) = now BY <1>6, <1>7 DEF NowOf
<1>9. items = now /\ items \in Seq(Int)
  <2>1. PICK F, period, a : /\ F = r.scope.facings /\ period = r.scope.period
                            /\ a = SetToSeq(F)
    OBVIOUS
  <2>2. /\ F \in SUBSET Facing /\ IsFiniteSet(F) /\ period.from \in Int
        /\ period.to \in Int /\ period.from <= period.to
    BY <2>1 DEF ScopeOK
  <2>3. a \in ReadOrders(F) /\ order \in ReadOrders(F) BY <1>1, <2>1, <2>2, ListedOnce
  <2>4. PICK kept, least, listing : /\ kept = RetainedPeriod(period, retainedFrom)
                                    /\ least = r.minGapCount /\ listing = r.listing
    OBVIOUS
  <2>5. now = ListOf(listing, a, histories, trail, period, kept, forgotten, least)
    BY <1>7, <2>1, <2>4 DEF NowOf
  <2>6. items = ListOf(listing, order, histories, trail, period, kept, forgotten, least)
    BY <1>2, <2>1, <2>4, ListingIs
  <2>7. listing \in Sorts \cup {"log", "trail"} BY <2>4
  <2>8. Timed(histories) /\ trail \in Seq(Int) BY DEF StoreInv
  <2>9. /\ ListOf(listing, order, histories, trail, period, kept, forgotten, least)
             = ListOf(listing, a, histories, trail, period, kept, forgotten, least)
        /\ ListOf(listing, order, histories, trail, period, kept, forgotten, least) \in Seq(Int)
    BY <2>2, <2>3, <2>7, <2>8, OneListing
  <2> QED BY <2>5, <2>6, <2>9
<1>10. ASSUME SettledFor(s.listing, s.since, histories, retainedFrom)
       PROVE  PagedTo(s.got, s.cursor, s.total, now, s.listing = "trail")
  <2>1. /\ Begins(r.got, items)
        /\ IF r.cursor = Null THEN r.got = <<>> ELSE r.cursor = Len(r.got)
    BY <1>6, <1>7, <1>9, <1>10
  <2>2. PICK got, cursor, grows : /\ got = r.got /\ cursor = r.cursor
                                  /\ grows = (s.listing = "trail")
    OBVIOUS
  <2>3. grows \in BOOLEAN BY <2>2
  <2>4. /\ Begins(got, items) /\ page = PageOf(items, cursor, PageLimit)
        /\ IF cursor = Null THEN got = <<>> ELSE cursor = Len(got)
    BY <1>3, <2>1, <2>2
  <2>5. PagedTo(got \o page.items, page.nextCursor, page.total, items, grows)
    BY <1>9, <2>3, <2>4, PageGoesOn
  <2> QED BY <1>6, <1>9, <2>2, <2>5
<1>11. ReadingWell(s, histories, trail, retainedFrom, forgotten)
  BY <1>6, <1>8, <1>10 DEF ReadingWell
<1> QED BY <1>5, <1>11

\* A reader's step.
LEMMA ReaderStepKeeps ==
    ASSUME StoreInv, ReaderInv, FirstPage \/ NextPage, UNCHANGED <<storeVars, artifactVars>>
    PROVE  ReaderInv'
<1>1. UNCHANGED <<histories, trail, retainedFrom, forgotten>> BY DEF storeVars
<1>2. ASSUME FirstPage
      PROVE  ReadingWell(reader', histories, trail, retainedFrom, forgotten)
  <2>1. PICK scope \in Scopes, listing \in Sorts \cup {"log", "trail"}, minGapCount \in 0..1 :
           ReadPage([listing |-> listing, scope |-> scope, minGapCount |-> minGapCount,
                     cursor |-> Null, got |-> <<>>, total |-> 0,
                     since |-> <<histories, retainedFrom>>])
    BY <1>2 DEF FirstPage
  <2>2. PICK r : r = [listing |-> listing, scope |-> scope, minGapCount |-> minGapCount,
                      cursor |-> Null, got |-> <<>>, total |-> 0,
                      since |-> <<histories, retainedFrom>>]
    OBVIOUS
  <2>3. /\ DOMAIN r = {"listing", "scope", "minGapCount", "cursor", "got", "total", "since"}
        /\ r.listing \in Sorts \cup {"log", "trail"} /\ r.scope = scope /\ r.cursor = Null
        /\ r.got = <<>> /\ r.since[1] = histories /\ r.since[2] = retainedFrom
        /\ ReadPage(r)
    BY <2>1, <2>2
  <2>4. ScopeOK(r.scope)
    <3>1. /\ scope.facings \subseteq Facing /\ IsFiniteSet(scope.facings)
          /\ scope.period.from \in Nat /\ scope.period.to \in Nat
          /\ scope.period.from <= scope.period.to
      BY ReportingAssumption
    <3> QED BY <2>3, <3>1 DEF ScopeOK
  <2>5. Timed(histories) /\ retainedFrom \in Nat BY DEF StoreInv
  <2>6. Behind(histories, histories) BY <2>5, BehindItself
  <2>7. /\ Timed(r.since[1]) /\ Behind(r.since[1], histories)
        /\ r.since[2] \in Nat /\ r.since[2] <= retainedFrom
    BY <2>3, <2>5, <2>6
  <2>8. Begins(r.got, NowOf(r, histories, trail, retainedFrom, forgotten))
    <3>1. PICK F, period, a : /\ F = r.scope.facings /\ period = r.scope.period
                              /\ a = SetToSeq(F)
      OBVIOUS
    <3>2. /\ F \in SUBSET Facing /\ IsFiniteSet(F) /\ period.from \in Int
          /\ period.to \in Int /\ period.from <= period.to
      BY <2>4, <3>1 DEF ScopeOK
    <3>3. a \in ReadOrders(F) BY <3>1, <3>2, ListedOnce
    <3>4. PICK kept, least, of : /\ kept = RetainedPeriod(period, retainedFrom)
                                 /\ least = r.minGapCount /\ of = r.listing
      OBVIOUS
    <3>5. of \in Sorts \cup {"log", "trail"} BY <2>3, <3>4
    <3>6. trail \in Seq(Int) BY DEF StoreInv
    <3>7. ListOf(of, a, histories, trail, period, kept, forgotten, least) \in Seq(Int)
      BY <2>5, <3>2, <3>3, <3>5, <3>6, OneListing
    <3>8. NowOf(r, histories, trail, retainedFrom, forgotten) \in Seq(Int)
      BY <3>1, <3>4, <3>7 DEF NowOf
    <3> QED BY <2>3, <3>8 DEF Begins
  <2> QED BY <2>3, <2>4, <2>7, <2>8, PageKeeps
<1>3. ASSUME NextPage
      PROVE  ReadingWell(reader', histories, trail, retainedFrom, forgotten)
  <2>1. reader.cursor # Null /\ ReadPage(reader) BY <1>3 DEF NextPage
  <2>2. ReadingWell(reader, histories, trail, retainedFrom, forgotten)
    BY <2>1 DEF ReaderInv
  <2>3. PICK r : r = reader OBVIOUS
  <2>4. /\ ReadingWell(r, histories, trail, retainedFrom, forgotten) /\ r.cursor # Null
        /\ ReadPage(r)
    BY <2>1, <2>2, <2>3
  <2>5. SettledFor(r.listing, r.since, histories, retainedFrom) =>
          /\ Begins(r.got, NowOf(r, histories, trail, retainedFrom, forgotten))
          /\ IF r.cursor = Null THEN r.got = <<>> ELSE r.cursor = Len(r.got)
    BY <2>4 DEF ReadingWell, PagedTo
  <2> QED BY <2>4, <2>5, PageKeeps DEF ReadingWell
<1>4. ReadingWell(reader', histories, trail, retainedFrom, forgotten) BY <1>2, <1>3
<1>5. reader'.listing # "none" BY <1>4 DEF ReadingWell, Sorts
<1> QED BY <1>1, <1>4, <1>5 DEF ReaderInv

\* A step of the store: either the listing is as it was, or it was not settled any
\* more, or it is the trail and goes on where it ended.
LEMMA ReadingBehindStore ==
    ASSUME StoreInv, StoreInv', StoreGrows, ReaderInv, UNCHANGED reader
    PROVE  ReaderInv'
<1>1. CASE reader.listing = "none" BY <1>1 DEF ReaderInv
<1>2. CASE reader.listing # "none"
  <2>1. PICK r : r = reader OBVIOUS
  <2>2. ReadingWell(r, histories, trail, retainedFrom, forgotten)
    BY <1>2, <2>1 DEF ReaderInv
  <2>3. PICK hs, entries, retained, lost :
           hs = histories' /\ entries = trail' /\ retained = retainedFrom' /\ lost = forgotten'
    OBVIOUS
  <2>4. /\ Timed(histories) /\ trail \in Seq(Int) /\ retainedFrom \in Nat
        /\ Timed(hs) /\ entries \in Seq(Int) /\ retained \in Nat
        /\ Behind(histories, hs) /\ retainedFrom <= retained
    BY <2>3 DEF StoreInv, StoreGrows
  <2>5. Begins(trail, entries)
    <3>1. Len(trail) <= Len(entries) /\ \A i \in 1..Len(trail) : trail[i] = entries[i]
      BY <2>3 DEF StoreGrows
    <3> QED BY <2>4, <3>1 DEF Begins
  <2>6. PICK before, now : /\ before = NowOf(r, histories, trail, retainedFrom, forgotten)
                           /\ now = NowOf(r, hs, entries, retained, lost)
    OBVIOUS
  <2>7. Timed(r.since[1]) /\ Behind(r.since[1], hs)
    <3>1. PICK since : since = r.since[1] OBVIOUS
    <3>2. Timed(since) /\ Behind(since, histories) BY <2>2, <3>1 DEF ReadingWell
    <3>3. Behind(since, hs) BY <2>4, <3>2, BehindLater
    <3> QED BY <3>1, <3>2, <3>3
  <2>8. r.since[2] \in Nat /\ r.since[2] <= retained BY <2>2, <2>4 DEF ReadingWell
  <2>9. ASSUME SettledFor(r.listing, r.since, hs, retained)
        PROVE  PagedTo(r.got, r.cursor, r.total, now, r.listing = "trail")
    <3>1. PICK F, period, a : /\ F = r.scope.facings /\ period = r.scope.period
                              /\ a = SetToSeq(F)
      OBVIOUS
    <3>2. /\ F \in SUBSET Facing /\ IsFiniteSet(F)
          /\ period.from \in Nat /\ period.to \in Nat /\ period.from <= period.to
      BY <2>2, <3>1 DEF ReadingWell, ScopeOK
    <3>3. a \in ReadOrders(F) BY <3>1, <3>2, ListedOnce
    <3>4. /\ before = ListOf(r.listing, a, histories, trail, period,
                             RetainedPeriod(period, retainedFrom), forgotten, r.minGapCount)
          /\ now = ListOf(r.listing, a, hs, entries, period,
                          RetainedPeriod(period, retained), lost, r.minGapCount)
      BY <2>6, <3>1 DEF NowOf
    <3>5. CASE r.listing = "log"
      <4>1. SettledFor(r.listing, r.since, histories, retainedFrom) BY <3>5 DEF SettledFor
      <4>2. PagedTo(r.got, r.cursor, r.total, before, r.listing = "trail")
        BY <2>2, <2>6, <4>1 DEF ReadingWell
      <4>3. PICK kept, keptNow : /\ kept = RetainedPeriod(period, retainedFrom)
                                 /\ keptNow = RetainedPeriod(period, retained)
        OBVIOUS
      <4>4. /\ before = LogOf(a, histories, kept, forgotten)
            /\ now = LogOf(a, hs, keptNow, lost)
        BY <3>4, <3>5, <4>3 DEF ListOf
      <4>5. PICK line : line = ById(F) OBVIOUS
      <4>6. PICK n \in Nat : Lined(before, n, F, line) BY <3>2, <3>3, <4>4, <4>5, LogListed
      <4>7. PICK m \in Nat : Lined(now, m, F, line) BY <3>2, <3>3, <4>4, <4>5, LogListed
      <4>8. InLine(F, line) BY <3>2, <4>5, IdsInLine
      <4>9. before = now BY <3>2, <4>6, <4>7, <4>8, LinesAgree
      <4> QED BY <4>2, <4>9
    <3>6. CASE r.listing = "trail"
      <4>1. r.since[2] = retained BY <2>9, <3>6 DEF SettledFor
      <4>2. r.since[2] <= retainedFrom BY <2>2 DEF ReadingWell
      <4>3. retained = retainedFrom BY <2>4, <4>1, <4>2
      <4>4. SettledFor(r.listing, r.since, histories, retainedFrom)
        BY <3>6, <4>1, <4>3 DEF SettledFor
      <4>5. PagedTo(r.got, r.cursor, r.total, before, TRUE)
        BY <2>2, <2>6, <3>6, <4>4 DEF ReadingWell
      <4>6. PICK kept : kept = RetainedPeriod(period, retained) OBVIOUS
      <4>7. before = TrailOf(trail, kept) /\ now = TrailOf(entries, kept)
        BY <3>4, <3>6, <4>3, <4>6 DEF ListOf
      <4>8. Begins(before, now) BY <2>4, <2>5, <4>7, TrailGrows
      <4>9. PICK got : got = r.got OBVIOUS
      <4>10. Begins(got, before) BY <4>5, <4>9 DEF PagedTo
      <4>11. Begins(got, now)
        <5>1. /\ got \in Seq(Int) /\ before \in Seq(Int) /\ now \in Seq(Int)
              /\ Len(got) <= Len(before) /\ Len(before) <= Len(now)
              /\ \A i \in 1..Len(got) : got[i] = before[i]
              /\ \A i \in 1..Len(before) : before[i] = now[i]
          BY <4>8, <4>10 DEF Begins
        <5>2. Len(got) \in Nat /\ Len(before) \in Nat /\ Len(now) \in Nat BY <5>1
        <5>3. PICK p, q, o : p = Len(got) /\ q = Len(before) /\ o = Len(now) OBVIOUS
        <5>4. p \in Nat /\ q \in Nat /\ o \in Nat /\ p <= q /\ q <= o BY <5>1, <5>2, <5>3
        <5>5. p <= o BY ONLY <5>4
        <5>6. ASSUME NEW i \in 1..p PROVE got[i] = now[i]
          <6>1. i \in 1..q BY ONLY <5>4, <5>6
          <6> QED BY <5>1, <5>3, <5>6, <6>1
        <5> QED BY <5>1, <5>3, <5>5, <5>6 DEF Begins
      <4> QED BY <3>6, <4>5, <4>9, <4>11 DEF PagedTo
    <3>7. CASE r.listing \in Sorts
      <4>1. r.listing # "log" /\ r.listing # "trail" BY <3>7 DEF Sorts
      <4>2. r.since[1] = hs BY <2>9, <4>1 DEF SettledFor
      <4>3. Behind(hs, histories) BY <2>2, <4>2 DEF ReadingWell
      <4>4. histories = hs BY <2>4, <4>3, BehindBoth
      <4>5. SettledFor(r.listing, r.since, histories, retainedFrom)
        BY <4>1, <4>2, <4>4 DEF SettledFor
      <4>6. PagedTo(r.got, r.cursor, r.total, before, r.listing = "trail")
        BY <2>2, <2>6, <4>5 DEF ReadingWell
      <4>7. before = now
        <5>1. PICK of, least : of = r.listing /\ least = r.minGapCount OBVIOUS
        <5>2. before = ReportOf(a, histories, period, of, least)
          BY <3>4, <4>1, <5>1 DEF ListOf
        <5>3. now = ReportOf(a, hs, period, of, least) BY <3>4, <4>1, <5>1 DEF ListOf
        <5> QED BY <4>4, <5>2, <5>3
      <4> QED BY <4>6, <4>7
    <3>8. r.listing \in Sorts \cup {"log", "trail"} BY <2>2 DEF ReadingWell
    <3> QED BY <3>5, <3>6, <3>7, <3>8
  <2>10. ReadingWell(r, hs, entries, retained, lost)
    BY <2>2, <2>6, <2>7, <2>8, <2>9 DEF ReadingWell
  <2>11. ReadingWell(reader', histories', trail', retainedFrom', forgotten')
    BY <2>1, <2>3, <2>10
  <2> QED BY <1>2, <2>11 DEF ReaderInv
<1> QED BY <1>1, <1>2

----------------------------------------------------------------------------
\* What the read side keeps, over a store that goes on changing.
ReportingInv == StoreInv /\ CallInv /\ ArtifactInv /\ ReaderInv

\* The inductive invariant holds where the store begins.
LEMMA ReportingBegins ==
    ASSUME ReportingInit
    PROVE  ReportingInv
<1>1. /\ histories = Retained /\ trail = <<>> /\ retainedFrom = 0 /\ forgotten = {}
      /\ bodies = <<>> /\ manifests = <<>> /\ call = NoCallYet
      /\ reader = [listing |-> "none", cursor |-> Null]
  BY DEF ReportingInit
<1>2. Timed(histories)
  <2>1. Retained \in [Facing -> History] BY ReportingAssumption
  <2>2. ASSUME NEW f \in Facing, NEW i \in 1..Len(Retained[f].events),
               NEW j \in 1..Len(Retained[f].events), i <= j
        PROVE  Retained[f].events[i].at <= Retained[f].events[j].at
    <3>1. Retained[f].events \in Seq(Event) BY <2>1 DEF History
    <3>2. DOMAIN Retained[f].events = 1..Len(Retained[f].events) BY <3>1
    <3> QED BY <2>2, <3>2, ReportingAssumption
  <2> QED BY <1>1, <2>1, <2>2 DEF Timed
<1>3. StoreInv BY <1>1, <1>2 DEF StoreInv
<1>4. CallInv BY <1>1 DEF CallInv, CallStages, NoCallYet
<1>5. ArtifactInv BY <1>1 DEF ArtifactInv
<1>6. ReaderInv BY <1>1 DEF ReaderInv
<1> QED BY <1>3, <1>4, <1>5, <1>6 DEF ReportingInv

\* It says nothing of what a stuttering step could change.
LEMMA ReportingStays ==
    ASSUME ReportingInv, UNCHANGED reportingVars
    PROVE  ReportingInv'
<1>1. UNCHANGED <<histories, trail, retainedFrom, forgotten, bodies, manifests, call, reader>>
  BY DEF reportingVars, storeVars, artifactVars
<1>2. StoreInv' BY <1>1 DEF ReportingInv, StoreInv
<1>3. CallInv' BY <1>1 DEF ReportingInv, CallInv
<1>4. ArtifactInv' BY <1>1 DEF ReportingInv, ArtifactInv
<1>5. ReaderInv' BY <1>1 DEF ReportingInv, ReaderInv
<1> QED BY <1>2, <1>3, <1>4, <1>5 DEF ReportingInv

\* It is kept by every step of the store, of a sealing call and of a reader.
LEMMA ReportingKeeps ==
    ASSUME ReportingInv, [ReportingNext]_reportingVars
    PROVE  ReportingInv'
<1>1. ASSUME StoreNext, UNCHANGED <<artifactVars, reader>> PROVE ReportingInv'
  <2>1. StoreInv' /\ StoreGrows BY <1>1, StoreKeeps DEF ReportingInv
  <2>2. UNCHANGED artifactVars /\ UNCHANGED reader BY <1>1
  <2>3. CallInv' /\ ArtifactInv' BY <2>1, <2>2, SealingBehindStore DEF ReportingInv
  <2>4. ReaderInv' BY <2>1, <2>2, ReadingBehindStore DEF ReportingInv
  <2> QED BY <2>1, <2>3, <2>4 DEF ReportingInv
<1>2. ASSUME SealNext, UNCHANGED <<storeVars, reader>> PROVE ReportingInv'
  <2>1. UNCHANGED storeVars /\ UNCHANGED reader BY <1>2
  <2>2. CallInv' /\ ArtifactInv' BY <1>2, <2>1, SealStepKeeps DEF ReportingInv
  <2>3. UNCHANGED <<histories, trail, retainedFrom, forgotten>> BY <2>1 DEF storeVars
  <2>4. StoreInv' BY <2>3 DEF ReportingInv, StoreInv
  <2>5. ReaderInv' BY <2>1, <2>3 DEF ReportingInv, ReaderInv
  <2> QED BY <2>2, <2>4, <2>5 DEF ReportingInv
<1>3. ASSUME FirstPage \/ NextPage, UNCHANGED <<storeVars, artifactVars>> PROVE ReportingInv'
  <2>1. ReaderInv' BY <1>3, ReaderStepKeeps DEF ReportingInv
  <2>2. UNCHANGED <<histories, trail, retainedFrom, forgotten, bodies, manifests, call>>
    BY <1>3 DEF storeVars, artifactVars
  <2>3. StoreInv' BY <2>2 DEF ReportingInv, StoreInv
  <2>4. CallInv' BY <2>2 DEF ReportingInv, CallInv
  <2>5. ArtifactInv' BY <2>2 DEF ReportingInv, ArtifactInv
  <2> QED BY <2>1, <2>3, <2>4, <2>5 DEF ReportingInv
<1> QED BY <1>1, <1>2, <1>3, ReportingStays DEF ReportingNext

\* The invariant that the three theorems below rest on.
LEMMA ReportingInvariant == ReportingSpec => []ReportingInv
<1>1. ReportingInit => ReportingInv BY ReportingBegins
<1>2. ReportingInv /\ [ReportingNext]_reportingVars => ReportingInv' BY ReportingKeeps
<1> QED BY <1>1, <1>2, PTL DEF ReportingSpec

\* What pages to its end has the listing.
LEMMA PagedToItsEnd ==
    ASSUME ReportingInv
    PROVE  PagesCoverEachOnce
<1> SUFFICES ASSUME reader.listing # "none", reader.cursor = Null,
                    SettledFor(reader.listing, reader.since, histories, retainedFrom)
             PROVE  /\ Len(reader.got) = reader.total
                    /\ IsPrefix(reader.got, Listing(reader, SetToSeq(reader.scope.facings)))
                    /\ reader.listing # "trail" =>
                          reader.got = Listing(reader, SetToSeq(reader.scope.facings))
  BY DEF PagesCoverEachOnce, SettledFor
<1>1. PICK r, now : r = reader /\ now = NowOf(r, histories, trail, retainedFrom, forgotten)
  OBVIOUS
<1>2. now = Listing(reader, SetToSeq(reader.scope.facings)) BY <1>1, ListingIs DEF NowOf
<1>3. ReadingWell(r, histories, trail, retainedFrom, forgotten)
  BY <1>1 DEF ReportingInv, ReaderInv
<1>4. PagedTo(r.got, r.cursor, r.total, now, r.listing = "trail")
  BY <1>1, <1>3 DEF ReadingWell
<1>5. Len(r.got) = r.total /\ (r.listing # "trail" => r.got = now)
  BY <1>1, <1>4 DEF PagedTo
<1>6. IsPrefix(r.got, now)
  <2>1. PICK got, n : got = r.got /\ n = Len(got) OBVIOUS
  <2>2. /\ got \in Seq(Int) /\ now \in Seq(Int) /\ n <= Len(now) /\ n \in Nat
        /\ \A i \in 1..n : got[i] = now[i]
    BY <1>4, <2>1 DEF PagedTo, Begins
  <2>3. PICK s : s = SubSeq(now, 1, n) OBVIOUS
  <2>4. \A i \in 1..n : now[i] \in Int BY <2>2
  <2>5. /\ s \in Seq(Int) /\ Len(s) = (IF 1 <= n THEN n - 1 + 1 ELSE 0)
        /\ \A i \in 1..(n - 1 + 1) : s[i] = now[1 + i - 1]
    BY <2>2, <2>3, <2>4, SubSeqProperties
  <2>6. n - 1 + 1 = n /\ \A i \in Int : 1 + i - 1 = i BY <2>2
  <2>7. Len(s) = n /\ \A i \in 1..n : s[i] = now[i] BY <2>2, <2>5, <2>6
  <2>8. \A i \in 1..Len(got) : got[i] = s[i] BY <2>1, <2>2, <2>7
  <2>9. got = s BY <2>1, <2>2, <2>5, <2>7, <2>8, SeqEqual
  <2>10. SubSeq(got, 1, Len(got)) = got BY <2>2, SubSeqFull
  <2> QED BY <2>1, <2>2, <2>3, <2>9, <2>10 DEF IsPrefix
<1> QED BY <1>1, <1>2, <1>5, <1>6

\* Whatever is ingested, aged out or sealed meanwhile, a manifest is about the body that
\* was stored under it (artifacts.ts, reporting.adapter.ts:421).
THEOREM ManifestsVouch == ReportingSpec => []ManifestVouchesForItsBody
<1>1. ReportingInv => ManifestVouchesForItsBody BY Vouches DEF ReportingInv
<1> QED BY <1>1, ReportingInvariant, PTL

\* A closed period is sealed alike each time, and the index report shows its figures
\* (reporting.adapter.ts:421).
THEOREM SealedAlike == ReportingSpec => []ClosedPeriodsSealAlike
<1>1. ReportingInv => ClosedPeriodsSealAlike BY SealsAlike DEF ReportingInv
<1> QED BY <1>1, ReportingInvariant, PTL

\* A reader who pages to the end gets every row once and in order (paging.ts).
THEOREM PagesCover == ReportingSpec => []PagesCoverEachOnce
<1>1. ReportingInv => PagesCoverEachOnce BY PagedToItsEnd
<1> QED BY <1>1, ReportingInvariant, PTL

----------------------------------------------------------------------------
(***************************************************************************)
(* The dashboard.                                                          *)
(***************************************************************************)
USE PanelsAssumption

\* A value answers the question a slice has in a state of the store.
Answers(s, value, state) ==
    /\ value.asked = s
    /\ s \in ScopedSlices => value.scope = state.scope
    /\ s = "taskQueueItems" => /\ value.queue = state.selectedQueueId
                               /\ value.filter = state.queueFilter

UiFields == {"slices", "scope", "selectedQueueId", "queueFilter", "queueSort", "recordSort",
             "nextRequestId"}

\* The store: every pending slice waits for an id that has been given out, and every
\* value held answers.
StoreOK(state) ==
    /\ DOMAIN state = UiFields /\ DOMAIN state.slices = Slices
    /\ state.nextRequestId \in Nat \ {0}
    /\ \A s \in Slices :
         /\ PendingRequestId(state.slices[s]) \in 0..(state.nextRequestId - 1)
         /\ HeldValue(state.slices[s]) # NoValue => Answers(s, HeldValue(state.slices[s]), state)

CallFields == {"slice", "ask", "attempt", "aborted", "phase"}

\* The requests: one that its slice waits for was asked what the slice would ask now.
CallsOK(state, cs) ==
    /\ DOMAIN cs \subseteq 1..(state.nextRequestId - 1)
    /\ \A id \in DOMAIN cs :
         /\ DOMAIN cs[id] = CallFields /\ cs[id].slice \in Slices
         /\ PendingRequestId(state.slices[cs[id].slice]) = id =>
               Answers(cs[id].slice, cs[id].ask, state)

DashboardInv == StoreOK(ui) /\ CallsOK(ui, calls)

----------------------------------------------------------------------------
\* What the operators on a slice do to what it waits for and to what it shows.
LEMMA IdleData == PendingRequestId(Idle) = NoCall /\ HeldValue(Idle) = NoValue
BY DEF PendingRequestId, HeldValue, Idle

LEMMA BegunData ==
    ASSUME NEW data, NEW id
    PROVE  /\ PendingRequestId(BeginLoad(data, id)) = id
           /\ HeldValue(BeginLoad(data, id)) = HeldValue(data)
<1>1. CASE HeldValue(data) = NoValue
  <2>1. BeginLoad(data, id) = [status |-> "loading", requestId |-> id]
    BY <1>1 DEF BeginLoad
  <2> QED BY <1>1, <2>1 DEF PendingRequestId, HeldValue
<1>2. CASE HeldValue(data) # NoValue
  <2>1. BeginLoad(data, id) =
          [status |-> "refreshing", requestId |-> id, value |-> HeldValue(data)]
    BY <1>2 DEF BeginLoad
  <2>2. HeldValue(BeginLoad(data, id)) = HeldValue(data) BY <2>1 DEF HeldValue
  <2> QED BY <2>1, <2>2 DEF PendingRequestId
<1> QED BY <1>1, <1>2

LEMMA SettledData ==
    ASSUME NEW data, NEW value
    PROVE  /\ PendingRequestId(Succeed(value)) = NoCall /\ HeldValue(Succeed(value)) = value
           /\ PendingRequestId(Failed(data)) = NoCall
           /\ HeldValue(Failed(data)) = HeldValue(data)
<1> DEFINE held == HeldValue(data)
<1>1. Failed(data) = [status |-> "error", value |-> held] BY DEF Failed
<1> HIDE DEF held
<1>2. HeldValue([status |-> "error", value |-> held]) = held BY DEF HeldValue
<1>3. PendingRequestId([status |-> "error", value |-> held]) = NoCall BY DEF PendingRequestId
<1> QED BY <1>1, <1>2, <1>3 DEF held, Succeed, PendingRequestId, HeldValue

----------------------------------------------------------------------------
\* What a slice asks for answers it.
LEMMA AskAnswers ==
    ASSUME NEW state, NEW s \in Slices
    PROVE  Answers(s, Ask(state, s), state)
<1>1. s \in SliceNames BY DEF Slices, ToSet
<1>2. CASE s = "taskQueues" BY <1>2 DEF Ask, Answers, ScopedSlices
<1>3. CASE s = "taskQueueItems" BY <1>3 DEF Ask, Answers, ScopedSlices
<1>4. CASE s = "availabilityRecords" BY <1>4 DEF Ask, Answers
<1>5. CASE s \notin {"taskQueues", "taskQueueItems", "availabilityRecords"}
  BY <1>5 DEF Ask, Answers
<1> QED BY <1>2, <1>3, <1>4, <1>5

LEMMA FiniteSlices == IsFiniteSet(Slices)
<1>1. Panels \in Surjection(1..Len(Panels), Slices)
  <2>1. Slices = {Panels[i] : i \in 1..Len(Panels)} BY DEF Slices, ToSet
  <2>2. Panels \in [1..Len(Panels) -> Slices] BY <2>1
  <2> QED BY <2>1, <2>2 DEF Surjection
<1>2. IsFiniteSet(1..Len(Panels)) BY FS_Interval
<1> QED BY <1>1, <1>2, FS_Surjection

\* The ids given out in a turn are new, and the next id is beyond them.
LEMMA NewIds ==
    ASSUME NEW started \in SUBSET Slices, ui.nextRequestId \in Nat \ {0}, NEW s \in started
    PROVE  /\ Cardinality(started) \in Nat
           /\ NextIds(started)[s] \in
                ui.nextRequestId..(ui.nextRequestId + Cardinality(started) - 1)
<1> DEFINE before == {t \in started : Turn(t) < Turn(s)}
<1>1. IsFiniteSet(started) BY FiniteSlices, FS_Subset
<1>2. before \subseteq started \ {s}
  <2>1. Turn(s) \in Int
    <3>1. \E i \in DOMAIN Panels : Panels[i] = s BY DEF Slices, ToSet
    <3>2. DOMAIN Panels \subseteq Int OBVIOUS
    <3> QED BY <3>1, <3>2 DEF Turn
  <2> QED BY <2>1
<1>3. /\ IsFiniteSet(started \ {s})
      /\ Cardinality(started \ {s}) = Cardinality(started) - 1
  BY <1>1, FS_RemoveElement
<1>4. Cardinality(before) \in Nat /\ Cardinality(before) <= Cardinality(started) - 1
  BY <1>2, <1>3, FS_Subset, FS_CardinalityType
<1>5. Cardinality(started) \in Nat BY <1>1, FS_CardinalityType
<1> QED BY <1>4, <1>5 DEF NextIds

----------------------------------------------------------------------------
\* Requests that have only moved on, or ended, are as they were to their slices.
LEMMA CallsMove ==
    ASSUME NEW state, NEW cs, CallsOK(state, cs), NEW next, DOMAIN next \subseteq DOMAIN cs,
           \A id \in DOMAIN next : /\ DOMAIN next[id] = DOMAIN cs[id]
                                  /\ next[id].slice = cs[id].slice /\ next[id].ask = cs[id].ask
    PROVE  CallsOK(state, next)
BY DEF CallsOK

LEMMA AbortMoves ==
    ASSUME NEW state, NEW cs, CallsOK(state, cs), NEW ids
    PROVE  /\ DOMAIN Abort(cs, ids) = DOMAIN cs
           /\ \A id \in DOMAIN cs : /\ DOMAIN Abort(cs, ids)[id] = DOMAIN cs[id]
                                    /\ Abort(cs, ids)[id].slice = cs[id].slice
                                    /\ Abort(cs, ids)[id].ask = cs[id].ask
<1>1. DOMAIN Abort(cs, ids) = DOMAIN cs BY DEF Abort
<1>2. ASSUME NEW id \in DOMAIN cs
      PROVE  /\ DOMAIN Abort(cs, ids)[id] = DOMAIN cs[id]
             /\ Abort(cs, ids)[id].slice = cs[id].slice
             /\ Abort(cs, ids)[id].ask = cs[id].ask
  <2>1. DOMAIN cs[id] = CallFields BY DEF CallsOK
  <2>2. CASE id \in ids
    <3>1. Abort(cs, ids)[id] = [cs[id] EXCEPT !.aborted = TRUE] BY <2>2 DEF Abort
    <3> QED BY <2>1, <3>1 DEF CallFields
  <2>3. CASE id \notin ids
    <3>1. Abort(cs, ids)[id] = cs[id] BY <2>3 DEF Abort
    <3> QED BY <3>1
  <2> QED BY <2>2, <2>3
<1> QED BY <1>1, <1>2

\* What the user changes forgets every slice whose question it changes.
LEMMA ChangeForgets ==
    ASSUME DashboardInv, NEW state, DOMAIN state = UiFields, DOMAIN state.slices = Slices,
           state.nextRequestId = ui.nextRequestId,
           \A s \in Slices :
             \/ state.slices[s] = Idle
             \/ /\ state.slices[s] = ui.slices[s]
                /\ \A value : Answers(s, value, ui) => Answers(s, value, state),
           Change(state)
    PROVE  DashboardInv'
<1>1. ui' = state /\ calls' = calls BY DEF Change
<1>2. StoreOK(state) BY IdleData DEF DashboardInv, StoreOK, NoCall
<1>3. CallsOK(state, calls) BY IdleData DEF DashboardInv, CallsOK, NoCall
<1> QED BY <1>1, <1>2, <1>3 DEF DashboardInv

LEMMA ScopeKeeps ==
    ASSUME DashboardInv, NEW scope, ChangeScope(scope)
    PROVE  DashboardInv'
<1> DEFINE state == WithScope(ui, scope)
<1>1. /\ DOMAIN state = UiFields /\ state.nextRequestId = ui.nextRequestId
      /\ state.slices = [s \in Slices |-> IF s \in ScopedSlices THEN Idle ELSE ui.slices[s]]
      /\ state.selectedQueueId = ui.selectedQueueId /\ state.queueFilter = ui.queueFilter
  BY DEF WithScope, DashboardInv, StoreOK, UiFields
<1>2. Change(state) BY DEF ChangeScope
<1> HIDE DEF state
<1>3. \A s \in Slices : \/ state.slices[s] = Idle
                        \/ /\ state.slices[s] = ui.slices[s]
                           /\ \A value : Answers(s, value, ui) => Answers(s, value, state)
  BY <1>1 DEF Answers
<1> QED BY <1>1, <1>2, <1>3, ChangeForgets

\* Only the rows of a queue ask for a queue, and for a filter.
LEMMA ItemsForgotten ==
    ASSUME DashboardInv, NEW state, DOMAIN state = UiFields,
           state.nextRequestId = ui.nextRequestId, state.scope = ui.scope,
           state.slices = [s \in Slices |-> IF s = "taskQueueItems" THEN Idle ELSE ui.slices[s]],
           Change(state)
    PROVE  DashboardInv'
<1>1. \A s \in Slices : \/ state.slices[s] = Idle
                        \/ /\ state.slices[s] = ui.slices[s]
                           /\ \A value : Answers(s, value, ui) => Answers(s, value, state)
  BY DEF Answers
<1> QED BY <1>1, ChangeForgets

\* What changes nothing that a slice asks for.
LEMMA QuestionsStay ==
    ASSUME DashboardInv, NEW state, DOMAIN state = UiFields,
           \A f \in UiFields \ {"queueSort", "recordSort"} : state[f] = ui[f],
           Change(state)
    PROVE  DashboardInv'
<1>1. /\ state.slices = ui.slices /\ state.nextRequestId = ui.nextRequestId
      /\ state.scope = ui.scope /\ state.selectedQueueId = ui.selectedQueueId
      /\ state.queueFilter = ui.queueFilter
  BY DEF UiFields
<1>2. \A s \in Slices : \A value : Answers(s, value, ui) => Answers(s, value, state)
  BY <1>1 DEF Answers
<1>3. DOMAIN state.slices = Slices BY <1>1 DEF DashboardInv, StoreOK
<1> QED BY <1>1, <1>2, <1>3, ChangeForgets

LEMMA QueueKeeps ==
    ASSUME DashboardInv, NEW queue, SelectQueue(queue)
    PROVE  DashboardInv'
<1>1. CASE queue = ui.selectedQueueId
  BY <1>1, QuestionsStay DEF SelectQueue, QueueSelected, DashboardInv, StoreOK
<1>2. CASE queue # ui.selectedQueueId
  <2> DEFINE state == [WithoutItems(ui) EXCEPT !.selectedQueueId = queue]
  <2>1. /\ DOMAIN state = UiFields /\ state.nextRequestId = ui.nextRequestId
        /\ state.scope = ui.scope
        /\ state.slices = [s \in Slices |-> IF s = "taskQueueItems" THEN Idle
                                            ELSE ui.slices[s]]
    BY DEF WithoutItems, DashboardInv, StoreOK, UiFields
  <2>2. Change(state) BY <1>2 DEF SelectQueue, QueueSelected
  <2> QED BY <2>1, <2>2, ItemsForgotten
<1> QED BY <1>1, <1>2

LEMMA FilterKeeps ==
    ASSUME DashboardInv, NEW filter, ChangeFilter(filter)
    PROVE  DashboardInv'
<1> DEFINE state == FilterChanged(ui, filter)
<1>1. /\ DOMAIN state = UiFields /\ state.nextRequestId = ui.nextRequestId
      /\ state.scope = ui.scope
      /\ state.slices = [s \in Slices |-> IF s = "taskQueueItems" THEN Idle ELSE ui.slices[s]]
  BY DEF FilterChanged, WithoutItems, DashboardInv, StoreOK, UiFields
<1>2. Change(state) BY DEF ChangeFilter
<1> QED BY <1>1, <1>2, ItemsForgotten

LEMMA SortKeeps ==
    ASSUME DashboardInv, NEW o, ChangeQueueSort(o) \/ ChangeRecordSort(o)
    PROVE  DashboardInv'
<1>1. DOMAIN ui = UiFields BY DEF DashboardInv, StoreOK
<1>2. CASE ChangeQueueSort(o)
  BY <1>1, <1>2, QuestionsStay DEF ChangeQueueSort, UiFields
<1>3. CASE ChangeRecordSort(o)
  BY <1>1, <1>3, QuestionsStay DEF ChangeRecordSort, UiFields
<1> QED BY <1>2, <1>3

----------------------------------------------------------------------------
\* A turn starts requests under ids nobody waits for, asks each slice's question of
\* now, and leaves what is shown.
LEMMA RunKeeps ==
    ASSUME DashboardInv, NEW slices \in SUBSET Slices, Run(slices)
    PROVE  DashboardInv'
<1> DEFINE started == {s \in slices : s # "taskQueueItems" \/ ui.selectedQueueId # NoQueue}
           ids  == NextIds(started)
           kept == Abort(calls, {inFlight[s] : s \in started})
           n    == ui.nextRequestId
           card == Cardinality(started)
<1>1. started \in SUBSET Slices /\ n \in Nat \ {0} /\ DOMAIN ui = UiFields
  BY DEF DashboardInv, StoreOK
<1>2. /\ DOMAIN ids = started
      /\ \A s \in started : ids[s] \in n..(n + card - 1)
  BY <1>1, NewIds DEF NextIds
<1>3. card \in Nat BY <1>1, FiniteSlices, FS_Subset, FS_CardinalityType
<1>4. ui' = FetchStarted(ui, ids) BY DEF Run
<1>5. calls' = [id \in DOMAIN kept \cup Range(ids) |->
                  IF id \in DOMAIN kept THEN kept[id]
                  ELSE Request(CHOOSE s \in started : ids[s] = id)]
  BY DEF Run
<1> HIDE DEF started, ids, kept, n, card
<1>6. /\ DOMAIN ui' = UiFields
      /\ ui'.slices = [s \in Slices |-> IF s \in started THEN BeginLoad(ui.slices[s], ids[s])
                                        ELSE ui.slices[s]]
      /\ ui'.nextRequestId = n + card
      /\ ui'.scope = ui.scope /\ ui'.selectedQueueId = ui.selectedQueueId
      /\ ui'.queueFilter = ui.queueFilter
  BY <1>1, <1>2, <1>4 DEF FetchStarted, UiFields, n, card
<1>7. \A s \in Slices :
        /\ HeldValue(ui'.slices[s]) = HeldValue(ui.slices[s])
        /\ PendingRequestId(ui'.slices[s]) =
             IF s \in started THEN ids[s] ELSE PendingRequestId(ui.slices[s])
  BY <1>6, BegunData
<1>8. \A s, value : Answers(s, value, ui) => Answers(s, value, ui')
  BY <1>6 DEF Answers
<1>9. \A s \in Slices : PendingRequestId(ui.slices[s]) \in 0..(n - 1)
  BY DEF DashboardInv, StoreOK, n
<1>10. StoreOK(ui')
  <2>1. ui'.nextRequestId \in Nat \ {0} BY <1>1, <1>3, <1>6
  <2>2. ASSUME NEW s \in Slices
        PROVE  PendingRequestId(ui'.slices[s]) \in 0..(ui'.nextRequestId - 1)
    <3>1. CASE s \in started BY <1>1, <1>2, <1>3, <1>6, <1>7, <3>1
    <3>2. CASE s \notin started BY <1>1, <1>3, <1>6, <1>7, <1>9, <3>2
    <3> QED BY <3>1, <3>2
  <2>3. ASSUME NEW s \in Slices, HeldValue(ui'.slices[s]) # NoValue
        PROVE  Answers(s, HeldValue(ui'.slices[s]), ui')
    BY <1>7, <1>8, <2>3 DEF DashboardInv, StoreOK
  <2>4. DOMAIN ui'.slices = Slices BY <1>6
  <2> QED BY <1>6, <2>1, <2>2, <2>3, <2>4 DEF StoreOK
<1>11. CallsOK(ui, kept) /\ DOMAIN kept = DOMAIN calls
  BY AbortMoves, CallsMove DEF DashboardInv, kept
<1>12. DOMAIN kept \subseteq 1..(n - 1) BY <1>11 DEF CallsOK, n
<1>13. CallsOK(ui', calls')
  <2>1. DOMAIN calls' \subseteq 1..(ui'.nextRequestId - 1)
    <3>1. Range(ids) \subseteq n..(n + card - 1) BY <1>2 DEF Range
    <3>2. DOMAIN calls' = DOMAIN kept \cup Range(ids) BY <1>5
    <3>3. n..(n + card - 1) \subseteq 1..(n + card - 1) BY <1>1, <1>3
    <3>4. 1..(n - 1) \subseteq 1..(n + card - 1) BY <1>1, <1>3
    <3>5. ui'.nextRequestId - 1 = n + card - 1 BY <1>1, <1>3, <1>6
    <3>6. DOMAIN calls' \subseteq 1..(n + card - 1) BY <1>12, <3>1, <3>2, <3>3, <3>4, Zenon
    <3> QED BY <3>5, <3>6
  <2>2. ASSUME NEW id \in DOMAIN calls'
        PROVE  /\ DOMAIN calls'[id] = CallFields /\ calls'[id].slice \in Slices
               /\ PendingRequestId(ui'.slices[calls'[id].slice]) = id =>
                     Answers(calls'[id].slice, calls'[id].ask, ui')
    <3>1. CASE id \in DOMAIN kept
      <4>1. calls'[id] = kept[id] BY <1>5, <3>1
      <4>2. DOMAIN kept[id] = CallFields /\ kept[id].slice \in Slices
        BY <1>11, <3>1 DEF CallsOK
      <4>3. kept[id].slice \in started => PendingRequestId(ui'.slices[kept[id].slice]) # id
        BY <1>1, <1>2, <1>3, <1>7, <1>12, <3>1, <4>2
      <4>4. kept[id].slice \notin started =>
              PendingRequestId(ui'.slices[kept[id].slice]) =
              PendingRequestId(ui.slices[kept[id].slice])
        BY <1>7, <4>2
      <4> QED BY <1>8, <1>11, <3>1, <4>1, <4>2, <4>3, <4>4 DEF CallsOK
    <3>2. CASE id \notin DOMAIN kept
      <4> DEFINE s == CHOOSE x \in started : ids[x] = id
      <4>1. \E x \in started : ids[x] = id BY <1>2, <1>5, <3>2 DEF Range
      <4>2. s \in started BY <4>1
      <4>3. calls'[id] = Request(s) BY <1>5, <3>2
      <4> HIDE DEF s
      <4>4. s \in Slices BY <1>1, <4>2
      <4>5. Answers(s, Ask(ui, s), ui') BY <1>8, <4>4, AskAnswers
      <4> QED BY <4>3, <4>4, <4>5 DEF Request, CallFields
    <3> QED BY <3>1, <3>2
  <2> QED BY <2>1, <2>2 DEF CallsOK
<1> QED BY <1>10, <1>13 DEF DashboardInv

LEMMA CancelKeeps ==
    ASSUME DashboardInv, CancelAll
    PROVE  DashboardInv'
BY AbortMoves, CallsMove DEF CancelAll, DashboardInv

LEMMA AttemptKeeps ==
    ASSUME DashboardInv, NEW id, Attempt(id) \/ Wake(id)
    PROVE  DashboardInv'
<1>1. UNCHANGED ui /\ id \in DOMAIN calls BY DEF Attempt, Wake
<1>2. DOMAIN calls[id] = CallFields BY <1>1 DEF DashboardInv, CallsOK
<1>3. /\ DOMAIN calls' = DOMAIN calls
      /\ \A other \in DOMAIN calls \ {id} : calls'[other] = calls[other]
      /\ DOMAIN calls'[id] = CallFields
      /\ calls'[id].slice = calls[id].slice /\ calls'[id].ask = calls[id].ask
  <2>1. CASE Attempt(id)
    <3>1. \E phase : calls' = [calls EXCEPT ![id].phase = phase] BY <2>1 DEF Attempt
    <3> QED BY <1>1, <1>2, <3>1 DEF CallFields
  <2>2. CASE Wake(id)
    <3>1. CASE calls[id].aborted
      <4>1. calls' = [calls EXCEPT ![id] = [calls[id] EXCEPT !.phase = "cancelled"]]
        BY <2>2, <3>1 DEF Wake
      <4> QED BY <1>1, <1>2, <4>1 DEF CallFields
    <3>2. CASE ~calls[id].aborted
      <4>1. calls' = [calls EXCEPT ![id] = [calls[id] EXCEPT !.phase = "asking",
                                                            !.attempt = calls[id].attempt + 1]]
        BY <2>2, <3>2 DEF Wake
      <4> QED BY <1>1, <1>2, <4>1 DEF CallFields
    <3> QED BY <3>1, <3>2
  <2> QED BY <2>1, <2>2
<1>4. CallsOK(ui, calls') BY <1>2, <1>3, CallsMove DEF DashboardInv
<1> QED BY <1>1, <1>4 DEF DashboardInv

\* Only the answer its slice waits for is shown, and nothing waits for it then.
LEMMA SettleKeeps ==
    ASSUME DashboardInv, NEW id, Settle(id)
    PROVE  DashboardInv'
<1> DEFINE c == calls[id]
           s == c.slice
<1>1. id \in DOMAIN calls /\ calls' = [other \in DOMAIN calls \ {id} |-> calls[other]]
  BY DEF Settle
<1>2. s \in Slices BY <1>1 DEF DashboardInv, CallsOK
<1>3. CallsOK(ui, calls') BY <1>1, CallsMove DEF DashboardInv
<1>4. CASE ui' = ui BY <1>3, <1>4 DEF DashboardInv
<1>5. ASSUME NEW data, PendingRequestId(ui.slices[s]) = id,
             ui' = [ui EXCEPT !.slices[s] = data],
             PendingRequestId(data) = NoCall,
             HeldValue(data) \in {c.ask, HeldValue(ui.slices[s])}
      PROVE  DashboardInv'
  <2>1. /\ DOMAIN ui' = UiFields /\ ui'.slices = [ui.slices EXCEPT ![s] = data]
        /\ ui'.nextRequestId = ui.nextRequestId /\ ui'.scope = ui.scope
        /\ ui'.selectedQueueId = ui.selectedQueueId /\ ui'.queueFilter = ui.queueFilter
    BY <1>5 DEF DashboardInv, StoreOK, UiFields
  <2>2. \A x, value : Answers(x, value, ui) => Answers(x, value, ui')
    BY <2>1 DEF Answers
  <2>3. DOMAIN ui'.slices = Slices /\ ui'.slices[s] = data
        /\ \A x \in Slices \ {s} : ui'.slices[x] = ui.slices[x]
    BY <1>2, <2>1 DEF DashboardInv, StoreOK
  <2>4. Answers(s, c.ask, ui) BY <1>1, <1>5 DEF DashboardInv, CallsOK
  <2>5. StoreOK(ui')
    <3>1. \A x \in Slices : PendingRequestId(ui'.slices[x]) \in 0..(ui'.nextRequestId - 1)
      BY <1>5, <2>1, <2>3 DEF DashboardInv, StoreOK, NoCall
    <3>2. ASSUME NEW x \in Slices, HeldValue(ui'.slices[x]) # NoValue
          PROVE  Answers(x, HeldValue(ui'.slices[x]), ui')
      <4>1. CASE x = s
        BY <1>2, <1>5, <2>2, <2>3, <2>4, <3>2, <4>1 DEF DashboardInv, StoreOK
      <4>2. CASE x # s BY <2>2, <2>3, <3>2, <4>2 DEF DashboardInv, StoreOK
      <4> QED BY <4>1, <4>2
    <3> QED BY <2>1, <2>3, <3>1, <3>2 DEF DashboardInv, StoreOK
  <2>6. CallsOK(ui', calls')
    <3>1. ASSUME NEW other \in DOMAIN calls',
                 PendingRequestId(ui'.slices[calls'[other].slice]) = other
          PROVE  PendingRequestId(ui.slices[calls'[other].slice]) = other
      <4>1. other # NoCall BY <1>3 DEF CallsOK, NoCall
      <4>2. calls'[other].slice # s BY <1>5, <2>3, <3>1, <4>1
      <4>3. calls'[other].slice \in Slices BY <1>3 DEF CallsOK
      <4> QED BY <2>3, <3>1, <4>2, <4>3
    <3> QED BY <1>3, <2>1, <2>2, <3>1 DEF CallsOK
  <2> QED BY <2>5, <2>6 DEF DashboardInv
<1>6. CASE c.phase = "ok"
  <2>1. ui' = SettleSlice(ui, s, id, Succeed(c.ask)) BY <1>6 DEF Settle
  <2> QED BY <1>4, <1>5, <2>1, SettledData DEF SettleSlice, IsCurrentRequest
<1>7. CASE c.phase = "cancelled" BY <1>4, <1>7 DEF Settle
<1>8. CASE c.phase \notin {"ok", "cancelled"}
  <2>1. ui' = SettleSlice(ui, s, id, Failed(ui.slices[s])) BY <1>8 DEF Settle
  <2> QED BY <1>4, <1>5, <2>1, SettledData DEF SettleSlice, IsCurrentRequest
<1> QED BY <1>6, <1>7, <1>8 DEF Settle

LEMMA DashboardStart == DashboardInit => DashboardInv
<1> SUFFICES ASSUME DashboardInit PROVE DashboardInv OBVIOUS
<1>1. /\ DOMAIN ui = UiFields /\ ui.slices = [s \in Slices |-> Idle] /\ ui.nextRequestId = 1
      /\ calls = <<>>
  BY DEF DashboardInit, UiFields
<1>2. StoreOK(ui) BY <1>1, IdleData DEF StoreOK, NoCall
<1>3. CallsOK(ui, calls) BY <1>1 DEF CallsOK
<1> QED BY <1>2, <1>3 DEF DashboardInv

LEMMA DashboardStep == DashboardInv /\ [DashboardNext]_dashboardVars => DashboardInv'
<1> SUFFICES ASSUME DashboardInv, [DashboardNext]_dashboardVars PROVE DashboardInv' OBVIOUS
<1>1. ASSUME NEW s \in Slices, Load(s) PROVE DashboardInv' BY <1>1, RunKeeps DEF Load
<1>2. CASE LoadAll BY <1>2, RunKeeps DEF LoadAll
<1>3. ASSUME NEW id, Proceed(id) PROVE DashboardInv'
  BY <1>3, AttemptKeeps, SettleKeeps DEF Proceed
<1>4. CASE UNCHANGED dashboardVars BY <1>4 DEF dashboardVars, DashboardInv
<1> QED BY <1>1, <1>2, <1>3, <1>4, CancelKeeps, ScopeKeeps, QueueKeeps, FilterKeeps,
           SortKeeps DEF DashboardNext

----------------------------------------------------------------------------
\* The invariant that the theorem below rests on.
THEOREM DashboardInvariant == DashboardSpec => []DashboardInv
<1>1. DashboardInit /\ [][DashboardNext]_dashboardVars => []DashboardInv
  BY DashboardStart, DashboardStep, PTL
<1> QED BY <1>1 DEF DashboardSpec

\* However late answers come, and whatever the user does meanwhile, a panel never shows
\* a figure of another scope, nor a row of another queue or filter (reducer.ts).
THEOREM ShowsTheAnswer == DashboardSpec => []ShowsWhatIsAsked
<1>1. DashboardInv => ShowsWhatIsAsked
  BY DEF DashboardInv, StoreOK, Answers, ShowsWhatIsAsked
<1> QED BY <1>1, DashboardInvariant, PTL
=============================================================================
