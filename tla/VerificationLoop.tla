-------------------------- MODULE VerificationLoop --------------------------
(***************************************************************************)
(* Tasks between the employees who work them, the supervisors who overrule *)
(* them, the passes that look at their facings, and the ticks of the       *)
(* verification loop (decideVerification) that close them or put them      *)
(* back.  Passes arrive late and in any order, and a tick may run behind.  *)
(***************************************************************************)
EXTENDS Verification, TaskLifecycle, FiniteSets

CONSTANTS
    Raised,          \* the tasks there are; passes may name others
    InitialPriority,
    Delay,           \* bound: how late a pass may arrive,
    Lag,             \* and how far a tick may run behind the clock
    MaxPasses,       \* bounds of the model: passes,
    MaxBounces,      \* failed verifications of a task,
    Horizon          \* and the clock

ASSUME LoopAssumption ==
    /\ Raised \subseteq Task
    /\ InitialPriority \in Priority
    /\ {Delay, Lag, MaxPasses, MaxBounces, Horizon} \subseteq Nat

VARIABLES
    now,     \* the clock
    tasks,   \* the tasks as last saved
    passes   \* the passes that have arrived

vars == <<now, tasks, passes>>

Init ==
    /\ now = 0
    /\ tasks \in [Raised -> {CreateTask(InitialPriority, s, 0) : s \in BOOLEAN}]
    /\ passes = {}

----------------------------------------------------------------------------
TimePasses ==
    /\ now < Horizon
    /\ now' = now + 1
    /\ UNCHANGED <<tasks, passes>>

\* A cart, a camera run or a shopper looked at the facing a moment ago.  Ids are
\* given in the order of arrival, which need not be that of the instants.
Arrive(p) ==
    /\ Cardinality(passes) < MaxPasses
    /\ p \in Pass
    /\ p.at \in (now - Delay)..now
    /\ passes' = passes \cup {p}
    /\ UNCHANGED <<now, tasks>>

\* A command on a task, refused unless it is legal.
Do(t, command) ==
    /\ Legal(tasks[t], command)
    /\ tasks' = [tasks EXCEPT ![t] = ApplyTaskCommand(@, command)]
    /\ UNCHANGED <<now, passes>>

Assign(t, e)   == Do(t, [kind |-> "assign", at |-> now, assignee |-> e])
Acknowledge(t) == Do(t, [kind |-> "acknowledge", at |-> now])
StartWork(t)   == Do(t, [kind |-> "start", at |-> now])
Cancel(t)      == Do(t, [kind |-> "cancel", at |-> now])
Expire(t)      == Do(t, [kind |-> "expire", at |-> now])

\* Bounded: work is reported done early enough for its deadline to fall within
\* the horizon.
Resolve(t) ==
    /\ tasks[t].failedVerifications < MaxBounces
    /\ now + Within < Horizon
    /\ Do(t, [kind |-> "resolve", at |-> now])

\* A supervisor sends the work back.
Reject(t) ==
    Do(t, [kind |-> "reopen", at |-> now, reason |-> "supervisor_rejected"])

----------------------------------------------------------------------------
\* verificationDeadline
Deadline(task) == task.state.at + Within

\* The passes an evaluation at an instant may use.
Visible(at) == {p \in passes : p.at <= at}

\* What the rule says of a task awaiting verification.
Evaluated(t, at) ==
    EvaluateVerification(Visible(at), t, tasks[t].state.at)

Awaiting(t) == tasks[t].state.status = "awaiting_verification"

\* The evidence is there, whether or not the deadline has passed: the task is
\* verified at the instant its last clean pass landed.
Close(t, at) ==
    LET streak == Evaluated(t, at).streak
    IN  /\ Awaiting(t)
        /\ Complete(Evaluated(t, at))
        /\ Do(t, [kind |-> "confirm_verification", at |-> streak[Len(streak)].at,
                  firstPass |-> streak[1].id, secondPass |-> streak[Len(streak)].id])

PutBack(t, at, reason) ==
    /\ tasks' = [tasks EXCEPT ![t] = EscalateTask(@, at, reason)]
    /\ UNCHANGED <<now, passes>>

\* A look after the fix was dirty: the condition persisted.
Regress(t, at) ==
    /\ Awaiting(t)
    /\ ~Complete(Evaluated(t, at))
    /\ Evaluated(t, at).dirtied
    /\ PutBack(t, at, "verification_regressed")

\* Mutant: the deadline discards evidence that is there.
MutantDeadlineFirst(t, at) ==
    /\ Awaiting(t)
    /\ at > Deadline(tasks[t])
    /\ PutBack(t, at, "verification_window_lapsed")

\* Mutant: only a task that was looked at lapses.
MutantLapseIfSeen(t, at) ==
    /\ Awaiting(t)
    /\ ~Complete(Evaluated(t, at)) /\ ~Evaluated(t, at).dirtied
    /\ Evaluated(t, at).streak # <<>>
    /\ at > Deadline(tasks[t])
    /\ PutBack(t, at, "verification_window_lapsed")

\* The deadline passed without the evidence.
Lapse(t, at) ==
    /\ Awaiting(t)
    /\ ~Complete(Evaluated(t, at)) /\ ~Evaluated(t, at).dirtied
    /\ at > Deadline(tasks[t])
    /\ PutBack(t, at, "verification_window_lapsed")

\* One tick of the loop for one task; any other task, and one that is still
\* waiting for its passes, is left alone.
Tick(t, at) == Close(t, at) \/ Regress(t, at) \/ Lapse(t, at)

Work(t) ==
    \/ \E e \in Employee : Assign(t, e)
    \/ Acknowledge(t) \/ StartWork(t) \/ Resolve(t)

Overrule(t) == Reject(t) \/ Cancel(t) \/ Expire(t)

\* Nothing is left to do once the horizon is reached and every task is closed.
Closed(t) == tasks[t].state.status \in TerminalStatuses
Rest == now = Horizon /\ (\A t \in Raised : Closed(t)) /\ UNCHANGED vars

Next ==
    \/ TimePasses
    \/ \E t \in Task, at \in (now - Delay)..now, c \in BOOLEAN :
         Arrive([id |-> Cardinality(passes) + 1, of |-> t, at |-> at, clean |-> c])
    \/ \E t \in Raised :
         Work(t) \/ Overrule(t) \/ \E at \in (now - Lag)..now : Tick(t, at)
    \/ Rest

Spec == Init /\ [][Next]_vars

\* The clock runs and the loop is ticked.
Fairness ==
    /\ WF_vars(TimePasses)
    /\ \A t \in Raised : WF_vars(Tick(t, now))

FairSpec == Spec /\ Fairness

----------------------------------------------------------------------------
\* What a task record holds in each state.
TaskOK(task) ==
    /\ DOMAIN task = {"state", "priority", "requiresVerification",
                      "failedVerifications", "updatedAt"}
    /\ task.state.status \in Status
    /\ task.state.status \in Held =>
         task.state.at \in Int /\ task.state.assignee \in Employee
    /\ task.state.status = "reopened" =>
         /\ task.state.reason \in ReopenReason
         /\ task.state.failedAttempts = task.failedVerifications
    /\ task.priority \in Priority
    /\ task.requiresVerification \in BOOLEAN
    /\ task.failedVerifications \in Nat

TypeOK ==
    /\ now \in Nat
    /\ DOMAIN tasks = Raised
    /\ \A t \in Raised : TaskOK(tasks[t])
    /\ passes \subseteq Pass

\* The sets of passes that prove a fix held: clean looks at the task's facing
\* since it was reported done, at different instants, each soon followed by the
\* next, and no dirty look among them (of two looks at one instant, the one with
\* the smaller pass id comes first).
Evidence(t, since, until) ==
    {proof \in SUBSET {p \in passes : p.of = t /\ p.clean /\ p.at \in (since + 1)..until} :
       /\ Cardinality(proof) = Required
       /\ \A p, q \in proof : p # q => p.at # q.at
       /\ \A p, q \in proof : p.at < q.at =>
            \E r \in proof : r.at - p.at \in 1..Within
       /\ \A d \in passes : d.of = t /\ ~d.clean =>
            \/ \A p \in proof : Before(d, p)
            \/ \A p \in proof : Before(p, d)}

ClosesAt(t) ==
    /\ tasks[t].requiresVerification
    /\ ~Closed(t)
    /\ tasks'[t].state.status = "verified"

\* A task on physical stock is only ever closed by enough clean passes of its own
\* since its latest resolution, and at the instant the last of them landed.
ClosesOnEvidence ==
    [][\A t \in Raised : ClosesAt(t) =>
         \E proof \in Evidence(t, tasks[t].state.at, now) :
           /\ \E p \in proof : p.id = tasks'[t].state.by[1]
           /\ \E p \in proof : /\ p.id = tasks'[t].state.by[2]
                               /\ p.at = tasks'[t].state.at
                               /\ \A q \in proof : q.at <= p.at]_vars

\* "Evidence beats the deadline": the loop puts work back only for a dirty look
\* or a lapsed deadline, and never while the passes that would close it are there.
ReopensForCause ==
    [][\A t \in Raised :
         LET since == tasks[t].state.at
             at    == tasks'[t].state.at
         IN  tasks'[t].failedVerifications # tasks[t].failedVerifications
             /\ tasks'[t].state.reason # "supervisor_rejected" =>
               /\ Evidence(t, since, at) = {}
               /\ \/ at > since + Within
                  \/ \E p \in passes : p.of = t /\ ~p.clean /\ p.at \in (since + 1)..at]_vars

\* A closed task stays as it is: no late pass, tick or command reaches it.
TerminalIsFinal ==
    [][\A t \in Raised : Closed(t) => tasks'[t] = tasks[t]]_vars

NeverTakenBack ==
    \A t \in Raised :
      /\ tasks'[t].failedVerifications >= tasks[t].failedVerifications
      /\ tasks'[t].priority >= tasks[t].priority

\* Bounces are counted and urgency earned for good, whoever works the task next.
BouncesStick == [][NeverTakenBack]_vars

\* Work reported done does not wait for ever: it is closed or put back.
NoLimbo == \A t \in Raised : Awaiting(t) ~> ~Awaiting(t)
=============================================================================
