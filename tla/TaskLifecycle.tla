--------------------------- MODULE TaskLifecycle ---------------------------
(***************************************************************************)
(* The task and its commands (src/domain/task).  applyTaskCommand is total *)
(* and pure: a command is refused or gives the next task.  Nothing here    *)
(* keeps tasks; VerificationLoop does.                                     *)
(***************************************************************************)
EXTENDS Integers

CONSTANT Employee

Status == {"created", "assigned", "acknowledged", "in_progress",
           "awaiting_verification", "verified", "reopened", "cancelled", "expired"}

TerminalStatuses == {"verified", "cancelled", "expired"}

AllowedTransitions ==
    [s \in Status |->
       CASE s = "created"               -> {"assigned", "cancelled", "expired"}
         [] s = "assigned"              -> {"assigned", "acknowledged", "cancelled", "expired"}
         [] s = "acknowledged"          -> {"assigned", "in_progress", "cancelled", "expired"}
         [] s = "in_progress"           -> {"awaiting_verification", "verified", "cancelled"}
         [] s = "awaiting_verification" -> {"verified", "reopened", "expired"}
         [] s = "reopened"              -> {"assigned", "cancelled", "expired"}
         [] OTHER                       -> {}]

\* The states that carry the assignee.
Held == {"assigned", "acknowledged", "in_progress", "awaiting_verification"}

ReopenReason == {"verification_regressed", "verification_window_lapsed",
                 "supervisor_rejected"}

\* Priorities are counted from 0 (low) to 3 (critical).
Priority  == 0..3

\* Mutant: the ladder wraps around at its top.
MutantWrap(priority) == (priority + 1) % 4

\* One rung up, saturating at the top.
RaisePriority(priority) == IF priority < 3 THEN priority + 1 ELSE 3

CreateTask(priority, needsShelf, at) ==
    [state |-> [status |-> "created", at |-> at], priority |-> priority,
     requiresVerification |-> needsShelf, failedVerifications |-> 0,
     updatedAt |-> at]

----------------------------------------------------------------------------
\* The one state a command starts from; the others start wherever the state
\* graph lets them.
StartsFrom(kind) ==
    CASE kind = "acknowledge"          -> {"assigned"}
      [] kind = "start"                -> {"acknowledged"}
      [] kind = "resolve"              -> {"in_progress"}
      [] kind = "confirm_verification" -> {"awaiting_verification"}
      [] OTHER                         -> Status

\* The status a command advances to.
Target(task, command) ==
    CASE command.kind = "assign"               -> "assigned"
      [] command.kind = "acknowledge"          -> "acknowledged"
      [] command.kind = "start"                -> "in_progress"
      [] command.kind = "resolve"              ->
           IF task.requiresVerification THEN "awaiting_verification" ELSE "verified"
      [] command.kind = "confirm_verification" -> "verified"
      [] command.kind = "reopen"               -> "reopened"
      [] command.kind = "cancel"               -> "cancelled"
      [] command.kind = "expire"               -> "expired"

\* Whether a command is taken.
Legal(task, command) ==
    /\ task.state.status \in StartsFrom(command.kind)
    /\ Target(task, command) \in AllowedTransitions[task.state.status]

\* The state it advances to, with the data that state has: the assignee of
\* work someone holds, the passes that closed verified work, the count of
\* attempts that failed.
Advanced(task, command) ==
    LET to == Target(task, command)
    IN  CASE to = "assigned" ->
               [status |-> to, at |-> command.at, assignee |-> command.assignee]
          [] to \in Held \ {"assigned"} ->
               [status |-> to, at |-> command.at, assignee |-> task.state.assignee]
          [] to = "reopened" ->
               [status |-> to, at |-> command.at, reason |-> command.reason,
                failedAttempts |-> task.failedVerifications + 1]
          [] to = "verified" ->
               [status |-> to, at |-> command.at,
                by |-> IF command.kind = "resolve" THEN <<>>
                       ELSE <<command.firstPass, command.secondPass>>]
          [] OTHER -> [status |-> to, at |-> command.at]

\* applyTaskCommand, for a command that is taken.
ApplyTaskCommand(task, command) ==
    [task EXCEPT
       !.state = Advanced(task, command),
       !.failedVerifications = IF command.kind = "reopen" THEN @ + 1 ELSE @,
       !.updatedAt = IF command.at > @ THEN command.at ELSE @]

\* escalateTask: reopens a task and raises its urgency.
EscalateTask(task, at, reason) ==
    [ApplyTaskCommand(task, [kind |-> "reopen", at |-> at, reason |-> reason])
       EXCEPT !.priority = RaisePriority(task.priority)]
=============================================================================
