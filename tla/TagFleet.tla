------------------------------ MODULE TagFleet ------------------------------
(***************************************************************************)
(* The tag fleet adapter and its callers: tasks are expressed on the tags  *)
(* of their facings, refreshed, and cleared when their work is verified,   *)
(* by calls that overlap at every await on the gateway.  The gateway may   *)
(* refuse, queue, execute, or not answer; tags are rebound; the process    *)
(* restarts.  A light is leased: the tag goes dark by itself.              *)
(***************************************************************************)
EXTENDS TaskDispatch

CONSTANTS
    Task, FacingOf, LaneOf,   \* the tasks, the facing and the lane of each
    Tag, ModelOf,             \* the tags and their model codes
    Facing, FirstTag, Fleet,  \* the facings, their tags, and the vendor's profile
    Deployments,              \* what the gateway may say of the store
    BindingStates,            \* the states a binding may be in
    Worklists, Handled,       \* what is dispatched, and taken up again one by one
    Handler,                  \* the calls that may be open at a time
    Outcomes, MayCutShort,    \* what the gateway may answer of a command
    MaxEvents, Horizon        \* bounds: commands, rebinds and restarts; instants

\* A worklist names a task once, and an empty one is grouped under no store: nothing
\* is asked for it.
ASSUME FleetAssumption ==
    /\ FacingOf \in [Task -> Facing]
    /\ FirstTag \in [Facing -> Tag]
    /\ Fleet.lease \in Nat /\ Fleet.batchLimit \in Nat
    /\ \A d \in Deployments : d.lease \in Nat /\ d.batchLimit \in Nat
    /\ Worklists \subseteq Seq(Task) \ {<<>>}
    /\ \A ts \in Worklists : \A i, j \in DOMAIN ts : ts[i] = ts[j] => i = j
    /\ Handled \subseteq Task
    /\ Outcomes \subseteq {"applied", "queued", "refused"}
    /\ {MaxEvents, Horizon} \subseteq Nat

VARIABLES
    now,
    work,          \* the tasks: whether verified, and their priority
    expressions,   \* the registry of live expressions, by task
    byId,          \* the tasks the index by expression id leads to
    lastCommandAt, \* when each tag was last sent an express command
    calls,         \* the open calls
    bindings,      \* what is bound to each facing, as the fleet knows it
    tags,          \* what each tag was last told to show, and until when
    waiting,       \* the command each tag gets at its next wake-up
    spent          \* commands, rebinds and restarts so far

registry == <<expressions, byId, lastCommandAt>>
outside  == <<bindings, tags, waiting>>
vars     == <<now, work, registry, calls, outside, spent>>

Never == -1
Dark  == [task |-> Nothing, shows |-> EncodeRelease, until |-> 0]
Idle  == [op |-> "none"]
NoTag == [tag |-> Nothing, state |-> "none"]
NoCommand == [release |-> FALSE, entry |-> [task |-> Nothing, tag |-> Nothing]]

Init ==
    /\ now = 0
    /\ work = [t \in Task |-> [verified |-> FALSE, priority |-> 2]]
    /\ expressions = <<>> /\ byId = {}
    /\ lastCommandAt = [g \in Tag |-> Never]
    /\ calls = [h \in Handler |-> Idle]
    /\ bindings = [f \in Facing |-> [tag |-> FirstTag[f], state |-> "ok"]]
    /\ tags = [g \in Tag |-> Dark]
    /\ waiting = [g \in Tag |-> NoCommand]
    /\ spent = 0

Live(t) == t \in DOMAIN expressions

Forget(table, t) == [u \in DOMAIN table \ {t} |-> table[u]]
Record(table, t, live) ==
    [u \in DOMAIN table \cup {t} |-> IF u = t THEN live ELSE table[u]]

Unavailable(reason) == [status |-> "unavailable", reason |-> reason, mode |-> "none"]
Expressed(mode)     == [status |-> "expressed", reason |-> Nothing, mode |-> mode]
Queued(mode)        == [status |-> "queued", reason |-> Nothing, mode |-> mode]

\* A handler takes up a call; every step of the call rewrites its record.
Open(h, call) ==
    /\ calls[h] = Idle
    /\ calls' = [calls EXCEPT ![h] = call]

\* A bound: a behaviour has MaxEvents commands, rebinds and restarts, or it has one
\* dispatch of several tasks.
Spend(events) == spent + events <= MaxEvents /\ spent' = spent + events

Goes(h, call) == calls' = [calls EXCEPT ![h] = call]
At(h, op, pc) == calls[h].op = op /\ calls[h].pc = pc

Earlier(a, b) == IF a < b THEN a ELSE b

----------------------------------------------------------------------------
(***************************************************************************)
(* expressTasks: capabilities, then one expressBatch per chunk.            *)
(***************************************************************************)
AsRead(t, priority) ==
    [id |-> t, facing |-> FacingOf[t], lane |-> LaneOf[t], priority |-> priority]

Ask(h, tasks) ==
    /\ Spend(IF Len(tasks) = 1 THEN 1 ELSE MaxEvents)
    /\ Open(h, [op |-> "express", pc |-> "capabilities", at |-> now, tasks |-> tasks,
                todo |-> <<>>, prepared |-> <<>>, acks |-> <<>>, results |-> <<>>,
                outcome |-> <<>>, said |-> <<>>])

\* dispatchTasks of a worklist.
Dispatch(h, ts) ==
    /\ \A i \in DOMAIN ts : ~work[ts[i]].verified
    /\ Ask(h, [i \in DOMAIN ts |-> AsRead(ts[i], work[ts[i]].priority)])
    /\ UNCHANGED <<now, work, registry, outside>>

\* A failed verification: the same task, one rung more urgent.
Escalate(h, t) ==
    /\ ~work[t].verified
    /\ work' = [work EXCEPT ![t].priority = Earlier(@ + 1, 3)]
    /\ Ask(h, <<AsRead(t, work'[t].priority)>>)
    /\ UNCHANGED <<now, registry, outside>>

Asked(call) == {call.tasks[i].id : i \in DOMAIN call.tasks}

\* A fleet that can express nothing is not called.
ReadCapabilities(h, deployment) ==
    LET call == calls[h]
        capabilities == DescribeCapabilities(Fleet, deployment)
        commands == [i \in DOMAIN call.tasks |->
                       BuildExpressCommand(call.tasks[i], capabilities, call.at,
                                           StandardDispatchPolicy)]
    IN  /\ At(h, "express", "capabilities")
        /\ IF CanExpress(capabilities)
           THEN Goes(h, [call EXCEPT !.pc = "store",
                                     !.todo = Chunk(commands, capabilities.batchLimit)])
           ELSE Goes(h, [call EXCEPT !.pc = "done",
                           !.outcome = [t \in Asked(call) |->
                                          Unavailable("no_supported_mode")]])
        /\ UNCHANGED <<now, work, registry, outside, spent>>

----------------------------------------------------------------------------
(***************************************************************************)
(* expressAll: the store and the bindings are read, every command is       *)
(* checked locally, and what survives is sent in chunks.                   *)
(***************************************************************************)
\* The results of a batch join the dispatches; the next batch is taken up.
BatchDone(call, results) ==
    LET batch == Head(call.todo)
        all   == [t \in DOMAIN call.outcome \cup {batch[i].task : i \in DOMAIN batch} |->
                    IF t \in DOMAIN call.outcome THEN call.outcome[t]
                    ELSE LET i == CHOOSE j \in DOMAIN batch : batch[j].task = t
                         IN  IF i \in DOMAIN results THEN results[i]
                             ELSE Unavailable("fleet_unreachable")]
    IN  [call EXCEPT !.pc = IF Len(call.todo) = 1 THEN "done" ELSE "store",
                     !.todo = Tail(@), !.prepared = <<>>, !.acks = <<>>,
                     !.results = <<>>, !.outcome = all]

\* The store is not there, or its gateway cannot reach the tags.
StoreUnusable(h, deployment) ==
    /\ At(h, "express", "store")
    /\ deployment = NotDeployed \/ ~deployment.reachable
    /\ LET reason == IF deployment = NotDeployed THEN "store_not_onboarded"
                     ELSE "fleet_unreachable"
       IN  Goes(h, BatchDone(calls[h],
                     [i \in DOMAIN Head(calls[h].todo) |-> Unavailable(reason)]))
    /\ UNCHANGED <<now, work, registry, outside, spent>>

Fits(t, live, rendering, tag) == live.rendering = rendering /\ live.tag = tag

\* What is known of a command without asking the gateway; "go" when it must be sent.
Preflight(command, binding) ==
    LET model == ModelByCode(Fleet, ModelOf[binding.tag])
        plan  == PlanExpression(command, model).rendering
        last  == lastCommandAt[binding.tag]
    IN  CASE binding = NoTag               -> "facing_has_no_tag"
          [] binding.state = "unbound"     -> "tag_unbound"
          [] command.tag \notin {Nothing, binding.tag} -> "tag_unbound"
          [] binding.state = "offline"     -> "tag_offline"
          [] binding.state = "flat"        -> "battery_too_low"
          [] plan.mode = "none"            -> "no_supported_mode"
          [] Live(command.task) /\ Fits(command.task, expressions[command.task], plan, binding.tag)
                                           -> "renew"
          [] last # Never /\ command.requestedAt - last < model.minCommandInterval
                                           -> "rate_limited"
          [] OTHER                         -> "go"

\* Mutant: the lease is added to what the caller asked for.
MutantExpiresAt(command, lease) == command.expiresAt + lease

\* The earlier of what the caller asked for and what the lease allows.
ExpiresAt(command, lease) == Earlier(command.expiresAt, command.requestedAt + lease)

Prepared(index, command, binding, lease) ==
    [index |-> index, task |-> command.task, tag |-> binding.tag, lease |-> lease,
     rendering |-> PlanExpression(command, ModelByCode(Fleet, ModelOf[binding.tag])).rendering,
     requestedAt |-> command.requestedAt, expiresAt |-> ExpiresAt(command, lease)]

\* A lease is extended in the registry.
Renewed(live, at, requestedExpiry) ==
    [live EXCEPT !.leaseExpiresAt = Earlier(requestedExpiry, at + live.lease)]

\* The numbers of a set, from the least to the greatest.
Ascending(S) ==
    CHOOSE s \in [1..Cardinality(S) -> S] :
        \A i, j \in 1..Cardinality(S) : i < j => s[i] < s[j]

\* Pre-flight of a batch, all of it before the first command is sent: the awaits on
\* the description of the store and on the bindings are one step.
Prepare(h, deployment) ==
    LET call   == calls[h]
        batch  == Head(call.todo)
        Of(i)  == bindings[batch[i].facing]
        checks == [i \in DOMAIN batch |-> Preflight(batch[i], Of(i))]
        lease  == LeaseFor(Fleet, deployment)
        going  == Ascending({i \in DOMAIN batch : checks[i] = "go"})
        answers == [i \in {j \in DOMAIN batch : checks[j] # "go"} |->
                      IF checks[i] = "renew" THEN Expressed(expressions[batch[i].task].rendering.mode)
                      ELSE Unavailable(checks[i])]
        next   == [call EXCEPT !.pc = "gateway", !.results = answers,
                               !.prepared = Chunk([k \in DOMAIN going |->
                                   Prepared(going[k], batch[going[k]], Of(going[k]), lease)],
                                 OrDefault(deployment.batchLimit, Fleet.batchLimit))]
    IN  /\ At(h, "express", "store")
        /\ deployment # NotDeployed /\ deployment.reachable
        /\ Goes(h, IF going = <<>> THEN BatchDone(next, answers) ELSE next)
        /\ expressions' = [t \in DOMAIN expressions |->
             IF \E i \in DOMAIN batch : checks[i] = "renew" /\ batch[i].task = t
             THEN LET i == CHOOSE j \in DOMAIN batch : batch[j].task = t
                  IN  Renewed(expressions[t], batch[i].requestedAt, batch[i].expiresAt)
             ELSE expressions[t]]
        /\ UNCHANGED <<now, work, byId, lastCommandAt, outside, spent>>

\* Which of the vendor's refusals it is makes no difference here.
Refused == Unavailable(RefusalReason(Fleet, CHOOSE c \in DOMAIN Fleet.refusalCodes : TRUE))

\* What an ack makes of a command; no ack tells nothing, and counts as a failure.
ResultOf(entry, acks, position) ==
    IF position \notin DOMAIN acks THEN Unavailable("fleet_unreachable")
    ELSE CASE acks[position] = "refused" -> Refused
           [] acks[position] = "queued"  -> Queued(entry.rendering.mode)
           [] acks[position] = "applied" -> Expressed(entry.rendering.mode)

LiveFrom(entry) ==
    [tag |-> entry.tag, rendering |-> entry.rendering, lease |-> entry.lease,
     payload |-> entry, leaseExpiresAt |-> entry.expiresAt]

\* Mutant: acks are matched with the commands from the end of the chunk.
MutantFromTheEnd(chunk, acks, position) == Len(chunk) - Len(acks) + position

\* The command an ack is for.
Position(chunk, acks, position) == position

Answered(chunk, acks) ==
    [k \in DOMAIN chunk |-> ResultOf(chunk[k], acks, Position(chunk, acks, k))]

\* What a chunk was answered joins the results of its batch.
Joined(results, chunk, done) ==
    [i \in DOMAIN results \cup {chunk[k].index : k \in DOMAIN chunk} |->
       IF i \in DOMAIN results THEN results[i]
       ELSE done[CHOOSE k \in DOMAIN chunk : chunk[k].index = i]]

\* The acks of a chunk are applied, and the next chunk goes out.
ApplyAcks(h) ==
    LET call   == calls[h]
        chunk  == Head(call.prepared)
        done   == Answered(chunk, call.acks)
        lit    == {k \in DOMAIN chunk : done[k].status = "expressed"}
        sent   == {k \in DOMAIN chunk : done[k].status # "unavailable"}
        results == Joined(call.results, chunk, done)
        next   == [call EXCEPT !.pc = "gateway", !.results = results,
                               !.prepared = Tail(@), !.acks = <<>>]
    IN  /\ At(h, "express", "acks")
        /\ Goes(h, IF Len(call.prepared) = 1 THEN BatchDone(next, results) ELSE next)
        /\ expressions' = [t \in DOMAIN expressions \cup {chunk[k].task : k \in lit} |->
             IF \E k \in lit : chunk[k].task = t
             THEN LiveFrom(chunk[CHOOSE k \in lit : chunk[k].task = t])
             ELSE expressions[t]]
        /\ byId' = byId \cup {chunk[k].task : k \in lit}
        /\ lastCommandAt' = [g \in Tag |->
             IF \E k \in sent : chunk[k].tag = g
             THEN chunk[CHOOSE k \in sent : chunk[k].tag = g].requestedAt
             ELSE lastCommandAt[g]]
        /\ UNCHANGED <<now, work, outside, spent>>

----------------------------------------------------------------------------
(***************************************************************************)
(* refresh and clear.                                                      *)
(***************************************************************************)
Request(op, t, live, pc, sent) ==
    [op |-> op, pc |-> pc, at |-> now, task |-> t, live |-> live, sent |-> sent,
     acks |-> <<>>]

\* A lapsed expression is forgotten; a live one goes out again as it was sent.
Refresh(h, t) ==
    /\ ~work[t].verified
    /\ t \in byId /\ Live(t)
    /\ Spend(1)
    /\ IF expressions[t].leaseExpiresAt <= now
       THEN /\ expressions' = Forget(expressions, t)
            /\ byId' = byId \ {t}
            /\ UNCHANGED calls
       ELSE /\ Open(h, Request("refresh", t, expressions[t], "gateway",
                               <<expressions[t].payload>>))
            /\ UNCHANGED <<expressions, byId>>
    /\ UNCHANGED <<now, work, lastCommandAt, outside>>

Accepted(acks) == acks # <<>> /\ acks[1] # "refused"

\* The expression that was read before the await is put back with its new lease.
Refreshed(h) ==
    LET call == calls[h]
    IN  /\ At(h, "refresh", "acks")
        /\ Goes(h, Idle)
        /\ expressions' =
             IF Accepted(call.acks)
             THEN Record(expressions, call.task,
                         Renewed(call.live, call.at, call.at + call.live.lease))
             ELSE expressions
        /\ UNCHANGED <<now, work, byId, lastCommandAt, outside, spent>>

\* The loop verifies a task and clears its expression; an expression that is not
\* in the registry is not looked for.
Verify(h, t) ==
    /\ ~work[t].verified
    /\ work' = [work EXCEPT ![t].verified = TRUE]
    /\ IF Live(t)
       THEN Open(h, Request("clear", t, expressions[t], "bindings", <<>>))
       ELSE UNCHANGED calls
    /\ Spend(1)
    /\ UNCHANGED <<now, registry, outside>>

\* Mutant: the entry goes and the index still leads to it.
MutantForgetHalf(t) ==
    expressions' = Forget(expressions, t) /\ UNCHANGED byId

ForgetLive(t) == expressions' = Forget(expressions, t) /\ byId' = byId \ {t}

\* The release goes to the tag that is bound now; without one the entry is dropped.
Release(h) ==
    LET call    == calls[h]
        binding == bindings[FacingOf[call.task]]
    IN  /\ At(h, "clear", "bindings")
        /\ CASE binding = NoTag -> ForgetLive(call.task) /\ Goes(h, Idle)
             [] binding.state = "offline" -> Goes(h, Idle) /\ UNCHANGED <<expressions, byId>>
             [] OTHER ->
                  /\ Goes(h, [call EXCEPT !.pc = "gateway",
                                !.sent = <<[task |-> call.task, tag |-> binding.tag]>>])
                  /\ UNCHANGED <<expressions, byId>>
        /\ UNCHANGED <<now, work, lastCommandAt, outside, spent>>

Cleared(h) ==
    /\ At(h, "clear", "acks")
    /\ Goes(h, Idle)
    /\ IF Accepted(calls[h].acks) THEN ForgetLive(calls[h].task)
       ELSE UNCHANGED <<expressions, byId>>
    /\ UNCHANGED <<now, work, lastCommandAt, outside, spent>>

----------------------------------------------------------------------------
(***************************************************************************)
(* The gateway, the tags and the process.                                  *)
(***************************************************************************)
Shows(entry) ==
    LET until == DarkAt(Fleet, now, entry.requestedAt, entry.expiresAt)
    IN  IF until <= now THEN Dark
        ELSE [task |-> entry.task, shows |-> EncodeExpression(Fleet, entry.rendering),
              until |-> until]

Command(op, entry) == [release |-> op = "clear", entry |-> entry]

Executed(command) == IF command.release THEN Dark ELSE Shows(command.entry)

\* What the gateway has said of each command: what it answered, or nothing.
SaidOf(said, sent, did, answered) ==
    [t \in DOMAIN said \cup {sent[k].task : k \in DOMAIN sent} |->
       IF t \in DOMAIN said THEN said[t]
       ELSE LET k == CHOOSE j \in DOMAIN sent : sent[j].task = t
            IN  IF k <= answered THEN did[k] ELSE "silent"]

\* The gateway works a request off, command by command, and answers for all of
\* them or only for the first few; a call that fails is answered for none of them.
GatewayAnswers(h) ==
    LET call == calls[h]
        sent == IF call.op = "express" THEN Head(call.prepared) ELSE call.sent
        last(g, S) == {k \in S : sent[k].tag = g /\ \A j \in S : sent[j].tag = g => j <= k}
    IN  /\ calls[h] # Idle /\ call.pc = "gateway"
        /\ \E did \in [DOMAIN sent -> Outcomes],
              answered \in (IF MayCutShort THEN 0..Len(sent) ELSE {Len(sent)}) :
             LET taken == {k \in DOMAIN sent : did[k] # "refused"}
                 Now(g)   == {k \in last(g, taken) : did[k] = "applied"}
                 Later(g) == {k \in last(g, taken) : did[k] = "queued"}
                 heard == [call EXCEPT !.pc = "acks",
                                       !.acks = [k \in 1..answered |-> did[k]]]
             IN  /\ Goes(h, IF call.op # "express" THEN heard
                            ELSE [heard EXCEPT !.said = SaidOf(call.said, sent, did, answered)])
                 /\ tags' = [g \in Tag |->
                      IF Now(g) = {} THEN tags[g]
                      ELSE Executed(Command(call.op, sent[CHOOSE k \in Now(g) : TRUE]))]
                 /\ waiting' = [g \in Tag |->
                      IF Later(g) # {} THEN Command(call.op, sent[CHOOSE k \in Later(g) : TRUE])
                      ELSE IF Now(g) # {} THEN NoCommand ELSE waiting[g]]
        /\ UNCHANGED <<now, work, registry, bindings, spent>>

\* A tag wakes up and gets the command the gateway holds for it.
WakeUp(g) ==
    /\ waiting[g] # NoCommand
    /\ tags' = [tags EXCEPT ![g] = Executed(waiting[g])]
    /\ waiting' = [waiting EXCEPT ![g] = NoCommand]
    /\ UNCHANGED <<now, work, registry, calls, bindings, spent>>

\* A battery is swapped, a tag drops out, or the facing loses its tag.
Rebind(f) ==
    /\ Spend(1)
    /\ \E g \in Tag, s \in BindingStates :
         /\ \A other \in Facing \ {f} : bindings[other].tag # g
         /\ bindings' = [bindings EXCEPT ![f] = IF s = "none" THEN NoTag
                                               ELSE [tag |-> g, state |-> s]]
    /\ bindings' # bindings
    /\ UNCHANGED <<now, work, registry, calls, tags, waiting>>

\* The process restarts: the registry and the open calls are gone.
Restart ==
    /\ Spend(1)
    /\ calls' = [h \in Handler |-> Idle]
    /\ expressions' = <<>> /\ byId' = {}
    /\ lastCommandAt' = [g \in Tag |-> Never]
    /\ UNCHANGED <<now, work, outside>>

\* A caller reads the results of its call.
Return(h) ==
    /\ At(h, "express", "done")
    /\ Goes(h, Idle)
    /\ UNCHANGED <<now, work, registry, outside, spent>>

\* The clock runs on while a tag is lit; a tag goes dark when its time is up.  An
\* instant is long: only a command on its way to the tags outlasts one.
Waits(h) == calls[h] # Idle /\ calls[h].pc # "gateway"
LastInstant == Horizon + MaxEvents * Fleet.lease
TimePasses ==
    /\ ~\E h \in Handler : Waits(h)
    /\ now < Horizon \/ (now < LastInstant /\ \E g \in Tag : tags[g] # Dark)
    /\ now' = now + 1
    /\ tags' = [g \in Tag |-> IF tags[g].until <= now + 1 THEN Dark ELSE tags[g]]
    /\ UNCHANGED <<work, registry, calls, bindings, waiting, spent>>

----------------------------------------------------------------------------
Starts(h) ==
    /\ now < Horizon
    /\ \/ \E ts \in Worklists : Dispatch(h, ts)
       \/ \E t \in Handled : Escalate(h, t) \/ Refresh(h, t) \/ Verify(h, t)

Resumes(h) ==
    \/ \E d \in Deployments :
         ReadCapabilities(h, d) \/ StoreUnusable(h, d) \/ Prepare(h, d)
    \/ ApplyAcks(h) \/ Refreshed(h) \/ Release(h) \/ Cleared(h) \/ Return(h)

Next ==
    \/ \E h \in Handler : Starts(h) \/ Resumes(h) \/ GatewayAnswers(h)
    \/ \E g \in Tag : WakeUp(g)
    \/ \E t \in Handled : Rebind(FacingOf[t])
    \/ Restart
    \/ TimePasses

Spec == Init /\ [][Next]_vars

\* While a call is open, or a command held, something of it goes on; time passes.
Fairness ==
    /\ WF_vars(TimePasses)
    /\ WF_vars(\E h \in Handler : Resumes(h) \/ GatewayAnswers(h))
    /\ WF_vars(\E g \in Tag : WakeUp(g))

FairSpec == Spec /\ Fairness

----------------------------------------------------------------------------
\* What the caller is told of a command is what the gateway said of that very
\* command, through batches, chunks and answers that stop short; silence is a
\* failure, and no task of the worklist is left without a result.
Told == [applied |-> "expressed", queued |-> "queued", refused |-> "unavailable",
         silent |-> "unavailable"]

AnswersMatchAcks ==
    \A h \in Handler : calls[h] # Idle /\ calls[h].pc = "done" =>
      /\ DOMAIN calls[h].outcome = Asked(calls[h])
      /\ \A t \in DOMAIN calls[h].said :
           calls[h].outcome[t].status = Told[calls[h].said[t]]

\* The leases a store may be granted.
Leases == {LeaseFor(Fleet, d) : d \in Deployments}

\* No tag is ever lit, and no expression claimed, further ahead than one lease.
LeasedAhead ==
    /\ \A g \in Tag : tags[g] # Dark =>
         \E lease \in Leases : tags[g].until <= now + lease
    /\ \A t \in DOMAIN expressions :
         \E lease \in Leases : expressions[t].leaseExpiresAt <= now + lease

\* The index by expression id never leads to an entry that is gone, whichever
\* calls overlap.
IndexNeverDangles == byId \subseteq DOMAIN expressions

\* Whatever was lost, queued, rebound or forgotten, the light of finished work
\* goes out and stays out.
LitFor(t) == \/ \E g \in Tag : tags[g].task = t
             \/ \E g \in Tag : waiting[g].entry.task = t /\ ~waiting[g].release
FinishedWorkGoesDark == \A t \in Handled : <>[](work[t].verified => ~LitFor(t))

\* When a dispatch returns, each of its tasks is on the shelf, or on its way there, or
\* routed to the handheld list.
CarriedOrRouted ==
    \A h \in Handler : calls[h] # Idle /\ calls[h].pc = "done" =>
      \A t \in DOMAIN calls[h].outcome :
        LitFor(t) \/ work[t].verified \/ RouteElsewhere(calls[h].outcome[t])
=============================================================================
