---------------------------- MODULE TaskDispatch ----------------------------
(***************************************************************************)
(* From a ranked worklist to typed tasks, and from a task to the command   *)
(* that asks a fleet to express it: the half of create-tasks.use-case that *)
(* talks to nobody.  Priorities are counted from 0 (low) to 3 (critical).  *)
(***************************************************************************)
EXTENDS TagModels, GapRanking

StandardDispatchPolicy ==
    [criticalThroughRank |-> 3, highThroughRank |-> 10, normalThroughRank |-> 25,
     flashByPriority |-> [p \in 0..3 |-> CASE p = 3 -> "fast" [] p = 2 -> "slow"
                                           [] OTHER -> Nothing]]

PriorityForRank(rank, policy) ==
    CASE rank <= policy.criticalThroughRank -> 3
      [] rank <= policy.highThroughRank     -> 2
      [] rank <= policy.normalThroughRank   -> 1
      [] OTHER                              -> 0

\* One task per gap of the worklist, typed by the gap, in the lane of the type.
PlanTasks(mapping, worklist, policy) ==
    [rank \in DOMAIN worklist |->
       LET gap  == worklist[rank].gap
           type == TaskTypeForGap(gap.kind)
       IN  [store |-> gap.store, facing |-> gap.facing, type |-> type,
            lane |-> LaneFor(mapping, type), priority |-> PriorityForRank(rank, policy)]]

\* planTasks throws on a lane that is held back.
PlanThrows(mapping, worklist) ==
    \E rank \in DOMAIN worklist :
      IsReservedLane(LaneFor(mapping, TaskTypeForGap(worklist[rank].gap.kind)))

----------------------------------------------------------------------------
\* A deployment: the model codes of a store, whether the gateway reaches its tags,
\* and the batch and lease it sets itself (0: it leaves them to the vendor).
NotDeployed == [codes |-> {}, reachable |-> FALSE, batchLimit |-> 0, lease |-> 0]

OrDefault(own, default) == IF own = 0 THEN default ELSE own

LeaseFor(profile, deployment) == OrDefault(deployment.lease, profile.lease)

\* What a fleet declares of a store; a store it does not know, and a gateway that
\* cannot reach its tags, can express nothing.
DescribeCapabilities(profile, deployment) ==
    IF deployment = NotDeployed
    THEN [supportedModes |-> {"none"}, flashPatterns |-> {}, ladder |-> profile.ladder,
          batchLimit |-> profile.batchLimit, lease |-> profile.lease]
    ELSE LET union == UnionOfModels({ModelByCode(profile, c) : c \in deployment.codes})
         IN  [supportedModes |-> {"none"} \cup
                                 (IF deployment.reachable THEN union.modes ELSE {}),
              flashPatterns  |-> union.flashPatterns,
              ladder         |-> profile.ladder,
              batchLimit     |-> OrDefault(deployment.batchLimit, profile.batchLimit),
              lease          |-> LeaseFor(profile, deployment)]

LadderFor(capabilities) ==
    IF capabilities.ladder = <<>> THEN StandardDegradationLadder ELSE capabilities.ladder

CanExpress(capabilities) ==
    \E mode \in ToSet(LadderFor(capabilities)) \ {"none"} : mode \in capabilities.supportedModes

FlashFor(priority, capabilities, policy) ==
    IF policy.flashByPriority[priority] \in capabilities.flashPatterns
    THEN policy.flashByPriority[priority] ELSE Nothing

\* The caller's ladder is not trimmed to what the fleet supports, and the tag is
\* left to the adapter to find.
BuildExpressCommand(task, capabilities, at, policy) ==
    [task |-> task.id, facing |-> task.facing, tag |-> Nothing, lane |-> task.lane,
     flashPattern |-> FlashFor(task.priority, capabilities, policy), badge |-> TRUE,
     modePreference |-> LadderFor(capabilities),
     expiresAt |-> at + capabilities.lease, requestedAt |-> at]

Chunk(items, size) ==
    LET limit == Max({1, size})
    IN  [i \in 1..((Len(items) + limit - 1) \div limit) |->
           SubSeq(items, (i - 1) * limit + 1, Min({i * limit, Len(items)}))]

\* A task the shelf could not carry reaches the employee on the handheld list.
RouteElsewhere(result) == result.status = "unavailable" \/ result.mode = "none"
=============================================================================
