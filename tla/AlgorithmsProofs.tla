-------------------------- MODULE AlgorithmsProofs --------------------------
(***************************************************************************)
(* What the algorithms promise of every input: sample stands for any value,*)
(* not only for those that TLC tries.  At the end, what a container builds *)
(* of every wiring.                                                        *)
(***************************************************************************)
EXTENDS MCAlgorithms, SumsAndOrders

----------------------------------------------------------------------------
(***************************************************************************)
(* The plan of a pilot.                                                    *)
(***************************************************************************)
\* A plan that is accepted has passed every check, and is the plan of the tenants.
LEMMA AcceptedPlan ==
    ASSUME NEW tenants, NEW window, NEW options, NEW plan,
           plan = P!PlanPilotDeployment(tenants, window, options), plan.ok
    PROVE  /\ P!PilotWindow(window, tenants)
           /\ P!RetentionOutlivesPilot(tenants, window)
           /\ P!DistinctTenants(tenants)
           /\ \A i \in DOMAIN tenants :
                /\ P!RetentionIsCoherent(tenants[i].retention)
                /\ P!SourcesAreKnown(tenants[i])
           /\ DOMAIN plan.stores = DOMAIN tenants /\ DOMAIN plan.bus = DOMAIN tenants
           /\ \A i \in DOMAIN tenants :
                /\ plan.stores[i] = P!PlanRetailerDataStore(tenants[i])
                /\ plan.bus[i] = P!PlanRetailerBus(tenants[i], options)
           /\ P!NoCrossRetailerPooling(plan.stores)
           /\ P!NoCrossRetailerTopics(plan.bus)
           /\ P!BusRetentionFits(plan.bus, tenants)
<1>1. PICK stores : stores = [i \in DOMAIN tenants |-> P!PlanRetailerDataStore(tenants[i])]
  OBVIOUS
<1>2. PICK bus : bus = [i \in DOMAIN tenants |-> P!PlanRetailerBus(tenants[i], options)]
  OBVIOUS
<1>3. /\ P!PilotSize(tenants) /\ P!PilotWindow(window, tenants)
      /\ P!RetentionOutlivesPilot(tenants, window) /\ P!DistinctTenants(tenants)
      /\ \A i \in DOMAIN tenants : /\ P!EncryptionIsDeployable(tenants[i].encryption)
                                   /\ P!RetentionIsCoherent(tenants[i].retention)
      /\ P!NoCrossRetailerPooling(stores)
      /\ \A i \in DOMAIN tenants :
           P!SourcesAreKnown(tenants[i]) /\ P!TopicFitsOnePartition(tenants[i])
      /\ P!NoCrossRetailerTopics(bus)
      /\ P!BusRetentionFits(bus, tenants)
  BY <1>1, <1>2 DEF P!PlanPilotDeployment
<1>4. plan.stores = stores /\ plan.bus = bus
  BY <1>1, <1>2, <1>3 DEF P!PlanPilotDeployment
<1> QED BY <1>1, <1>2, <1>3, <1>4

\* The names of a tenant's stores, the tables its jobs expire, and its topics.
LEMMA StoreOfTenant ==
    ASSUME NEW tenant, NEW store, store = P!PlanRetailerDataStore(tenant)
    PROVE  /\ store.namespaces = P!NamespacesOf(tenant)
           /\ \A x \in store.retentionJobs : x.schema \in P!OwnNames(P!NamespacesOf(tenant))
BY DEF P!PlanRetailerDataStore, P!OwnNames

LEMMA BusOfTenant ==
    ASSUME NEW tenant, NEW options, NEW bus, bus = P!PlanRetailerBus(tenant, options)
    PROVE  bus.topicPrefix.retailer = tenant.slug
<1>1. bus.topicPrefix = P!NamespacesOf(tenant).topicPrefix BY DEF P!PlanRetailerBus
<1> QED BY <1>1 DEF P!NamespacesOf

\* The detection topic of a source, with the retention of the options.
LEMMA DetectionTopicOfSource ==
    ASSUME NEW tenant, NEW options, NEW s \in P!ToSet(tenant.sources)
    PROVE  \E t \in P!PlanRetailerBus(tenant, options).topics :
             /\ t.name = P!Topic(tenant, "detections", s)
             /\ t.purpose = "detection" /\ t.retention = options.detectionRetention
<1> DEFINE group  == P!NamespacesOf(tenant).consumerGroup
           Writer(x) == P!ProducerPrincipal(tenant, x)
           Acl(principal, operation, topic) ==
             [principal |-> principal, operation |-> operation, resource |-> topic]
           Spec_(purpose, topic, retention, from, to) ==
             [name |-> topic, purpose |-> purpose, retention |-> retention, partitions |-> 1,
              minInSyncReplicas |-> P!Max({1, options.replicationFactor - 1}),
              key  |-> tenant.encryption.dataKeyRef,
              acls |-> {Acl(from, "write", topic), Acl(to, "read", topic)}]
           Detections(x) == Spec_("detection", P!Topic(tenant, "detections", x),
                                  options.detectionRetention, Writer(x), group)
           DeadLetters(x) == Spec_("dead_letter", P!Topic(tenant, "dead-letters", x),
                                   options.deadLetterRetention, group, Writer(x))
<1>1. PICK t : t = Detections(s) OBVIOUS
<1>2. t \in P!PlanRetailerBus(tenant, options).topics
  <2>1. P!PlanRetailerBus(tenant, options).topics
          = UNION {{Detections(x), DeadLetters(x)} : x \in P!ToSet(tenant.sources)}
    BY DEF P!PlanRetailerBus
  <2> HIDE DEF Detections, DeadLetters
  <2> QED BY <1>1, <2>1
<1>3. /\ t.name = P!Topic(tenant, "detections", s)
      /\ t.purpose = "detection" /\ t.retention = options.detectionRetention
  BY <1>1
<1> QED BY <1>2, <1>3

\* Grants of two tenants of an accepted plan name different principals and topics.
LEMMA GrantsApart ==
    ASSUME NEW bus, P!NoCrossRetailerTopics(bus), NEW i \in DOMAIN bus, NEW j \in DOMAIN bus,
           i # j, bus[i].topicPrefix.retailer # bus[j].topicPrefix.retailer,
           NEW t \in bus[i].topics, NEW u \in bus[j].topics, NEW g \in t.acls, NEW h \in u.acls
    PROVE  g.principal # h.principal /\ g.resource # h.resource
<1>1. g.principal \in P!Principals(bus[i]) /\ h.principal \in P!Principals(bus[j])
  BY DEF P!Principals
<1>2. g.principal # h.principal BY <1>1 DEF P!NoCrossRetailerTopics
<1>3. P!InNamespace(g.resource, bus[i].topicPrefix) /\ P!InNamespace(h.resource, bus[j].topicPrefix)
  BY DEF P!NoCrossRetailerTopics
<1> QED BY <1>2, <1>3 DEF P!InNamespace

\* A plan that is accepted keeps the retailers apart, however their slugs are made up.
THEOREM AcceptedPlansKeepApart == PilotKeepsApart
<1> DEFINE tenants == sample.tenants
<1>1. PICK options : options = [P!StandardBusOptions EXCEPT !.detectionRetention = sample.retention]
  OBVIOUS
<1>2. PICK plan :
        plan = P!PlanPilotDeployment(tenants, [from |-> 0, to |-> sample.to], options)
  OBVIOUS
<1>3. SUFFICES ASSUME plan.ok, NEW i \in DOMAIN tenants, NEW j \in DOMAIN tenants, i # j
      PROVE  /\ P!OwnNames(P!NamespacesOf(tenants[i])) \cap P!OwnNames(P!NamespacesOf(tenants[j])) = {}
             /\ P!Keys(tenants[i]) \cap P!Keys(tenants[j]) = {}
             /\ {<<x.schema, x.table>> : x \in plan.stores[i].retentionJobs}
                  \cap {<<x.schema, x.table>> : x \in plan.stores[j].retentionJobs} = {}
             /\ \A g \in UNION {t.acls : t \in plan.bus[i].topics},
                   h \in UNION {t.acls : t \in plan.bus[j].topics} :
                  g.principal # h.principal /\ g.resource # h.resource
             /\ P!CreateDetectionConsumer(tenants[i].retailer,
                  P!SubscriptionsForRetailer(plan, tenants[i].retailer))
             /\ \A s \in P!SubscriptionsForRetailer(plan, tenants[i].retailer) :
                  s.topic \in {t.name : t \in plan.bus[i].topics}
  BY <1>1, <1>2, ZenonT(60) DEF PilotKeepsApart, PlanOf
<1> HIDE DEF tenants
<1>4. /\ P!DistinctTenants(tenants)
      /\ DOMAIN plan.stores = DOMAIN tenants /\ DOMAIN plan.bus = DOMAIN tenants
      /\ \A k \in DOMAIN tenants :
           /\ plan.stores[k] = P!PlanRetailerDataStore(tenants[k])
           /\ plan.bus[k] = P!PlanRetailerBus(tenants[k], options)
      /\ P!NoCrossRetailerPooling(plan.stores) /\ P!NoCrossRetailerTopics(plan.bus)
  BY <1>2, <1>3, AcceptedPlan
<1>5. P!OwnNames(P!NamespacesOf(tenants[i])) \cap P!OwnNames(P!NamespacesOf(tenants[j])) = {}
  <2>1. \A k \in DOMAIN tenants : plan.stores[k].namespaces = P!NamespacesOf(tenants[k])
    BY <1>4, StoreOfTenant
  <2> QED BY <1>3, <1>4, <2>1 DEF P!NoCrossRetailerPooling
<1>6. P!Keys(tenants[i]) \cap P!Keys(tenants[j]) = {} BY <1>3, <1>4 DEF P!DistinctTenants
<1>7. {<<x.schema, x.table>> : x \in plan.stores[i].retentionJobs}
        \cap {<<x.schema, x.table>> : x \in plan.stores[j].retentionJobs} = {}
  <2>1. ASSUME NEW k \in DOMAIN tenants, NEW x \in plan.stores[k].retentionJobs
        PROVE  x.schema \in P!OwnNames(P!NamespacesOf(tenants[k]))
    BY <1>4, <2>1, StoreOfTenant
  <2>2. ASSUME NEW x \in plan.stores[i].retentionJobs, NEW y \in plan.stores[j].retentionJobs
        PROVE  x.schema # y.schema
    BY <1>5, <2>1
  <2> QED BY <2>2
<1>8. ASSUME NEW t \in plan.bus[i].topics, NEW u \in plan.bus[j].topics,
             NEW g \in t.acls, NEW h \in u.acls
      PROVE  g.principal # h.principal /\ g.resource # h.resource
  <2>1. \A k \in DOMAIN tenants : plan.bus[k].topicPrefix.retailer = tenants[k].slug
    BY <1>4, BusOfTenant
  <2>2. tenants[i].slug # tenants[j].slug BY <1>3, <1>4 DEF P!DistinctTenants
  <2>3. plan.bus[i].topicPrefix.retailer # plan.bus[j].topicPrefix.retailer
    BY <1>3, <2>1, <2>2
  <2> QED BY <1>3, <1>4, <2>3, GrantsApart
<1>9. ASSUME NEW s \in P!SubscriptionsForRetailer(plan, tenants[i].retailer)
      PROVE  s.retailer = tenants[i].retailer /\ s.topic \in {t.name : t \in plan.bus[i].topics}
  <2>1. PICK k \in DOMAIN tenants : s \in P!PlanRetailerBus(tenants[k], options).subscriptions
    BY <1>4 DEF P!SubscriptionsForRetailer
  <2>2. s.retailer = tenants[i].retailer BY DEF P!SubscriptionsForRetailer
  <2>3. PICK source \in P!ToSet(tenants[k].sources) :
          /\ s.topic = P!Topic(tenants[k], "detections", source)
          /\ s.retailer = tenants[k].retailer
    BY <2>1 DEF P!PlanRetailerBus
  <2>4. tenants[k].retailer = tenants[i].retailer BY <2>2, <2>3
  <2>6. P!DistinctTenants(tenants) BY <1>4
  <2>7. k = i BY <2>4, <2>6 DEF P!DistinctTenants
  <2>5. PICK t \in plan.bus[i].topics : t.name = s.topic
    BY <1>3, <1>4, <2>3, <2>7, DetectionTopicOfSource
  <2> QED BY <2>2, <2>5
<1>10. P!CreateDetectionConsumer(tenants[i].retailer,
         P!SubscriptionsForRetailer(plan, tenants[i].retailer))
  BY <1>9 DEF P!CreateDetectionConsumer
<1> QED BY <1>5, <1>6, <1>7, <1>8, <1>9, <1>10

\* Horizons, retentions and dates count days; a tenant lists its sources.
PilotTypeOK(s) ==
    /\ s.to \in Int /\ s.retention \in Int
    /\ \A i \in DOMAIN s.tenants :
         /\ s.tenants[i].onboardedAt \in Int
         /\ s.tenants[i].retention.horizons \in [P!DataClasses -> Int]
         /\ s.tenants[i].sources \in Seq(STRING)

LEMMA LatestOfTwo ==
    ASSUME NEW a \in Int, NEW b \in Int
    PROVE  /\ P!Max({a, b}) = IF a >= b THEN a ELSE b
           /\ Max({a, b}) = IF a >= b THEN a ELSE b
BY DEF P!Max, Max

\* Of two classes of data the one with the longer horizon reaches further back.
LEMMA LongerReachesBack ==
    ASSUME NEW policy, policy.horizons \in [P!DataClasses -> Int],
           NEW c \in P!DataClasses, NEW d \in P!DataClasses,
           policy.horizons[c] >= policy.horizons[d], NEW joined \in Int, NEW now \in Int
    PROVE  P!RetainedFrom(policy, c, joined, now) <= P!RetainedFrom(policy, d, joined, now)
<1>1. PICK x, y : x = policy.horizons[c] /\ y = policy.horizons[d] OBVIOUS
<1>2. x \in Int /\ y \in Int /\ x >= y BY <1>1
<1>3. CASE policy.legalHold BY <1>3 DEF P!RetainedFrom
<1>4. CASE ~policy.legalHold
  <2>1. /\ P!Max({joined, now - x}) = IF joined >= now - x THEN joined ELSE now - x
        /\ P!Max({joined, now - y}) = IF joined >= now - y THEN joined ELSE now - y
    BY <1>2, LatestOfTwo
  <2>2. P!Max({joined, now - x}) <= P!Max({joined, now - y}) BY <1>2, <2>1
  <2> QED BY <1>1, <1>4, <2>2 DEF P!RetainedFrom
<1> QED BY <1>3, <1>4

\* A plan that is accepted can answer for the pilot, on whatever days it is asked:
\* the horizons are checked against each other, the window and the topics.
THEOREM AcceptedPlansRemember ==
    ASSUME sample.about = "pilot" => PilotTypeOK(sample)
    PROVE  PilotRemembers
<1> DEFINE tenants == sample.tenants
<1>1. PICK options : options = [P!StandardBusOptions EXCEPT !.detectionRetention = sample.retention]
  OBVIOUS
<1>2. PICK plan :
        plan = P!PlanPilotDeployment(tenants, [from |-> 0, to |-> sample.to], options)
  OBVIOUS
<1> DEFINE Kept(t, class, now) == P!RetainedFrom(t.retention, class, t.onboardedAt, now)
<1>3. SUFFICES ASSUME PilotTypeOK(sample), plan.ok,
                      NEW i \in DOMAIN tenants, NEW t, t = tenants[i]
      PROVE  /\ P!AuditRetentionOf(t.retention, t.onboardedAt, sample.to).retainedFrom
                  = t.onboardedAt
             /\ \A now \in {x \in Days : x >= t.onboardedAt} :
                  /\ Kept(t, "facing_history", now) <= Kept(t, "read_model_rollup", now)
                  /\ Kept(t, "audit_trail", now) <= Kept(t, "facing_history", now)
                  /\ Kept(t, "detection_event", now) <= Kept(t, "dead_letter", now)
                  /\ Max({t.onboardedAt, now - sample.retention})
                       >= Kept(t, "ingestion_ledger", now)
  BY <1>1, <1>2 DEF PilotRemembers, PlanOf, ToSet
<1> HIDE DEF tenants
<1>4. PICK h, joined, to, keep :
        /\ h = t.retention.horizons /\ joined = t.onboardedAt
        /\ to = sample.to /\ keep = sample.retention
  OBVIOUS
<1>5. h \in [P!DataClasses -> Int] /\ joined \in Int /\ to \in Int /\ keep \in Int
  BY <1>3, <1>4 DEF PilotTypeOK, tenants
<1>6. /\ \A p \in P!RetentionLadder : h[p[1]] >= h[p[2]]
      /\ h["facing_history"] >= to /\ joined \in 0..(to - 1)
  <2>1. /\ P!PilotWindow([from |-> 0, to |-> to], tenants)
        /\ P!RetentionOutlivesPilot(tenants, [from |-> 0, to |-> to])
        /\ P!RetentionIsCoherent(tenants[i].retention)
    BY <1>2, <1>3, <1>4, AcceptedPlan
  <2>2. \A p \in P!RetentionLadder : h[p[1]] >= h[p[2]]
    BY <1>3, <1>4, <2>1 DEF P!RetentionIsCoherent
  <2>3. h["facing_history"] >= to - 0 BY <1>3, <1>4, <2>1 DEF P!RetentionOutlivesPilot
  <2>4. joined \in 0..(to - 1) BY <1>3, <1>4, <2>1 DEF P!PilotWindow
  <2> QED BY <1>5, <2>2, <2>3, <2>4
<1>7. keep <= h["ingestion_ledger"]
  <2>1. /\ P!SourcesAreKnown(tenants[i]) /\ P!BusRetentionFits(plan.bus, tenants)
        /\ DOMAIN plan.bus = DOMAIN tenants
        /\ plan.bus[i] = P!PlanRetailerBus(tenants[i], options)
    <3>1. P!SourcesAreKnown(tenants[i]) BY <1>2, <1>3, AcceptedPlan
    <3>2. P!BusRetentionFits(plan.bus, tenants) BY <1>2, <1>3, AcceptedPlan
    <3>3. DOMAIN plan.bus = DOMAIN tenants BY <1>2, <1>3, AcceptedPlan
    <3>4. plan.bus[i] = P!PlanRetailerBus(tenants[i], options) BY <1>2, <1>3, AcceptedPlan
    <3> QED BY <3>1, <3>2, <3>3, <3>4
  <2>2. PICK s : s \in P!ToSet(tenants[i].sources)
    <3>1. PICK sources \in Seq(STRING) : sources = tenants[i].sources
      BY <1>3 DEF PilotTypeOK, tenants
    <3>2. sources # <<>> BY <2>1, <3>1 DEF P!SourcesAreKnown
    <3>3. 1 \in DOMAIN sources BY <3>2
    <3> QED BY <3>1, <3>3 DEF P!ToSet
  <2>3. PICK u \in plan.bus[i].topics :
          u.purpose = "detection" /\ u.retention = options.detectionRetention
    BY <1>3, <2>1, <2>2, DetectionTopicOfSource
  <2>4. u.retention = keep BY <1>1, <1>4, <2>3 DEF P!StandardBusOptions
  <2>5. u.retention <= tenants[i].retention.horizons["ingestion_ledger"]
    BY <1>3, <2>1, <2>3 DEF P!BusRetentionFits
  <2> QED BY <1>3, <1>4, <2>4, <2>5
<1>8. P!AuditRetentionOf(t.retention, t.onboardedAt, sample.to).retainedFrom = t.onboardedAt
  <2>1. PICK x : x = h["facing_history"] OBVIOUS
  <2>2. x \in Int /\ x >= to /\ joined >= 0 BY <1>5, <1>6, <2>1 DEF P!DataClasses
  <2>3. P!Max({joined, to - x}) = IF joined >= to - x THEN joined ELSE to - x
    BY <1>5, <2>2, LatestOfTwo
  <2>4. P!Max({joined, to - x}) = joined BY <1>5, <2>2, <2>3
  <2>5. P!RetainedFrom(t.retention, "facing_history", joined, to) = joined
    BY <1>4, <2>1, <2>4 DEF P!RetainedFrom
  <2> QED BY <1>4, <2>5 DEF P!AuditRetentionOf
<1>9. ASSUME NEW now \in Days
      PROVE  /\ Kept(t, "facing_history", now) <= Kept(t, "read_model_rollup", now)
             /\ Kept(t, "audit_trail", now) <= Kept(t, "facing_history", now)
             /\ Kept(t, "detection_event", now) <= Kept(t, "dead_letter", now)
             /\ Max({joined, now - keep}) >= Kept(t, "ingestion_ledger", now)
  <2>1. now \in Int BY DaysAssumption
  <2>2. \A c, d \in P!DataClasses : h[c] >= h[d] => Kept(t, c, now) <= Kept(t, d, now)
    BY <1>4, <1>5, <2>1, LongerReachesBack
  <2>3. /\ h["facing_history"] >= h["read_model_rollup"]
        /\ h["audit_trail"] >= h["facing_history"]
        /\ h["detection_event"] >= h["dead_letter"]
    BY <1>6 DEF P!RetentionLadder
  <2>4. {"facing_history", "read_model_rollup", "audit_trail", "detection_event",
         "dead_letter", "ingestion_ledger"} \subseteq P!DataClasses
    BY DEF P!DataClasses
  <2>5. Max({joined, now - keep}) >= Kept(t, "ingestion_ledger", now)
    <3>1. PICK x : x = h["ingestion_ledger"] OBVIOUS
    <3>2. x \in Int /\ keep <= x BY <1>5, <1>7, <2>4, <3>1
    <3>3. /\ P!Max({joined, now - x}) = IF joined >= now - x THEN joined ELSE now - x
          /\ Max({joined, now - keep}) = IF joined >= now - keep THEN joined ELSE now - keep
      <4>1. now - x \in Int /\ now - keep \in Int BY <1>5, <2>1, <3>2
      <4> QED BY <1>5, <4>1, LatestOfTwo
    <3>4. /\ Max({joined, now - keep}) >= P!Max({joined, now - x})
          /\ Max({joined, now - keep}) >= joined
      BY <1>5, <2>1, <3>2, <3>3
    <3>5. Kept(t, "ingestion_ledger", now) \in {joined, P!Max({joined, now - x})}
      BY <1>4, <3>1 DEF P!RetainedFrom
    <3> QED BY <3>4, <3>5
  <2> HIDE DEF Kept
  <2> QED BY <2>2, <2>3, <2>4, <2>5
<1> QED BY <1>4, <1>8, <1>9

----------------------------------------------------------------------------
(***************************************************************************)
(* The light for a task.                                                   *)
(***************************************************************************)
LEMMA StandardLanes ==
    \A type \in D!TaskType : D!StandardColorLanes[type] \in D!LedColors \ D!ReservedLanes
<1> SUFFICES ASSUME NEW type \in D!TaskType
             PROVE  D!StandardColorLanes[type] \in D!LedColors \ D!ReservedLanes
  OBVIOUS
<1>1. PICK i : i = CHOOSE j \in 1..Len(D!TaskTypes) : D!TaskTypes[j] = type OBVIOUS
<1>2. D!StandardColorLanes[type] = D!StandardColors[i] BY <1>1 DEF D!StandardColorLanes
<1>3. DOMAIN D!TaskTypes = 1..8 /\ Len(D!TaskTypes) = 8 BY DEF D!TaskTypes
<1>4. \E j \in 1..8 : D!TaskTypes[j] = type BY <1>3 DEF D!TaskType, D!ToSet
<1>5. i \in 1..8 BY <1>1, <1>3, <1>4
<1>6. D!StandardColors[i] \in D!LedColors \ D!ReservedLanes
  BY <1>5 DEF D!StandardColors, D!LedColors, D!ReservedLanes
<1> QED BY <1>2, <1>6

\* A mapping that a retailer may have gives each type a lane of its own, none reserved.
LEMMA ResolvedLanes ==
    ASSUME NEW override, NEW resolved,
           resolved = D!ResolveColorLaneMap("r1", "r1", override), resolved.ok
    PROVE  /\ \A type \in D!TaskType :
                resolved.value.lanes[type] \in D!LedColors \ D!ReservedLanes
           /\ \A a, b \in D!TaskType :
                a # b => resolved.value.lanes[a] # resolved.value.lanes[b]
<1>1. /\ \A t \in DOMAIN override : ~D!IsReservedLane(override[t]) /\ override[t] \in D!LedColors
      /\ D!Exclusive(override)
      /\ resolved.value.lanes = D!Merged(override)
  BY DEF D!ResolveColorLaneMap, D!Ok, D!Err
<1>2. \A type \in D!TaskType :
        D!Merged(override)[type] = IF type \in DOMAIN override THEN override[type]
                                   ELSE D!StandardColorLanes[type]
  BY DEF D!Merged
<1>3. \A type \in D!TaskType : D!Merged(override)[type] \in D!LedColors \ D!ReservedLanes
  BY <1>1, <1>2, StandardLanes DEF D!IsReservedLane
<1> QED BY <1>1, <1>3 DEF D!Exclusive

\* Read back, the lane of a type is the lane of that type.
LEMMA LaneNamesType ==
    ASSUME NEW mapping, NEW type \in D!TaskType,
           \A a, b \in D!TaskType : a # b => mapping.lanes[a] # mapping.lanes[b]
    PROVE  D!TaskTypeForLane(mapping, D!LaneFor(mapping, type)) = type
<1> DEFINE at == {i \in 1..Len(D!TaskTypes) :
                    mapping.lanes[D!TaskTypes[i]] = mapping.lanes[type]}
           first == CHOOSE i \in at : \A j \in at : i <= j
<1>1. DOMAIN D!TaskTypes = 1..8 /\ Len(D!TaskTypes) = 8 BY DEF D!TaskTypes
<1>2. PICK k \in 1..8 : D!TaskTypes[k] = type BY <1>1 DEF D!TaskType, D!ToSet
<1>3. \A i \in 1..8 : D!TaskTypes[i] \in D!TaskType BY <1>1 DEF D!TaskType, D!ToSet
<1>4. \A i, j \in 1..8 : D!TaskTypes[i] = D!TaskTypes[j] => i = j BY DEF D!TaskTypes
<1>5. at = {k} BY <1>1, <1>2, <1>3, <1>4
<1>6. first = k BY <1>5
<1>7. D!TaskTypeForLane(mapping, D!LaneFor(mapping, type)) = D!TaskTypes[first]
  BY <1>5 DEF D!TaskTypeForLane, D!LaneFor
<1> QED BY <1>2, <1>6, <1>7

\* What the catalogues of the vendors have in common: patterns are listed slow first;
\* a tag that can pick to light blinks slow and fast; and where a colour is missing in
\* the encoding, the tags that have colours have them all.
CatalogueOK(profile, model) ==
    /\ profile.ladder = D!StandardDegradationLadder
    /\ model.flashPatterns \in {<<>>, <<"slow">>, <<"slow", "fast">>,
                                <<"slow", "fast", "double_pulse">>}
    /\ "pick_to_light" \in model.modes =>
         {"slow", "fast"} \subseteq D!ToSet(model.flashPatterns)
    /\ profile.ledWhite /\ model.colours # {} =>
         "lane_colour_steady" \in model.modes /\ D!LedColors \subseteq model.colours

LEMMA ListedPatterns ==
    /\ D!ToSet(<<>>) = {} /\ D!ToSet(<<"slow">>) = {"slow"}
    /\ D!ToSet(<<"slow", "fast">>) = {"slow", "fast"}
    /\ D!ToSet(<<"slow", "fast", "double_pulse">>) = {"slow", "fast", "double_pulse"}
<1>1. DOMAIN <<>> = {} /\ DOMAIN <<"slow">> = {1} /\ DOMAIN <<"slow", "fast">> = {1, 2}
      /\ DOMAIN <<"slow", "fast", "double_pulse">> = {1, 2, 3}
  OBVIOUS
<1> QED BY <1>1 DEF D!ToSet

LEMMA AperionOK == \A code : CatalogueOK(D!Aperion, D!ModelByCode(D!Aperion, code))
BY ListedPatterns DEF CatalogueOK, D!Aperion, D!Profile, D!Model, D!ModelByCode

LEMMA HashowOK == \A code : CatalogueOK(D!Hashow, D!ModelByCode(D!Hashow, code))
BY ListedPatterns DEF CatalogueOK, D!Hashow, D!Profile, D!Model, D!ModelByCode

LEMMA PricerOK == \A code : CatalogueOK(D!Pricer, D!ModelByCode(D!Pricer, code))
BY ListedPatterns DEF CatalogueOK, D!Pricer, D!Profile, D!Model, D!ModelByCode

LEMMA SolumOK == \A code : CatalogueOK(D!Solum, D!ModelByCode(D!Solum, code))
BY ListedPatterns DEF CatalogueOK, D!Solum, D!Profile, D!Model, D!ModelByCode

LEMMA VusionOK == \A code : CatalogueOK(D!Vusion, D!ModelByCode(D!Vusion, code))
BY ListedPatterns DEF CatalogueOK, D!Vusion, D!Profile, D!Model, D!ModelByCode, D!Modes

LEMMA Catalogues ==
    \A vendor \in DOMAIN D!VendorProfiles : \A code :
      CatalogueOK(D!VendorProfiles[vendor], D!ModelByCode(D!VendorProfiles[vendor], code))
BY AperionOK, HashowOK, PricerOK, SolumOK, VusionOK DEF D!VendorProfiles

\* The rungs a tag can take for a lane and a pattern, from the top.
Picks(model, lane, flash) ==
    /\ "pick_to_light" \in model.modes /\ D!LaneUsable(model, lane)
    /\ flash \in D!ToSet(model.flashPatterns) \cup {D!Nothing}
Lights(model, lane) == "lane_colour_steady" \in model.modes /\ D!LaneUsable(model, lane)

\* What the ladder comes to: the first rung the tag manages.
ShownOK(model, lane, flash, rendering) ==
    /\ rendering.colour =
         IF Picks(model, lane, flash) \/ Lights(model, lane) THEN lane ELSE D!Nothing
    /\ rendering.flash =
         IF Picks(model, lane, flash) THEN flash
         ELSE IF Lights(model, lane) \/ "mono_indicator" \notin model.modes THEN D!Nothing
         ELSE D!BlinkFor(model, flash)

LEMMA Degraded ==
    ASSUME NEW command, NEW model, NEW rendering,
           command.modePreference = D!StandardDegradationLadder, command.badge,
           rendering = D!PlanExpression(command, model).rendering
    PROVE  ShownOK(model, command.lane, command.flashPattern, rendering)
<1> DEFINE ladder == D!StandardDegradationLadder
           fits == {i \in 1..Len(ladder) : D!Manages(command, model, ladder[i])}
<1>1. /\ Len(ladder) = 5 /\ ladder # <<>>
      /\ ladder[1] = "pick_to_light" /\ ladder[2] = "lane_colour_steady"
      /\ ladder[3] = "label_badge" /\ ladder[4] = "mono_indicator" /\ ladder[5] = "none"
  BY DEF D!StandardDegradationLadder
<1> HIDE DEF ladder
<1>2. /\ D!Manages(command, model, "pick_to_light")
            <=> Picks(model, command.lane, command.flashPattern)
      /\ D!Manages(command, model, "lane_colour_steady") <=> Lights(model, command.lane)
      /\ D!Manages(command, model, "mono_indicator") <=> "mono_indicator" \in model.modes
      /\ D!Manages(command, model, "none")
  BY DEF D!Manages, Picks, Lights
<1>3. 5 \in fits /\ fits \subseteq 1..5 BY <1>1, <1>2
<1>4. PICK m \in fits : \A j \in fits : m <= j
  <2> HIDE DEF fits
  <2>1. CASE 1 \in fits BY <1>3, <2>1
  <2>2. CASE 1 \notin fits /\ 2 \in fits BY <1>3, <2>2
  <2>3. CASE 1 \notin fits /\ 2 \notin fits /\ 3 \in fits BY <1>3, <2>3
  <2>4. CASE 1 \notin fits /\ 2 \notin fits /\ 3 \notin fits /\ 4 \in fits BY <1>3, <2>4
  <2>5. CASE fits \cap 1..4 = {} BY <1>3, <2>5
  <2> QED BY <2>1, <2>2, <2>3, <2>4, <2>5
<1>5. D!Min(fits) = m
  <2> HIDE DEF fits
  <2>1. \A x \in fits : (\A j \in fits : x <= j) => x = m BY <1>3, <1>4
  <2> QED BY <1>4, <2>1 DEF D!Min
<1>6. rendering = D!Rung(command, model, ladder[m])
  BY <1>1, <1>3, <1>5 DEF D!PlanExpression, ladder
<1>7. \A j \in 1..5 : j < m => ~D!Manages(command, model, ladder[j]) BY <1>1, <1>3, <1>4
<1>8. D!Manages(command, model, ladder[m]) /\ m \in 1..5 BY <1>3, <1>4
<1> HIDE DEF fits
<1>9. CASE m = 1
  <2>1. Picks(model, command.lane, command.flashPattern) BY <1>1, <1>2, <1>8, <1>9
  <2> QED BY <1>1, <1>6, <1>9, <2>1 DEF D!Rung, ShownOK
<1>10. CASE m = 2
  <2>1. Lights(model, command.lane) /\ ~Picks(model, command.lane, command.flashPattern)
    BY <1>1, <1>2, <1>7, <1>8, <1>10
  <2> QED BY <1>1, <1>6, <1>10, <2>1 DEF D!Rung, ShownOK
<1>11. CASE m \in 3..5
  <2>1. ~Lights(model, command.lane) /\ ~Picks(model, command.lane, command.flashPattern)
    BY <1>1, <1>2, <1>7, <1>11
  <2>2. m = 5 => "mono_indicator" \notin model.modes BY <1>1, <1>2, <1>7
  <2>3. m = 4 => "mono_indicator" \in model.modes BY <1>1, <1>2, <1>8
  <2> QED BY <1>1, <1>6, <1>11, <2>1, <2>2, <2>3 DEF D!Rung, ShownOK
<1> QED BY <1>8, <1>9, <1>10, <1>11

\* A tag of a store of a vendor, and a task type to light it for.
LightTypeOK(s) ==
    s.vendor \in DOMAIN D!VendorProfiles /\ s.tag \in s.codes /\ s.type \in D!TaskType

\* The pattern a command asks for: what the priority calls for if a tag of the store
\* has it, which is so if this tag has it.
AskedFor(model, priority, flash) ==
    /\ priority \in {0, 1} => flash = D!Nothing
    /\ priority = 2 => flash = IF "slow" \in D!ToSet(model.flashPatterns) THEN "slow" ELSE flash
    /\ priority = 2 => flash \in {"slow", D!Nothing}
    /\ priority = 3 => flash = IF "fast" \in D!ToSet(model.flashPatterns) THEN "fast" ELSE flash
    /\ priority = 3 => flash \in {"fast", D!Nothing}

LEMMA DeclaredPatterns ==
    ASSUME NEW profile, NEW codes, NEW tag \in codes, NEW deployment,
           deployment = [codes |-> codes, reachable |-> TRUE, batchLimit |-> 0, lease |-> 0]
    PROVE  /\ D!ToSet(D!ModelByCode(profile, tag).flashPatterns)
                \subseteq D!DescribeCapabilities(profile, deployment).flashPatterns
           /\ D!DescribeCapabilities(profile, deployment).ladder = profile.ladder
<1>1. deployment # D!NotDeployed
  <2>1. deployment.reachable = TRUE /\ D!NotDeployed.reachable = FALSE BY DEF D!NotDeployed
  <2> QED BY <2>1
<1>2. PICK models : models = {D!ModelByCode(profile, c) : c \in codes} OBVIOUS
<1>3. D!DescribeCapabilities(profile, deployment).flashPatterns
        = UNION {D!ToSet(m.flashPatterns) : m \in models}
  BY <1>1, <1>2 DEF D!DescribeCapabilities, D!UnionOfModels
<1>4. D!ModelByCode(profile, tag) \in models BY <1>2
<1>5. D!DescribeCapabilities(profile, deployment).ladder = profile.ladder
  BY <1>1 DEF D!DescribeCapabilities
<1> QED BY <1>3, <1>4, <1>5

LEMMA LightShown ==
    ASSUME NEW s, LightTypeOK(s), NEW mapping, NEW priority \in 0..3,
           NEW profile, profile = D!VendorProfiles[s.vendor],
           NEW model, model = D!ModelByCode(profile, s.tag),
           NEW lane, lane = D!LaneFor(mapping, s.type)
    PROVE  \E flash, rendering :
             /\ AskedFor(model, priority, flash) /\ ShownOK(model, lane, flash, rendering)
             /\ Light(s, mapping, priority) = D!EncodeExpression(profile, rendering)
<1>1. PICK fleet : fleet = D!DescribeCapabilities(profile,
        [codes |-> s.codes, reachable |-> TRUE, batchLimit |-> 0, lease |-> 0])
  OBVIOUS
<1>2. D!ToSet(model.flashPatterns) \subseteq fleet.flashPatterns /\ fleet.ladder = profile.ladder
  BY <1>1, DeclaredPatterns DEF LightTypeOK
<1>3. PICK task : task = [id |-> "t", facing |-> "f", lane |-> lane, priority |-> priority]
  OBVIOUS
<1>4. PICK command :
        command = D!BuildExpressCommand(task, fleet, 0, D!StandardDispatchPolicy)
  OBVIOUS
<1>5. PICK rendering : rendering = D!PlanExpression(command, model).rendering OBVIOUS
<1>6. profile.ladder = D!StandardDegradationLadder
  BY Catalogues DEF LightTypeOK, CatalogueOK
<1>7. D!LadderFor(fleet) = D!StandardDegradationLadder
  BY <1>2, <1>6 DEF D!LadderFor, D!StandardDegradationLadder
<1>8. /\ command.lane = lane /\ command.badge
      /\ command.modePreference = D!StandardDegradationLadder
      /\ command.flashPattern = D!FlashFor(priority, fleet, D!StandardDispatchPolicy)
  BY <1>3, <1>4, <1>7 DEF D!BuildExpressCommand
<1>9. AskedFor(model, priority, command.flashPattern)
  <2>1. D!StandardDispatchPolicy.flashByPriority[priority]
          = IF priority = 3 THEN "fast" ELSE IF priority = 2 THEN "slow" ELSE D!Nothing
    BY DEF D!StandardDispatchPolicy
  <2> QED BY <1>2, <1>8, <2>1 DEF D!FlashFor, AskedFor
<1>10. ShownOK(model, lane, command.flashPattern, rendering) BY <1>5, <1>8, Degraded
<1>11. Light(s, mapping, priority) = D!EncodeExpression(profile, rendering)
  BY <1>1, <1>3, <1>4, <1>5 DEF Light
<1> QED BY <1>9, <1>10, <1>11

\* On any tag of any vendor, in a store with any tags beside it and whatever the
\* retailer's colours, a more urgent task never blinks slower.
THEOREM UrgencyOutlivesDegradation ==
    ASSUME sample.about = "lights" => LightTypeOK(sample)
    PROVE  UrgencySurvives
<1>1. SUFFICES ASSUME LightTypeOK(sample), NEW mapping, NEW p \in 0..2
      PROVE  Urgency(Light(sample, mapping, p).pattern)
               <= Urgency(Light(sample, mapping, p + 1).pattern)
  BY DEF UrgencySurvives
<1>2. PICK profile : profile = D!VendorProfiles[sample.vendor] OBVIOUS
<1>3. PICK model : model = D!ModelByCode(profile, sample.tag) OBVIOUS
<1>4. PICK lane : lane = D!LaneFor(mapping, sample.type) OBVIOUS
<1>5. PICK flash, rendering :
        /\ AskedFor(model, p, flash) /\ ShownOK(model, lane, flash, rendering)
        /\ Light(sample, mapping, p) = D!EncodeExpression(profile, rendering)
  BY <1>1, <1>2, <1>3, <1>4, LightShown
<1>6. PICK faster, next :
        /\ AskedFor(model, p + 1, faster) /\ ShownOK(model, lane, faster, next)
        /\ Light(sample, mapping, p + 1) = D!EncodeExpression(profile, next)
  BY <1>1, <1>2, <1>3, <1>4, LightShown
<1>7. CatalogueOK(profile, model) BY <1>1, <1>2, <1>3, Catalogues DEF LightTypeOK
<1>8. /\ Light(sample, mapping, p).pattern = rendering.flash
      /\ Light(sample, mapping, p + 1).pattern = next.flash
  BY <1>5, <1>6 DEF D!EncodeExpression
<1>9. Urgency(rendering.flash) <= Urgency(next.flash)
  <2>1. CASE "pick_to_light" \in model.modes /\ D!LaneUsable(model, lane)
    <3>1. flash = IF p = 2 THEN "slow" ELSE D!Nothing
      BY <1>5, <1>7, <2>1 DEF AskedFor, CatalogueOK
    <3>2. faster = IF p = 2 THEN "fast" ELSE IF p = 1 THEN "slow" ELSE D!Nothing
      BY <1>6, <1>7, <2>1 DEF AskedFor, CatalogueOK
    <3>3. rendering.flash = flash /\ next.flash = faster
      BY <1>5, <1>6, <1>7, <2>1, <3>1, <3>2 DEF ShownOK, Picks, CatalogueOK
    <3>4. Urgency("fast") = 2 /\ Urgency("slow") = 1 /\ Urgency(D!Nothing) = 0
      BY DEF Urgency, D!Nothing
    <3>5. CASE p = 2 BY <3>1, <3>2, <3>3, <3>4, <3>5
    <3>6. CASE p = 1 BY <3>1, <3>2, <3>3, <3>4, <3>6
    <3>7. CASE p = 0 BY <3>1, <3>2, <3>3, <3>4, <3>7
    <3> QED BY <3>5, <3>6, <3>7
  <2>2. CASE ~("pick_to_light" \in model.modes /\ D!LaneUsable(model, lane))
    <3>1. \A f : ~Picks(model, lane, f) BY <2>2 DEF Picks
    <3>2. CASE Lights(model, lane) \/ "mono_indicator" \notin model.modes
      <4>1. rendering.flash = D!Nothing /\ next.flash = D!Nothing
        BY <1>5, <1>6, <3>1, <3>2 DEF ShownOK
      <4>2. Urgency(D!Nothing) = 0 BY DEF Urgency, D!Nothing
      <4> QED BY <4>1, <4>2
    <3>3. CASE ~Lights(model, lane) /\ "mono_indicator" \in model.modes
      <4>1. rendering.flash = D!BlinkFor(model, flash) /\ next.flash = D!BlinkFor(model, faster)
        BY <1>5, <1>6, <3>1, <3>3 DEF ShownOK
      <4>2. Urgency(D!BlinkFor(model, flash)) <= Urgency(D!BlinkFor(model, faster))
        BY <1>5, <1>6, <1>7, ListedPatterns
           DEF AskedFor, CatalogueOK, D!BlinkFor, Urgency, D!Nothing
      <4> QED BY <4>1, <4>2
    <3> QED BY <3>2, <3>3
  <2> QED BY <2>1, <2>2
<1> QED BY <1>8, <1>9

\* Whatever colours a retailer has, a light means its task and nothing else.
THEOREM LightsMeanTheirTask ==
    ASSUME sample.about = "lights" => LightTypeOK(sample)
    PROVE  LightsSpeakTheLane
<1>1. PICK resolved : resolved = D!ResolveColorLaneMap("r1", "r1", sample.override) OBVIOUS
<1>2. PICK mapping : mapping = resolved.value OBVIOUS
<1>3. PICK profile : profile = D!VendorProfiles[sample.vendor] OBVIOUS
<1>4. PICK model : model = D!ModelByCode(profile, sample.tag) OBVIOUS
<1> DEFINE work == <<[gap |-> [store |-> "s1", facing |-> "f", kind |-> "availability_gap"]]>>
<1>5. SUFFICES ASSUME LightTypeOK(sample), resolved.ok
      PROVE  /\ ~D!PlanThrows(mapping, work)
             /\ D!TaskTypeForLane(mapping, D!LaneFor(mapping, sample.type)) = sample.type
             /\ model.colours # {} => \A p \in 0..3 :
                  Light(sample, mapping, p).light \in {D!LaneFor(mapping, sample.type), D!Nothing}
  BY <1>1, <1>2, <1>3, <1>4 DEF LightsSpeakTheLane
<1>6. /\ \A type \in D!TaskType : mapping.lanes[type] \in D!LedColors \ D!ReservedLanes
      /\ \A a, b \in D!TaskType : a # b => mapping.lanes[a] # mapping.lanes[b]
  BY <1>1, <1>2, <1>5, ResolvedLanes
<1>7. ~D!PlanThrows(mapping, work)
  <2>1. "restock_out_of_stock" \in D!TaskType
    <3>1. DOMAIN D!TaskTypes = 1..8 /\ D!TaskTypes[1] = "restock_out_of_stock" BY DEF D!TaskTypes
    <3> QED BY <3>1 DEF D!TaskType, D!ToSet
  <2>2. DOMAIN work = {1} /\ D!TaskTypeForGap(work[1].gap.kind) = "restock_out_of_stock"
    BY DEF D!TaskTypeForGap
  <2> HIDE DEF work
  <2> QED BY <1>6, <2>1, <2>2 DEF D!PlanThrows, D!LaneFor, D!IsReservedLane
<1>8. D!TaskTypeForLane(mapping, D!LaneFor(mapping, sample.type)) = sample.type
  BY <1>5, <1>6, LaneNamesType DEF LightTypeOK
<1>9. ASSUME model.colours # {}, NEW p \in 0..3
      PROVE  Light(sample, mapping, p).light \in {D!LaneFor(mapping, sample.type), D!Nothing}
  <2>1. PICK lane : lane = D!LaneFor(mapping, sample.type) OBVIOUS
  <2>2. PICK flash, rendering :
          /\ AskedFor(model, p, flash) /\ ShownOK(model, lane, flash, rendering)
          /\ Light(sample, mapping, p) = D!EncodeExpression(profile, rendering)
    BY <1>3, <1>4, <1>5, <2>1, LightShown
  <2>3. rendering.colour \in {lane, D!Nothing} BY <2>2 DEF ShownOK
  <2>4. CatalogueOK(profile, model) BY <1>3, <1>4, <1>5, Catalogues DEF LightTypeOK
  <2>5. profile.ledWhite => rendering.colour = lane
    <3>1. lane \in D!LedColors \ D!ReservedLanes
      BY <1>5, <1>6, <2>1 DEF D!LaneFor, LightTypeOK
    <3>2. profile.ledWhite => Lights(model, lane)
      BY <1>9, <2>4, <3>1 DEF CatalogueOK, Lights, D!LaneUsable, D!IsReservedLane
    <3> QED BY <2>2, <3>2 DEF ShownOK
  <2>6. lane # D!Nothing
    BY <1>5, <1>6, <2>1 DEF D!LaneFor, LightTypeOK, D!LedColors, D!Nothing
  <2> QED BY <2>1, <2>2, <2>3, <2>5, <2>6 DEF D!EncodeExpression
<1> QED BY <1>7, <1>8, <1>9

----------------------------------------------------------------------------
(***************************************************************************)
(* The availability index.                                                 *)
(***************************************************************************)
\* Histories in time over a window that does not end before it begins.
HistoriesInTime(s) ==
    /\ s.w.from \in Int /\ s.w.to \in Int /\ s.w.from <= s.w.to
    /\ \E m \in Nat : /\ DOMAIN s.histories = 1..m
                      /\ \A i \in 1..m : \E k \in Nat : InTime(s.histories[i], k)

\* However long the histories, however many the facings and wherever events fall, the
\* walk of availability-index.ts counts each instant of the window once for each facing,
\* and the departments of a baseline add up to it.
THEOREM InstantsCountOnce ==
    ASSUME sample.about = "availability" => HistoriesInTime(sample)
    PROVE  CountsEveryInstantOnce
<1> SUFFICES ASSUME sample.about = "availability" PROVE CountsEveryInstantOnce
  BY DEF CountsEveryInstantOnce
<1>1. PICK w : w = sample.w OBVIOUS
<1>2. PICK hs : hs = sample.histories OBVIOUS
<1>3. w.from \in Int /\ w.to \in Int /\ w.from <= w.to BY <1>1 DEF HistoriesInTime
<1>4. PICK m \in Nat : DOMAIN hs = 1..m /\ \A i \in 1..m : \E k \in Nat : InTime(hs[i], k)
  BY <1>2 DEF HistoriesInTime
<1>5. PICK department : department = [i \in DOMAIN hs |-> IF i = 1 THEN "d1" ELSE "d2"]
  OBVIOUS
<1>6. PICK timelines : timelines = [i \in DOMAIN hs |-> TimelineFor(hs[i], w)] OBVIOUS
<1>7. PICK base : base = EstablishAvailabilityBaseline(hs, department, w, StandardBaselinePolicy)
  OBVIOUS
<1> DEFINE Of(d) == {i \in DOMAIN timelines : department[i] = d}
<1>8. /\ base.overall = ComputeAvailabilityIndex(timelines, w)
      /\ base.byDepartment = [d \in Range(department) |->
                                ComputeAvailabilityIndex(Selected(timelines, Of(d)), w)]
  BY <1>6, <1>7 DEF EstablishAvailabilityBaseline
<1>9. DOMAIN timelines = 1..m /\ IsFiniteSet(1..m) BY <1>4, <1>6, UpTo
<1>10. ASSUME NEW key \in DOMAIN Counted
       PROVE  /\ base.overall[key] = Cardinality(Moments(hs, 1..m, w, Counted[key]))
              /\ SumFunction([d \in DOMAIN base.byDepartment |-> base.byDepartment[d][key]])
                   = base.overall[key]
  <2>1. PICK v : v = [i \in 1..m |-> ComputeFacingAvailability(timelines[i], w)[key]] OBVIOUS
  <2>2. ASSUME NEW i \in 1..m
        PROVE  /\ v[i] = ComputeFacingAvailability(timelines[i], w)[key] /\ v[i] \in Int
               /\ v[i] = Cardinality(Lived(hs[i], w, Counted[key]))
    <3>1. PICK k \in Nat : InTime(hs[i], k) BY <1>4
    <3>2. timelines[i] = TimelineFor(hs[i], w) BY <1>4, <1>6
    <3>3. PICK h : h = hs[i] OBVIOUS
    <3>4. ComputeFacingAvailability(TimelineFor(h, w), w)[key] \in Nat
      BY <1>3, <3>1, <3>3, FiguresOfFacing
    <3>5. ComputeFacingAvailability(TimelineFor(h, w), w)[key]
            = Cardinality(Lived(h, w, Counted[key]))
      BY <1>3, <3>1, <3>3, FiguresOfFacing
    <3> QED BY <2>1, <3>2, <3>3, <3>4, <3>5
  <2>3. base.overall[key] = SumFunctionOnSet(v, 1..m)
    <3>1. \A i \in DOMAIN timelines :
            v[i] = ComputeFacingAvailability(timelines[i], w)[key] /\ v[i] \in Int
      BY <1>9, <2>2
    <3>2. ComputeAvailabilityIndex(timelines, w)[key] = SumFunctionOnSet(v, DOMAIN timelines)
      BY <1>9, <3>1, IndexAddsUp
    <3> QED BY <1>8, <1>9, <3>2
  <2>4. SumFunctionOnSet(v, 1..m) = Cardinality(Moments(hs, 1..m, w, Counted[key]))
    <3>1. PICK states : states = Counted[key] OBVIOUS
    <3>2. PICK ids : ids = 1..m OBVIOUS
    <3>3. IsFiniteSet(ids) BY <1>9, <3>2
    <3>4. \A i \in ids : v[i] = Cardinality(Lived(hs[i], w, states)) BY <2>2, <3>1, <3>2
    <3>5. SumFunctionOnSet(v, ids) = Cardinality(Moments(hs, ids, w, states))
      BY <1>3, <3>3, <3>4, MomentsByFacing
    <3> QED BY <3>1, <3>2, <3>5
  <2>5. PICK K : K = Range(department) OBVIOUS
  <2>6. IsFiniteSet(K) /\ \A i \in 1..m : department[i] \in K
    <3>1. DOMAIN department = 1..m BY <1>4, <1>5
    <3>2. \A i \in 1..m : department[i] \in {"d1", "d2"} BY <1>4, <1>5
    <3>3. K \subseteq {"d1", "d2"} BY <2>5, <3>1, <3>2 DEF Range
    <3>4. IsFiniteSet({"d1", "d2"})
      <4>1. IsFiniteSet({}) BY FS_EmptySet
      <4>2. IsFiniteSet({} \cup {"d1"}) BY <4>1, FS_AddElement
      <4>3. IsFiniteSet(({} \cup {"d1"}) \cup {"d2"}) BY <4>2, FS_AddElement
      <4>4. {"d1", "d2"} = ({} \cup {"d1"}) \cup {"d2"} OBVIOUS
      <4> QED BY <4>3, <4>4
    <3>5. IsFiniteSet(K) BY <3>3, <3>4, FS_Subset
    <3>6. \A i \in 1..m : department[i] \in K BY <2>5, <3>1 DEF Range
    <3> QED BY <3>5, <3>6
  <2>7. PICK u : u = [d \in K |-> base.byDepartment[d][key]] OBVIOUS
  <2>8. ASSUME NEW d \in K PROVE u[d] = SumFunctionOnSet(v, Placed(1..m, department, d))
    <3>1. PICK here : here = Of(d) OBVIOUS
    <3>2. here = Placed(1..m, department, d) BY <1>9, <3>1 DEF Placed
    <3>3. here \in SUBSET (1..m) BY <3>2 DEF Placed
    <3>4. base.byDepartment[d] = ComputeAvailabilityIndex(Selected(timelines, here), w)
      BY <1>8, <2>5, <3>1
    <3>5. \A i \in 1..m :
            v[i] = ComputeFacingAvailability(timelines[i], w)[key] /\ v[i] \in Int
      BY <2>2
    <3>6. ComputeAvailabilityIndex(Selected(timelines, here), w)[key] = SumFunctionOnSet(v, here)
      BY <1>9, <3>3, <3>5, MembersAddUp
    <3> QED BY <2>7, <3>2, <3>4, <3>6
  <2>9. SumFunctionOnSet(u, K) = SumFunctionOnSet(v, 1..m)
    <3>1. Integral(v, 1..m) BY <2>2 DEF Integral
    <3>2. \A d \in K : u[d] = SumFunctionOnSet(v, Placed(1..m, department, d)) BY <2>8
    <3> QED BY <1>9, <2>6, <3>1, <3>2, SumOfParts
  <2>10. SumFunction([d \in DOMAIN base.byDepartment |-> base.byDepartment[d][key]])
           = SumFunctionOnSet(u, K)
    <3>1. DOMAIN base.byDepartment = K BY <1>8, <2>5
    <3>2. DOMAIN u = K BY <2>7
    <3> QED BY <2>7, <3>1, <3>2 DEF SumFunction
  <2> QED BY <2>3, <2>4, <2>9, <2>10
<1>11. /\ "inStock" \in DOMAIN Counted /\ Counted["inStock"] = {"in_stock"}
       /\ "measured" \in DOMAIN Counted /\ Counted["measured"] = {"in_stock", "out_of_stock"}
       /\ "unknown" \in DOMAIN Counted /\ Counted["unknown"] = {"unknown"}
  BY DEF Counted
<1>12. \A states : Moments(hs, 1..m, w, states) =
         {x \in (DOMAIN hs) \X (w.from..(w.to - 1)) : StateAt(hs[x[1]], x[2]) \in states}
  BY <1>4 DEF Moments
<1>13. /\ base.overall.inStock  = Cardinality({x \in (DOMAIN hs) \X (w.from..(w.to - 1)) :
                                     StateAt(hs[x[1]], x[2]) \in {"in_stock"}})
       /\ base.overall.measured = Cardinality({x \in (DOMAIN hs) \X (w.from..(w.to - 1)) :
                                     StateAt(hs[x[1]], x[2]) \in {"in_stock", "out_of_stock"}})
       /\ base.overall.unknown  = Cardinality({x \in (DOMAIN hs) \X (w.from..(w.to - 1)) :
                                     StateAt(hs[x[1]], x[2]) \in {"unknown"}})
  <2>1. base.overall["inStock"] = Cardinality(Moments(hs, 1..m, w, {"in_stock"}))
    BY <1>10, <1>11
  <2>2. base.overall["measured"] = Cardinality(Moments(hs, 1..m, w, {"in_stock", "out_of_stock"}))
    BY <1>10, <1>11
  <2>3. base.overall["unknown"] = Cardinality(Moments(hs, 1..m, w, {"unknown"}))
    BY <1>10, <1>11
  <2> QED BY <1>12, <2>1, <2>2, <2>3
<1>14. \A key \in {"inStock", "measured", "unknown"} :
         SumFunction([d \in DOMAIN base.byDepartment |-> base.byDepartment[d][key]])
           = base.overall[key]
  BY <1>10, <1>11
<1> QED BY <1>1, <1>2, <1>5, <1>7, <1>13, <1>14 DEF CountsEveryInstantOnce

----------------------------------------------------------------------------
(***************************************************************************)
(* The worklist.                                                           *)
(***************************************************************************)
\* An inequality may be multiplied by what is positive.
LEMMA Scaling ==
    ASSUME NEW p \in Int, NEW q \in Int, NEW c \in Int, c > 0
    PROVE  p < q <=> p * c < q * c
  OBVIOUS

\* Products of integers.
LEMMA Products ==
    ASSUME NEW p \in Int, NEW q \in Int, NEW c \in Int
    PROVE  /\ p * q \in Int /\ p * q = q * p
           /\ (p * q) * c = (p * c) * q
  OBVIOUS

\* The order of fractions, in products.
LEMMA ProductsRank ==
    ASSUME NEW p \in Int, NEW q \in Int, NEW r \in Int,
           NEW a \in Int, NEW b \in Int, NEW c \in Int, a > 0, b > 0, c > 0,
           ~(p * b < q * a), ~(q * c < r * b)
    PROVE  ~(p * c < r * a)
<1> SUFFICES ASSUME p * c < r * a PROVE FALSE OBVIOUS
<1>1. /\ p * c \in Int /\ r * a \in Int /\ p * b \in Int
      /\ q * a \in Int /\ q * c \in Int /\ r * b \in Int
  BY Products
<1>2. (p * c) * b < (r * a) * b BY <1>1, Scaling
<1>3. ~((p * b) * c < (q * a) * c) BY <1>1, Scaling
<1>4. ~((q * c) * a < (r * b) * a) BY <1>1, Scaling
<1>5. (p * c) * b = (p * b) * c /\ (r * a) * b = (r * b) * a /\ (q * a) * c = (q * c) * a
  BY Products
<1>6. (p * b) * c \in Int /\ (q * a) * c \in Int /\ (r * b) * a \in Int BY <1>1, Products
<1> QED BY <1>2, <1>3, <1>4, <1>5, <1>6

\* A fraction, its denominator above zero.
IsFraction(x) == x.num \in Int /\ x.den \in Int /\ x.den > 0

\* What is level or above is so through a third.
LEMMA FractionsRank ==
    ASSUME NEW x, NEW y, NEW z, IsFraction(x), IsFraction(y), IsFraction(z),
           ~Less(x, y), ~Less(y, z)
    PROVE  ~Less(x, z)
<1>1. PICK p, q, r : p = x.num /\ q = y.num /\ r = z.num OBVIOUS
<1>2. PICK a, b, c : a = x.den /\ b = y.den /\ c = z.den OBVIOUS
<1>3. /\ p \in Int /\ q \in Int /\ r \in Int /\ a \in Int /\ b \in Int /\ c \in Int
      /\ a > 0 /\ b > 0 /\ c > 0
  BY <1>1, <1>2 DEF IsFraction
<1>4. ~(p * b < q * a) /\ ~(q * c < r * b) BY <1>1, <1>2 DEF Less
<1>5. ~(p * c < r * a) BY <1>3, <1>4, ProductsRank
<1> QED BY <1>1, <1>2, <1>5 DEF Less

\* Less is an order.
LEMMA LessIsOneWay ==
    ASSUME NEW x, NEW y, IsFraction(x), IsFraction(y), Less(x, y)
    PROVE  ~Less(y, x)
<1>1. PICK u, v : u = x.num * y.den /\ v = y.num * x.den OBVIOUS
<1>2. u \in Int /\ v \in Int BY <1>1, Products DEF IsFraction
<1>3. u < v BY <1>1 DEF Less
<1>4. ~(v < u) BY <1>2, <1>3
<1> QED BY <1>1, <1>4 DEF Less

\* A row of the worklist: a score that is a fraction, an instant and an id.
RowOK(row) == /\ IsFraction(row.score)
              /\ row.gap.detectedAt \in Int /\ row.gap.id \in Int

\* The pairs of rows whose first goes first.
Priorities(R) == {p \in R \X R : ByPriority(p[1], p[2])}

\* Score, then age, then id: of two rows one goes first.
LEMMA PrioritiesInLine ==
    ASSUME NEW R, \A r \in R : RowOK(r),
           \A r, s \in R : r.gap.id = s.gap.id => r = s
    PROVE  InLine(R, Priorities(R))
<1> DEFINE More(r, s) == Less(s.score, r.score)
           Older(r, s) == \/ r.gap.detectedAt < s.gap.detectedAt
                          \/ r.gap.detectedAt = s.gap.detectedAt /\ r.gap.id < s.gap.id
<1>1. \A r, s \in R : <<r, s>> \in Priorities(R) <=> More(r, s) \/ (~More(s, r) /\ Older(r, s))
  BY DEF Priorities, ByPriority
<1>2. \A r, s \in R : More(r, s) => ~More(s, r) BY LessIsOneWay DEF RowOK
<1>3. \A r, s, u \in R : ~More(r, s) /\ ~More(s, u) => ~More(r, u)
  BY FractionsRank DEF RowOK
<1>4. \A r, s \in R : r # s => Older(r, s) \/ Older(s, r) BY DEF RowOK
<1>5. \A r, s \in R : Older(r, s) => ~Older(s, r) BY DEF RowOK
<1>6. \A r, s, u \in R : Older(r, s) /\ Older(s, u) => Older(r, u) BY DEF RowOK
<1> HIDE DEF More, Older
<1>7. \A r, s \in R : r # s => <<r, s>> \in Priorities(R) \/ <<s, r>> \in Priorities(R)
  BY <1>1, <1>4
<1>8. \A r, s \in R : <<r, s>> \in Priorities(R) => <<s, r>> \notin Priorities(R)
  BY <1>1, <1>2, <1>5
<1>9. ASSUME NEW r \in R, NEW s \in R, NEW u \in R,
             <<r, s>> \in Priorities(R), <<s, u>> \in Priorities(R)
      PROVE  <<r, u>> \in Priorities(R)
  <2>1. ~More(s, r) /\ ~More(u, s) BY <1>1, <1>2, <1>9
  <2>2. ~More(u, r) BY <1>3, <2>1
  <2>3. CASE More(r, s) \/ More(s, u)
    <3>1. More(r, u) BY <1>3, <2>1, <2>3
    <3> QED BY <1>1, <3>1
  <2>4. CASE Older(r, s) /\ Older(s, u) BY <1>1, <1>6, <2>2, <2>4
  <2> QED BY <1>1, <1>9, <2>3, <2>4
<1> QED BY <1>7, <1>8, <1>9 DEF InLine

----------------------------------------------------------------------------
\* The sequence r has every member of R once.
Lists(rows, c, R) ==
    /\ rows \in [1..c -> R]
    /\ \A x \in R : \E k \in 1..c : rows[k] = x
    /\ \A j, k \in 1..c : rows[j] = rows[k] => j = k

\* A sort lines up what it is given.
LEMMA SortLinesUp ==
    ASSUME NEW R, NEW T, InLine(R, T), NEW c \in Nat, NEW rows, Lists(rows, c, R),
           NEW B, B \subseteq (1..c) \X (1..c),
           \A j, k \in 1..c : <<j, k>> \in B <=> <<rows[j], rows[k]>> \in T
    PROVE  Lined(Arranged(rows, B), c, R, T)
<1>1. /\ rows \in [1..c -> R] /\ DOMAIN rows = 1..c
      /\ \A x \in R : \E k \in 1..c : rows[k] = x
      /\ \A j, k \in 1..c : rows[j] = rows[k] => j = k
  BY DEF Lists
<1>2. \A x, y \in R : x # y => <<x, y>> \in T \/ <<y, x>> \in T BY DEF InLine
<1>3. \A x, y \in R : <<x, y>> \in T => <<y, x>> \notin T BY DEF InLine
<1>4. \A x, y, z \in R : <<x, y>> \in T /\ <<y, z>> \in T => <<x, z>> \in T BY DEF InLine
<1>5. Ranks(1..c, B)
  <2>1. ASSUME NEW j \in 1..c, NEW k \in 1..c, <<j, k>> \in B PROVE <<k, j>> \notin B
    <3>1. rows[j] \in R /\ rows[k] \in R /\ <<rows[j], rows[k]>> \in T BY <1>1, <2>1
    <3> QED BY <1>3, <3>1
  <2>2. ASSUME NEW j \in 1..c, NEW k \in 1..c, NEW l \in 1..c, <<j, l>> \in B
        PROVE  <<j, k>> \in B \/ <<k, l>> \in B
    <3>1. PICK x, y, z : x = rows[j] /\ y = rows[k] /\ z = rows[l] OBVIOUS
    <3>2. x \in R /\ y \in R /\ z \in R /\ <<x, z>> \in T BY <1>1, <2>2, <3>1
    <3>3. CASE x = y
      <4>1. <<y, z>> \in T BY <3>2, <3>3
      <4> QED BY <3>1, <4>1
    <3>4. CASE x # y
      <4>1. <<x, y>> \in T \/ <<y, x>> \in T BY <1>2, <3>2, <3>4
      <4>2. <<x, y>> \in T \/ <<y, z>> \in T BY <1>4, <3>2, <4>1
      <4> QED BY <3>1, <4>2
    <3> QED BY <3>3, <3>4
  <2> QED BY <2>1, <2>2 DEF Ranks
<1>6. PICK turn : PutsInOrder(turn, c, rows, B) BY <1>1, <1>5, SortedByTurns
<1>7. /\ turn \in [1..c -> 1..c] /\ \A j, k \in 1..c : turn[j] = turn[k] => j = k
      /\ \A i \in 1..c : \E k \in 1..c : turn[k] = i
      /\ Arranged(rows, B) = [k \in 1..c |-> rows[turn[k]]]
      /\ \A j, k \in 1..c : j < k => <<turn[j], turn[k]>> \in Turns(c, B)
  BY <1>6 DEF PutsInOrder, Bijection, Injection, Surjection, IsInjective
<1>8. PICK g : g = Arranged(rows, B) OBVIOUS
<1>9. g \in [1..c -> R] /\ \A x \in R : \E k \in 1..c : g[k] = x
  <2>1. g \in [1..c -> R] BY <1>1, <1>7, <1>8
  <2>2. ASSUME NEW x \in R PROVE \E k \in 1..c : g[k] = x
    <3>1. PICK i \in 1..c : rows[i] = x BY <1>1
    <3>2. PICK k \in 1..c : turn[k] = i BY <1>7
    <3> QED BY <1>7, <1>8, <3>1, <3>2
  <2> QED BY <2>1, <2>2
<1>10. ASSUME NEW j \in 1..c, NEW k \in 1..c, j < k PROVE <<g[j], g[k]>> \in T
  <2>1. PICK a, b : a = turn[j] /\ b = turn[k] OBVIOUS
  <2>2. a \in 1..c /\ b \in 1..c /\ a # b
    <3>1. j # k BY <1>10
    <3> QED BY <1>7, <2>1, <3>1
  <2>3. <<a, b>> \in B \/ <<b, a>> \notin B BY <1>7, <1>10, <2>1 DEF Turns
  <2>4. PICK x, y : x = rows[a] /\ y = rows[b] OBVIOUS
  <2>5. x \in R /\ y \in R /\ x # y BY <1>1, <2>2, <2>4
  <2>6. <<x, y>> \in T \/ <<y, x>> \notin T BY <2>2, <2>3, <2>4
  <2>7. <<x, y>> \in T BY <1>2, <2>5, <2>6
  <2> QED BY <1>7, <1>8, <2>1, <2>4, <2>7
<1> QED BY <1>8, <1>9, <1>10 DEF Lined

\* The rows at some positions, each once.
LEMMA SelectedLists ==
    ASSUME NEW m \in Nat, NEW all, DOMAIN all = 1..m,
           \A i, j \in 1..m : all[i] = all[j] => i = j,
           NEW positions \in SUBSET (1..m), NEW R, R = {all[i] : i \in positions}
    PROVE  \E c \in Nat : Lists(Selected(all, positions), c, R)
<1>1. PICK c : c = Cardinality(positions) OBVIOUS
<1>2. c \in Nat
  <2>1. IsFiniteSet(1..m) BY UpTo
  <2>2. IsFiniteSet(positions) BY <2>1, FS_Subset
  <2> QED BY <1>1, <2>2, FS_CardinalityType
<1>3. PICK line : Keeps(line, c, all, positions) BY <1>1, SelectedInOrder
<1>4. /\ line \in [1..c -> positions] /\ \A j, k \in 1..c : line[j] = line[k] => j = k
      /\ \A i \in positions : \E k \in 1..c : line[k] = i
      /\ Selected(all, positions) = [k \in 1..c |-> all[line[k]]]
  BY <1>3 DEF Keeps, Bijection, Injection, Surjection, IsInjective
<1>5. PICK rows : rows = Selected(all, positions) OBVIOUS
<1>6. \A k \in 1..c : line[k] \in positions /\ line[k] \in 1..m BY <1>4
<1>7. rows \in [1..c -> R] BY <1>4, <1>5, <1>6
<1>8. \A x \in R : \E k \in 1..c : rows[k] = x
  <2> SUFFICES ASSUME NEW x \in R PROVE \E k \in 1..c : rows[k] = x OBVIOUS
  <2>1. PICK i \in positions : x = all[i] OBVIOUS
  <2>2. PICK k \in 1..c : line[k] = i BY <1>4
  <2> QED BY <1>4, <1>5, <2>1, <2>2
<1>9. \A j, k \in 1..c : rows[j] = rows[k] => j = k BY <1>4, <1>5, <1>6
<1>10. Lists(rows, c, R) BY <1>7, <1>8, <1>9 DEF Lists
<1> QED BY <1>2, <1>5, <1>10

\* Rows that are well-formed and about different gaps.
RowsOK(all, m) ==
    /\ DOMAIN all = 1..m
    /\ \A i \in 1..m : RowOK(all[i])
    /\ \A i, j \in 1..m : all[i].gap.id = all[j].gap.id => i = j

\* What a list holds at some positions.
At(all, positions) == {all[i] : i \in positions}

\* The rows of R in their order.
LinesUp(f, R) == /\ InLine(R, Priorities(R))
                 /\ \E c \in Nat : Lined(f, c, R, Priorities(R))

\* The kept rows in their order, whatever order they came in.
LEMMA NumberedLine ==
    ASSUME NEW m \in Nat, NEW all, RowsOK(all, m),
           NEW positions \in SUBSET (1..m), NEW R, R = At(all, positions)
    PROVE  LinesUp(Numbered(Selected(all, positions)), R)
<1>0. /\ DOMAIN all = 1..m /\ \A i \in 1..m : RowOK(all[i])
      /\ \A i, j \in 1..m : all[i].gap.id = all[j].gap.id => i = j
      /\ R = {all[i] : i \in positions}
  BY DEF RowsOK, At
<1>1. InLine(R, Priorities(R))
  <2>1. \A r \in R : RowOK(r) BY <1>0
  <2>2. \A r, s \in R : r.gap.id = s.gap.id => r = s BY <1>0
  <2> QED BY <2>1, <2>2, PrioritiesInLine
<1>2. \A i, j \in 1..m : all[i] = all[j] => i = j BY <1>0
<1>3. PICK rows : rows = Selected(all, positions) OBVIOUS
<1>4. PICK c \in Nat : Lists(rows, c, R) BY <1>0, <1>2, <1>3, SelectedLists
<1>5. PICK B : B = {p \in Pairs(rows) : ByPriority(rows[p[1]], rows[p[2]])} OBVIOUS
<1>6. DOMAIN rows = 1..c /\ \A k \in 1..c : rows[k] \in R BY <1>4 DEF Lists
<1>7. B \subseteq (1..c) \X (1..c) BY <1>5, <1>6 DEF Pairs
<1>8. ASSUME NEW j \in 1..c, NEW k \in 1..c
      PROVE  <<j, k>> \in B <=> <<rows[j], rows[k]>> \in Priorities(R)
  <2>1. <<j, k>> \in B <=> ByPriority(rows[j], rows[k]) BY <1>5, <1>6 DEF Pairs
  <2> QED BY <1>6, <2>1 DEF Priorities
<1>9. PICK T : T = Priorities(R) OBVIOUS
<1>10. Lined(Arranged(rows, B), c, R, T) BY <1>1, <1>4, <1>7, <1>8, <1>9, SortLinesUp
<1>11. Numbered(rows) = Arranged(rows, B) BY <1>5 DEF Numbered
<1> QED BY <1>1, <1>3, <1>9, <1>10, <1>11 DEF LinesUp

----------------------------------------------------------------------------
\* Products of what is positive.
LEMMA PositiveProduct ==
    ASSUME NEW a \in Int, NEW b \in Int, a > 0, b > 0
    PROVE  a * b \in Int /\ a * b > 0
  OBVIOUS

\* Products of naturals.
LEMMA NaturalProduct ==
    ASSUME NEW a \in Nat, NEW b \in Nat
    PROVE  a * b \in Nat
  OBVIOUS

\* What a list of gaps is ranked on: gaps that are known by ids, looks, facings and
\* velocities that are counts.
GapOK(g) == g.id \in Int /\ g.detectedAt \in Int /\ g.kind \in GapKind

\* A fraction of counts.
IsCount(x) == x.num \in Nat /\ x.den \in Nat

\* A density that was measured, or not.
DensityOK(x) == x = Unmeasured \/ (x.num \in Nat /\ x.den \in Nat /\ x.den > 0)

\* A score is a fraction.
LEMMA ScoreIsFraction ==
    ASSUME NEW g, GapOK(g), NEW velocity, IsCount(velocity), NEW density, DensityOK(density)
    PROVE  IsFraction(Score(g, velocity, density, StandardPolicy, MinRevisitDensity))
<1>1. PICK v : v = IF velocity.den = 0 THEN StandardPolicy.assumedVelocity ELSE velocity
  OBVIOUS
<1>2. v.num \in Nat /\ v.den \in Nat /\ v.den > 0
  BY <1>1 DEF StandardPolicy, Ratio, IsCount
<1>3. PICK e : e = EvidenceFactor(density, MinRevisitDensity) OBVIOUS
<1>4. e.num \in Nat /\ e.den \in Nat /\ e.den > 0
  <2>1. CASE density.num = 0 \/ density = Unmeasured
    <3>1. e = Ratio(0, 1) BY <1>3, <2>1 DEF EvidenceFactor
    <3> QED BY <3>1 DEF Ratio
  <2>2. CASE ~(density.num = 0 \/ density = Unmeasured)
    <3>1. PICK p, q : p = density.num /\ q = density.den OBVIOUS
    <3>2. p \in Nat /\ q \in Nat /\ q > 0 /\ p > 0 BY <2>2, <3>1 DEF DensityOK
    <3>3. MinRevisitDensity.num = 2 /\ MinRevisitDensity.den = 1
      BY DEF MinRevisitDensity, Ratio
    <3>4. e = Ratio(p * 1, p * 1 + 2 * q) BY <1>3, <2>2, <3>1, <3>3 DEF EvidenceFactor
    <3>5. p * 1 \in Nat /\ p * 1 + 2 * q \in Nat /\ p * 1 + 2 * q > 0 BY ONLY <3>2
    <3> QED BY <3>4, <3>5 DEF Ratio
  <2> QED BY <2>1, <2>2
<1>5. PICK weight : weight = StandardPolicy.kindWeights[g.kind] OBVIOUS
<1>6. weight \in Nat BY <1>5 DEF StandardPolicy, GapOK, GapKind
<1>7. DepartmentWeight(g.department, StandardPolicy) = 10
  BY DEF DepartmentWeight, StandardPolicy
<1>8. PICK a, b, c, d : a = v.num /\ b = e.num /\ c = v.den /\ d = e.den OBVIOUS
<1>9. Score(g, velocity, density, StandardPolicy, MinRevisitDensity)
        = Ratio(((10 * weight) * a) * b, c * d)
  BY <1>1, <1>3, <1>5, <1>7, <1>8 DEF Score
<1>10. ((10 * weight) * a) * b \in Int
  <2>1. 10 * weight \in Nat BY <1>6
  <2>2. (10 * weight) * a \in Nat BY <1>2, <1>8, <2>1, NaturalProduct
  <2> QED BY <1>4, <1>8, <2>2, NaturalProduct
<1>11. c * d \in Int /\ c * d > 0 BY <1>2, <1>4, <1>8, PositiveProduct
<1> QED BY <1>9, <1>10, <1>11 DEF IsFraction, Ratio

\* The looks at the facings of a gap's category, and those facings.
Mine(g, facings) == {f \in facings : Scope(f) = Scope(g)}

Looks(g, facings, walk, from, days) ==
    {x \in walk : /\ \E f \in Mine(g, facings) : f.id = x.facing
                  /\ x.at >= from /\ x.at < from + days}

\* The density of the category of a gap is its looks by its days of facings.
LEMMA DensityIs ==
    ASSUME NEW facings, IsFiniteSet(facings), NEW walk, IsFiniteSet(walk), NEW from,
           NEW days \in Nat, NEW g, NEW p, NEW q,
           p = Cardinality(Looks(g, facings, walk, from, days)),
           q = Cardinality(Mine(g, facings)) * days,
           NEW density,
           density = DensityOf(MeasureCategoryCoverage(facings, walk, from, days), Scope(g))
    PROVE  /\ p \in Nat /\ q \in Nat
           /\ density = IF q > 0 THEN Ratio(p, q) ELSE Unmeasured
<1>1. PICK s : s = Scope(g) OBVIOUS
<1>2. PICK mine, looks1 : mine = Mine(g, facings) /\ looks1 = Looks(g, facings, walk, from, days)
  OBVIOUS
<1>3. IsFiniteSet(mine) /\ IsFiniteSet(looks1)
  <2>1. mine \subseteq facings /\ looks1 \subseteq walk BY <1>2 DEF Mine, Looks
  <2> QED BY <2>1, FS_Subset
<1>4. Cardinality(mine) \in Nat /\ p \in Nat BY <1>2, <1>3, FS_CardinalityType
<1>5. q \in Nat BY <1>2, <1>4, NaturalProduct
<1>6. PICK coverage : coverage = MeasureCategoryCoverage(facings, walk, from, days) OBVIOUS
<1>7. DOMAIN coverage = {Scope(f) : f \in facings} BY <1>6 DEF MeasureCategoryCoverage
<1>8. CASE s \in DOMAIN coverage
  <2>1. coverage[s] = Coverage(s, facings, walk, from, days)
    BY <1>6, <1>7, <1>8 DEF MeasureCategoryCoverage
  <2>2. mine = {f \in facings : Scope(f) = s} BY <1>1, <1>2 DEF Mine
  <2>3. looks1 = {x \in walk : /\ x.at >= from /\ x.at < from + days
                              /\ \E f \in mine : f.id = x.facing}
    BY <1>2 DEF Looks
  <2>4. coverage[s].density = Ratio(p, q) BY <1>2, <2>1, <2>2, <2>3 DEF Coverage
  <2>5. coverage[s].density.den = q BY <2>4 DEF Ratio
  <2>6. density = IF q # 0 THEN Ratio(p, q) ELSE Unmeasured
    BY <1>1, <1>6, <1>8, <2>4, <2>5 DEF DensityOf
  <2> QED BY <1>4, <1>5, <2>6
<1>9. CASE s \notin DOMAIN coverage
  <2>1. density = Unmeasured BY <1>1, <1>6, <1>9 DEF DensityOf
  <2>2. mine = {} BY <1>1, <1>2, <1>7, <1>9 DEF Mine
  <2>3. q = 0
    <3>1. Cardinality({}) = 0 BY FS_EmptySet
    <3>2. q = 0 * days BY <1>2, <2>2, <3>1
    <3> QED BY <3>2
  <2> QED BY <1>4, <1>5, <2>1, <2>3
<1> QED BY <1>8, <1>9

\* A category is committed to when it was measured and is passed twice a day.
LEMMA LevelIs ==
    ASSUME NEW p \in Nat, NEW q \in Nat, NEW density,
           density = IF q > 0 THEN Ratio(p, q) ELSE Unmeasured
    PROVE  /\ DensityOK(density)
           /\ EvaluateServiceLevelScope(density, MinRevisitDensity) = "in_scope"
                <=> q > 0 /\ p >= 2 * q
<1>1. CASE q > 0
  <2>1. density = [num |-> p, den |-> q] BY <1>1 DEF Ratio
  <2>2. density # Unmeasured BY <1>1, <2>1 DEF Unmeasured, Ratio
  <2>3. density.num = p /\ density.den = q BY <2>1
  <2>4. MinRevisitDensity.num = 2 /\ MinRevisitDensity.den = 1
    BY DEF MinRevisitDensity, Ratio
  <2>5. Less(density, MinRevisitDensity) <=> p * 1 < 2 * q BY <2>3, <2>4 DEF Less
  <2>6. p * 1 < 2 * q <=> ~(p >= 2 * q) OBVIOUS
  <2> QED BY <1>1, <2>2, <2>3, <2>5, <2>6 DEF EvaluateServiceLevelScope, DensityOK
<1>2. CASE ~(q > 0)
  <2>1. density = Unmeasured BY <1>2
  <2> QED BY <1>2, <2>1 DEF EvaluateServiceLevelScope, DensityOK
<1> QED BY <1>1, <1>2

\* The gaps that are ranked are known by ids; looks, facings and days are counted.
GapsAreKnown(s) ==
    /\ \E m \in Nat : DOMAIN s.gaps = 1..m
    /\ \A i \in DOMAIN s.gaps : GapOK(s.gaps[i])
    /\ \A i, j \in DOMAIN s.gaps : s.gaps[i].id = s.gaps[j].id => i = j
    /\ IsFiniteSet(s.facings) /\ IsFiniteSet(s.walk) /\ s.days \in Nat
    /\ \A f \in DOMAIN s.velocity : IsCount(s.velocity[f])

\* The rows of a list of gaps.
RowsOf(gaps, velocity, coverage) ==
    [i \in DOMAIN gaps |-> Ranked(gaps[i], velocity, coverage, StandardPolicy, MinRevisitDensity)]

\* The positions of the rows that are committed to, and of the others.
CommittedAt(all) == {i \in DOMAIN all : all[i].level = "in_scope"}
ExcludedAt(all)  == {i \in DOMAIN all : all[i].level # "in_scope"}

\* A row of the worklist is well-formed, is about its gap, and is committed as its
\* category was passed.
LEMMA RankedRow ==
    ASSUME NEW s, GapsAreKnown(s), NEW coverage,
           coverage = MeasureCategoryCoverage(s.facings, s.walk, s.from, s.days),
           NEW g, GapOK(g), NEW row,
           row = Ranked(g, s.velocity, coverage, StandardPolicy, MinRevisitDensity),
           NEW q, q = Cardinality(Mine(g, s.facings)) * s.days
    PROVE  /\ RowOK(row) /\ row.gap = g
           /\ row.level = "in_scope" <=>
                q > 0 /\ Cardinality(Looks(g, s.facings, s.walk, s.from, s.days)) >= 2 * q
<1>1. PICK density : density = DensityOf(coverage, Scope(g)) OBVIOUS
<1>2. PICK p : p = Cardinality(Looks(g, s.facings, s.walk, s.from, s.days)) OBVIOUS
<1>3. p \in Nat /\ q \in Nat /\ density = IF q > 0 THEN Ratio(p, q) ELSE Unmeasured
  <2>1. PICK facings, walk, from, days :
          facings = s.facings /\ walk = s.walk /\ from = s.from /\ days = s.days
    OBVIOUS
  <2>2. IsFiniteSet(facings) /\ IsFiniteSet(walk) /\ days \in Nat BY <2>1 DEF GapsAreKnown
  <2>3. /\ p = Cardinality(Looks(g, facings, walk, from, days))
        /\ q = Cardinality(Mine(g, facings)) * days
        /\ density = DensityOf(MeasureCategoryCoverage(facings, walk, from, days), Scope(g))
    BY <1>1, <1>2, <2>1
  <2> QED BY <2>2, <2>3, DensityIs
<1>4. PICK level : level = EvaluateServiceLevelScope(density, MinRevisitDensity) OBVIOUS
<1>5. DensityOK(density) /\ (level = "in_scope" <=> q > 0 /\ p >= 2 * q)
  BY <1>3, <1>4, LevelIs
<1>6. PICK velocity : velocity = IF g.facing \in DOMAIN s.velocity THEN s.velocity[g.facing]
                                 ELSE Ratio(0, 0)
  OBVIOUS
<1>7. IsCount(velocity) BY <1>6 DEF GapsAreKnown, IsCount, Ratio
<1>8. PICK score : score = Score(g, velocity, density, StandardPolicy, MinRevisitDensity)
  OBVIOUS
<1>9. IsFraction(score) BY <1>5, <1>7, <1>8, ScoreIsFraction
<1>10. row = [gap |-> g, level |-> level, score |-> score]
  BY <1>1, <1>4, <1>6, <1>8 DEF Ranked
<1> QED BY <1>2, <1>5, <1>9, <1>10 DEF RowOK, GapOK

\* The same gaps in another order.
Shuffled(gaps, p) == [i \in DOMAIN gaps |-> gaps[p[i]]]

\* One order of the gaps, one of their kept rows.
LEMMA OneNumbering ==
    ASSUME NEW m \in Nat, NEW a, RowsOK(a, m), NEW b, RowsOK(b, m),
           NEW K \in SUBSET (1..m), NEW L \in SUBSET (1..m), At(a, K) = At(b, L)
    PROVE  Numbered(Selected(a, K)) = Numbered(Selected(b, L))
<1>1. PICK R, T : R = At(a, K) /\ T = Priorities(R) OBVIOUS
<1>2. PICK f, g : f = Numbered(Selected(a, K)) /\ g = Numbered(Selected(b, L)) OBVIOUS
<1>3. R = At(b, L) BY <1>1
<1>4. LinesUp(f, R) BY <1>1, <1>2, NumberedLine
<1>5. LinesUp(g, R) BY <1>2, <1>3, NumberedLine
<1>6. IsFiniteSet(R)
  <2>1. IsFiniteSet(1..m) BY UpTo
  <2>2. IsFiniteSet(K) BY <2>1, FS_Subset
  <2>3. PICK h : h = [i \in K |-> a[i]] OBVIOUS
  <2>4. h \in Surjection(K, R) BY <1>1, <2>3 DEF Surjection, At
  <2> QED BY <2>2, <2>4, FS_Surjection
<1>7. f = g
  <2>1. InLine(R, T) BY <1>1, <1>4 DEF LinesUp
  <2>2. PICK c \in Nat : Lined(f, c, R, T) BY <1>1, <1>4 DEF LinesUp
  <2>3. PICK d \in Nat : Lined(g, d, R, T) BY <1>1, <1>5 DEF LinesUp
  <2> QED BY <1>6, <2>1, <2>2, <2>3, LinesAgree
<1> QED BY <1>2, <1>7

\* A shuffle of finitely many leaves nobody out.
LEMMA ShufflesReach ==
    ASSUME NEW m \in Nat, NEW p \in [1..m -> 1..m], \A i, j \in 1..m : i # j => p[i] # p[j]
    PROVE  \A i \in 1..m : \E k \in 1..m : p[k] = i
<1>1. IsFiniteSet(1..m) BY UpTo
<1>2. p \in Injection(1..m, 1..m) BY DEF Injection, IsInjective
<1>3. p \in Surjection(1..m, 1..m) BY <1>1, <1>2, FS_Injection
<1> QED BY <1>3 DEF Surjection

\* The worklist of a shuffled list is that of the list.
LEMMA ShuffleChangesNothing ==
    ASSUME NEW s, GapsAreKnown(s), NEW coverage,
           coverage = MeasureCategoryCoverage(s.facings, s.walk, s.from, s.days),
           NEW gaps, gaps = s.gaps, NEW p \in [DOMAIN gaps -> DOMAIN gaps],
           \A i, j \in DOMAIN gaps : i # j => p[i] # p[j]
    PROVE  RankGaps(Shuffled(gaps, p), s.velocity, coverage, StandardPolicy, MinRevisitDensity)
             = RankGaps(gaps, s.velocity, coverage, StandardPolicy, MinRevisitDensity)
<1>1. PICK m \in Nat : DOMAIN gaps = 1..m BY DEF GapsAreKnown
<1>2. p \in [1..m -> 1..m] /\ \A i, j \in 1..m : p[i] = p[j] => i = j BY <1>1
<1>3. \A i \in 1..m : \E k \in 1..m : p[k] = i
  <2>1. \A i, j \in 1..m : i # j => p[i] # p[j] BY <1>2
  <2> QED BY <1>2, <2>1, ShufflesReach
<1>4. PICK shuffled : shuffled = Shuffled(gaps, p) OBVIOUS
<1>5. DOMAIN shuffled = 1..m /\ \A i \in 1..m : shuffled[i] = gaps[p[i]]
  BY <1>1, <1>4 DEF Shuffled
<1>6. /\ \A i \in 1..m : GapOK(gaps[i])
      /\ \A i, j \in 1..m : gaps[i].id = gaps[j].id => i = j
  BY <1>1 DEF GapsAreKnown
<1>7. PICK a, b : /\ a = RowsOf(gaps, s.velocity, coverage)
                  /\ b = RowsOf(shuffled, s.velocity, coverage)
  OBVIOUS
<1>8. DOMAIN a = 1..m /\ DOMAIN b = 1..m /\ \A i \in 1..m : b[i] = a[p[i]]
  BY <1>1, <1>2, <1>5, <1>7 DEF RowsOf
<1>9. \A i \in 1..m : RowOK(a[i]) /\ a[i].gap = gaps[i]
  <2> SUFFICES ASSUME NEW i \in 1..m PROVE RowOK(a[i]) /\ a[i].gap = gaps[i] OBVIOUS
  <2>1. PICK g, row : g = gaps[i] /\ row = a[i] OBVIOUS
  <2>2. row = Ranked(g, s.velocity, coverage, StandardPolicy, MinRevisitDensity)
    BY <1>1, <1>7, <2>1 DEF RowsOf
  <2>3. GapOK(g) BY <1>6, <2>1
  <2>4. RowOK(row) /\ row.gap = g BY <2>2, <2>3, RankedRow
  <2> QED BY <2>1, <2>4
<1>10. \A i, j \in 1..m : a[i].gap.id = a[j].gap.id => i = j BY <1>6, <1>9
<1>11. /\ \A i \in 1..m : RowOK(b[i])
       /\ \A i, j \in 1..m : b[i].gap.id = b[j].gap.id => i = j
  <2>1. \A i \in 1..m : p[i] \in 1..m BY <1>2
  <2>2. \A i \in 1..m : RowOK(b[i]) BY <1>8, <1>9, <2>1
  <2>3. ASSUME NEW i \in 1..m, NEW j \in 1..m, b[i].gap.id = b[j].gap.id PROVE i = j
    <3>1. p[i] = p[j] BY <1>8, <1>10, <2>1, <2>3
    <3> QED BY <1>2, <3>1
  <2> QED BY <2>2, <2>3
<1>12. ASSUME NEW K \in SUBSET (1..m), NEW L, L = {k \in 1..m : p[k] \in K}
       PROVE  Numbered(Selected(a, K)) = Numbered(Selected(b, L))
  <2>1. At(a, K) = At(b, L)
    <3>1. ASSUME NEW x \in At(a, K) PROVE x \in At(b, L)
      <4>1. PICK i \in K : x = a[i] BY DEF At
      <4>2. PICK k \in 1..m : p[k] = i BY <1>3
      <4>3. k \in L /\ b[k] = x BY <1>8, <1>12, <4>1, <4>2
      <4> QED BY <4>3 DEF At
    <3>2. ASSUME NEW x \in At(b, L) PROVE x \in At(a, K)
      <4>1. PICK k \in L : x = b[k] BY DEF At
      <4>2. p[k] \in K /\ x = a[p[k]] BY <1>8, <1>12, <4>1
      <4> QED BY <4>2 DEF At
    <3> QED BY <3>1, <3>2
  <2>2. L \in SUBSET (1..m) BY <1>12
  <2>3. RowsOK(a, m) BY <1>8, <1>9, <1>10 DEF RowsOK
  <2>4. RowsOK(b, m) BY <1>8, <1>11 DEF RowsOK
  <2> QED BY <2>1, <2>2, <2>3, <2>4, OneNumbering
<1>13. /\ CommittedAt(b) = {k \in 1..m : p[k] \in CommittedAt(a)}
       /\ ExcludedAt(b) = {k \in 1..m : p[k] \in ExcludedAt(a)}
  <2>1. \A k \in 1..m : p[k] \in 1..m /\ b[k].level = a[p[k]].level BY <1>2, <1>8
  <2>2. /\ \A k : k \in CommittedAt(b) <=> k \in 1..m /\ b[k].level = "in_scope"
        /\ \A k : k \in ExcludedAt(b) <=> k \in 1..m /\ b[k].level # "in_scope"
        /\ \A k : k \in CommittedAt(a) <=> k \in 1..m /\ a[k].level = "in_scope"
        /\ \A k : k \in ExcludedAt(a) <=> k \in 1..m /\ a[k].level # "in_scope"
    BY <1>8 DEF CommittedAt, ExcludedAt
  <2>3. \A k \in 1..m : k \in CommittedAt(b) <=> p[k] \in CommittedAt(a) BY <2>1, <2>2
  <2>4. \A k \in 1..m : k \in ExcludedAt(b) <=> p[k] \in ExcludedAt(a) BY <2>1, <2>2
  <2>5. CommittedAt(b) \subseteq 1..m /\ ExcludedAt(b) \subseteq 1..m BY <2>2
  <2> QED BY <2>3, <2>4, <2>5
<1>14. CommittedAt(a) \in SUBSET (1..m) /\ ExcludedAt(a) \in SUBSET (1..m)
  BY <1>8 DEF CommittedAt, ExcludedAt
<1>15. /\ Numbered(Selected(a, CommittedAt(a))) = Numbered(Selected(b, CommittedAt(b)))
       /\ Numbered(Selected(a, ExcludedAt(a))) = Numbered(Selected(b, ExcludedAt(b)))
  BY <1>12, <1>13, <1>14
<1>16. /\ RankGaps(gaps, s.velocity, coverage, StandardPolicy, MinRevisitDensity)
            = [committed |-> Numbered(Selected(a, CommittedAt(a))),
               excluded  |-> Numbered(Selected(a, ExcludedAt(a)))]
       /\ RankGaps(shuffled, s.velocity, coverage, StandardPolicy, MinRevisitDensity)
            = [committed |-> Numbered(Selected(b, CommittedAt(b))),
               excluded  |-> Numbered(Selected(b, ExcludedAt(b)))]
  BY <1>7 DEF RankGaps, RowsOf, CommittedAt, ExcludedAt
<1> QED BY <1>4, <1>15, <1>16

\* The committed gaps are those of the categories that were passed often enough.
LEMMA CommittedAre ==
    ASSUME NEW s, GapsAreKnown(s), NEW coverage,
           coverage = MeasureCategoryCoverage(s.facings, s.walk, s.from, s.days),
           NEW committed,
           committed = RankGaps(s.gaps, s.velocity, coverage, StandardPolicy,
                                MinRevisitDensity).committed
    PROVE  {r.gap : r \in ToSet(committed)} =
             {g \in ToSet(s.gaps) :
                /\ Cardinality(Mine(g, s.facings)) * s.days > 0
                /\ Cardinality(Looks(g, s.facings, s.walk, s.from, s.days))
                     >= 2 * (Cardinality(Mine(g, s.facings)) * s.days)}
<1>1. PICK gaps : gaps = s.gaps OBVIOUS
<1>2. PICK m \in Nat : DOMAIN gaps = 1..m BY <1>1 DEF GapsAreKnown
<1>3. /\ \A i \in 1..m : GapOK(gaps[i])
      /\ \A i, j \in 1..m : gaps[i].id = gaps[j].id => i = j
  BY <1>1, <1>2 DEF GapsAreKnown
<1>4. PICK a : a = RowsOf(gaps, s.velocity, coverage) OBVIOUS
<1>5. DOMAIN a = 1..m BY <1>2, <1>4 DEF RowsOf
<1> DEFINE Due(g) == /\ Cardinality(Mine(g, s.facings)) * s.days > 0
                     /\ Cardinality(Looks(g, s.facings, s.walk, s.from, s.days))
                          >= 2 * (Cardinality(Mine(g, s.facings)) * s.days)
<1>6. ASSUME NEW i \in 1..m
      PROVE  RowOK(a[i]) /\ a[i].gap = gaps[i] /\ (a[i].level = "in_scope" <=> Due(gaps[i]))
  <2>1. PICK g, row : g = gaps[i] /\ row = a[i] OBVIOUS
  <2>2. row = Ranked(g, s.velocity, coverage, StandardPolicy, MinRevisitDensity)
    BY <1>2, <1>4, <2>1 DEF RowsOf
  <2>3. GapOK(g) BY <1>3, <2>1
  <2>4. RowOK(row) /\ row.gap = g /\ (row.level = "in_scope" <=> Due(g))
    BY <2>2, <2>3, RankedRow
  <2> QED BY <2>1, <2>4
<1> HIDE DEF Due
<1>7. PICK K : K = CommittedAt(a) OBVIOUS
<1>8. K \in SUBSET (1..m) /\ \A i \in 1..m : i \in K <=> Due(gaps[i])
  BY <1>5, <1>6, <1>7 DEF CommittedAt
<1>9. committed = Numbered(Selected(a, K))
  BY <1>1, <1>4, <1>7 DEF RankGaps, RowsOf, CommittedAt
<1>10. PICK R : R = At(a, K) OBVIOUS
<1>11. \E c \in Nat : Lined(committed, c, R, Priorities(R))
  <2>1. \A i \in 1..m : RowOK(a[i]) BY <1>6
  <2>2. \A i, j \in 1..m : a[i].gap.id = a[j].gap.id => i = j BY <1>3, <1>6
  <2>3. RowsOK(a, m) BY <1>5, <2>1, <2>2 DEF RowsOK
  <2>4. LinesUp(committed, R) BY <1>8, <1>9, <1>10, <2>3, NumberedLine
  <2> QED BY <2>4 DEF LinesUp
<1>12. ToSet(committed) = R BY <1>11 DEF Lined, ToSet
<1>13. {r.gap : r \in R} = {g \in ToSet(gaps) : Due(g)}
  <2>1. ToSet(gaps) = {gaps[i] : i \in 1..m} BY <1>2 DEF ToSet
  <2>2. {r.gap : r \in R} = {gaps[i] : i \in K} BY <1>6, <1>8, <1>10 DEF At
  <2> QED BY <1>8, <2>1, <2>2
<1> QED BY <1>1, <1>12, <1>13 DEF Due

\* Whatever the gaps, the walks and the velocities: the worklist does not depend on the
\* order the gaps were read in, and a gap is committed exactly when its category was
\* passed twice a day for each of its facings (ranking.ts, rank-gaps.use-case.ts).
THEOREM WorklistIsOfTheGaps ==
    ASSUME sample.about = "ranking" => GapsAreKnown(sample)
    PROVE  RanksTheGapsThemselves
<1> SUFFICES ASSUME sample.about = "ranking" PROVE RanksTheGapsThemselves
  BY DEF RanksTheGapsThemselves
<1>1. GapsAreKnown(sample) OBVIOUS
<1>2. PICK coverage :
        coverage = MeasureCategoryCoverage(sample.facings, sample.walk, sample.from, sample.days)
  OBVIOUS
<1> DEFINE gaps == sample.gaps
           Ranking(g) == RankGapsForWindow(g, sample.facings, sample.walk, sample.velocity,
                                           sample.from, sample.days, sample.departments)
           Rank(g) == RankGaps(g, sample.velocity, coverage, StandardPolicy, MinRevisitDensity)
           Of(g) == {f \in sample.facings : /\ f.store = g.store /\ f.category = g.category
                                            /\ f.department = g.department}
           Passed(g) == {x \in sample.walk : /\ \E f \in Of(g) : f.id = x.facing
                                             /\ x.at >= sample.from
                                             /\ x.at < sample.from + sample.days}
<1>4. \A g : Ranking(g) =
        [committed    |-> Rank(g).committed, excluded |-> Rank(g).excluded,
         byDepartment |-> RankedByDepartment(Rank(g).committed, sample.departments),
         inScope      |-> CategoriesInServiceLevelScope(coverage, MinRevisitDensity)]
  BY <1>2 DEF RankGapsForWindow
<1>5. \A g : Of(g) = Mine(g, sample.facings) BY DEF Mine, Scope
<1>6. \A g : Passed(g) = Looks(g, sample.facings, sample.walk, sample.from, sample.days)
  BY <1>5 DEF Looks
<1> HIDE DEF Rank, Of, Passed, Ranking
<1>7. ASSUME NEW p \in [DOMAIN gaps -> DOMAIN gaps],
             \A i, j \in DOMAIN gaps : i # j => p[i] # p[j]
      PROVE  Ranking([i \in DOMAIN gaps |-> gaps[p[i]]]) = Ranking(gaps)
  <2>1. PICK shuffled : shuffled = [i \in DOMAIN gaps |-> gaps[p[i]]] OBVIOUS
  <2>2. shuffled = Shuffled(gaps, p) BY <2>1 DEF Shuffled
  <2>3. Rank(shuffled) = Rank(gaps)
    BY <1>1, <1>2, <1>7, <2>2, ShuffleChangesNothing DEF Rank
  <2> QED BY <1>4, <2>1, <2>3
<1>8. {r.gap : r \in ToSet(Ranking(gaps).committed)} =
        {g \in ToSet(gaps) : LET facingDays == Cardinality(Of(g)) * sample.days
                             IN  facingDays > 0 /\ Cardinality(Passed(g)) >= 2 * facingDays}
  <2>1. PICK committed : committed = Rank(gaps).committed OBVIOUS
  <2>2. Ranking(gaps).committed = committed BY <1>4, <2>1
  <2>3. {r.gap : r \in ToSet(committed)} =
          {g \in ToSet(gaps) :
             /\ Cardinality(Mine(g, sample.facings)) * sample.days > 0
             /\ Cardinality(Looks(g, sample.facings, sample.walk, sample.from, sample.days))
                  >= 2 * (Cardinality(Mine(g, sample.facings)) * sample.days)}
    BY <1>1, <1>2, <2>1, CommittedAre DEF Rank
  <2> QED BY <1>5, <1>6, <2>2, <2>3
<1> QED BY <1>7, <1>8 DEF RanksTheGapsThemselves, Ranking, Of, Passed

----------------------------------------------------------------------------
(***************************************************************************)
(* The container.                                                          *)
(***************************************************************************)
\* A wiring is of ports that ask for ports.
Wired(w) == \A p \in DOMAIN w : w[p].asks \in Seq(DOMAIN w) /\ w[p].throws \in BOOLEAN

Frames(w) == [port : DOMAIN w, next : Nat]
PortsOf(st) == {st[i].port : i \in 1..Len(st)}

\* The providers under way each asked for the next one, and none is among them twice.
Chained(w, st) ==
    /\ st \in Seq(Frames(w))
    /\ \A i \in 1..Len(st) : st[i].next \in 1..Len(w[st[i].port].asks) + 1
    /\ \A i \in 1..Len(st) - 1 :
          st[i].next > 1 /\ w[st[i].port].asks[st[i].next - 1] = st[i + 1].port
    /\ \A i, j \in 1..Len(st) : st[i].port = st[j].port => i = j

\* What a provider asked for before its latest question is there,
AllButLast(w, st, have) ==
    \A i \in 1..Len(st) : \A k \in 1..st[i].next - 2 : w[st[i].port].asks[k] \in have

\* and of the innermost one that question is of a port.
Asking(w, st, name) ==
    st = <<>> \/ LET f == st[Len(st)] IN f.next > 1 /\ w[f.port].asks[f.next - 1] = name

\* It has been answered, if there was one.
Answered(w, st, have) ==
    \A i \in 1..Len(st) :
       i = Len(st) /\ st[i].next > 1 => w[st[i].port].asks[st[i].next - 1] \in have

\* up is the chain st and a provider for name on it.
Under(w, st, up, have, name) ==
    /\ Chained(w, up) /\ AllButLast(w, up, have) /\ Answered(w, up, have)
    /\ PortsOf(up) = PortsOf(st) \cup {name}

\* What no order can build, of any wiring.
Stuck(w) ==
    UNION {U \in SUBSET DOMAIN w : \A p \in U : w[p].throws \/ ToSet(w[p].asks) \cap U # {}}

LEMMA UnbuildableIsStuck == Unbuildable = Stuck(providers)
  BY DEF Unbuildable, Stuck

\* A provider that asks for no more than there is, and does not throw, is not stuck.
LEMMA BuiltIsNotStuck ==
    ASSUME NEW w, NEW have, NEW p \in DOMAIN w, Wired(w), ~w[p].throws,
           have \cap Stuck(w) = {},
           \A k \in 1..Len(w[p].asks) : w[p].asks[k] \in have
    PROVE  p \notin Stuck(w)
<1> SUFFICES ASSUME p \in Stuck(w) PROVE FALSE OBVIOUS
<1>1. PICK U \in SUBSET DOMAIN w :
         p \in U /\ \A q \in U : w[q].throws \/ ToSet(w[q].asks) \cap U # {}
  BY DEF Stuck
<1>2. PICK k \in DOMAIN w[p].asks : w[p].asks[k] \in U BY <1>1 DEF ToSet
<1>3. DOMAIN w[p].asks = 1..Len(w[p].asks) BY DEF Wired
<1>4. U \subseteq Stuck(w) BY <1>1 DEF Stuck
<1> QED BY <1>2, <1>3, <1>4

\* A chain is stuck whose innermost provider throws, or asks for one of the chain.
LEMMA ChainIsStuck ==
    ASSUME NEW w, NEW st, Wired(w), Chained(w, st), st # <<>>,
           w[st[Len(st)].port].throws
             \/ \E k \in 1..Len(w[st[Len(st)].port].asks) :
                   w[st[Len(st)].port].asks[k] \in PortsOf(st)
    PROVE  PortsOf(st) \subseteq Stuck(w)
<1>1. Len(st) \in Nat /\ Len(st) > 0 BY DEF Chained
<1>2. \A i \in 1..Len(st) : st[i].port \in DOMAIN w
  <2>1. \A i \in 1..Len(st) : st[i] \in Frames(w) BY DEF Chained
  <2> QED BY <2>1 DEF Frames
<1>3. PortsOf(st) \in SUBSET DOMAIN w BY <1>2 DEF PortsOf
<1>4. ASSUME NEW i \in 1..Len(st)
      PROVE  w[st[i].port].throws \/ ToSet(w[st[i].port].asks) \cap PortsOf(st) # {}
  <2>1. DOMAIN w[st[i].port].asks = 1..Len(w[st[i].port].asks) BY <1>2 DEF Wired
  <2>2. CASE i = Len(st) BY <2>1, <2>2 DEF ToSet
  <2>3. CASE i # Len(st)
    <3>1. i \in 1..Len(st) - 1 /\ i + 1 \in 1..Len(st) BY <1>1, <2>3
    <3>2. w[st[i].port].asks[st[i].next - 1] = st[i + 1].port BY <3>1 DEF Chained
    <3>3. PICK k : k = st[i].next - 1 OBVIOUS
    <3>4. k \in 1..Len(w[st[i].port].asks)
      <4>1. st[i].next > 1 BY <3>1 DEF Chained
      <4>2. st[i].next \in 1..Len(w[st[i].port].asks) + 1 BY DEF Chained
      <4>3. Len(w[st[i].port].asks) \in Nat BY <1>2 DEF Wired
      <4> QED BY <4>1, <4>2, <4>3, <3>3
    <3>5. w[st[i].port].asks[k] \in PortsOf(st) BY <3>1, <3>2, <3>3 DEF PortsOf
    <3> QED BY <2>1, <3>4, <3>5 DEF ToSet
  <2> QED BY <2>2, <2>3
<1>5. \A p \in PortsOf(st) : w[p].throws \/ ToSet(w[p].asks) \cap PortsOf(st) # {}
  BY <1>4 DEF PortsOf
<1> HIDE DEF PortsOf
<1> QED BY <1>3, <1>5 DEF Stuck

\* A provider is run.
LEMMA Pushed ==
    ASSUME NEW w, NEW st, NEW have, NEW name \in DOMAIN w, Wired(w), Chained(w, st),
           name \notin PortsOf(st), Asking(w, st, name), AllButLast(w, st, have),
           NEW up, up = Append(st, [port |-> name, next |-> 1])
    PROVE  Under(w, st, up, have, name)
<1>1. PICK m : m = Len(st) OBVIOUS
<1>2. m \in Nat /\ st \in Seq(Frames(w)) BY <1>1 DEF Chained
<1>3. [port |-> name, next |-> 1] \in Frames(w) BY DEF Frames
<1>4. /\ up \in Seq(Frames(w)) /\ Len(up) = m + 1
      /\ \A i \in 1..m : up[i] = st[i]
      /\ up[m + 1] = [port |-> name, next |-> 1]
  BY <1>1, <1>2, <1>3
<1>5. \A i \in 1..m + 1 : i \in 1..m \/ i = m + 1 BY <1>2
<1>6. Len(w[name].asks) \in Nat BY DEF Wired
<1>7. \A i \in 1..m + 1 : up[i].next \in 1..Len(w[up[i].port].asks) + 1
  BY <1>1, <1>4, <1>5, <1>6 DEF Chained
<1>8. ASSUME NEW i \in 1..m
      PROVE  up[i].next > 1 /\ w[up[i].port].asks[up[i].next - 1] = up[i + 1].port
  <2>1. CASE i = m
    <3>1. st # <<>> BY <1>1, <1>2, <2>1
    <3>2. st[m].next > 1 /\ w[st[m].port].asks[st[m].next - 1] = name
      BY <1>1, <3>1 DEF Asking
    <3> QED BY <1>4, <2>1, <3>2
  <2>2. CASE i # m
    <3>1. i \in 1..m - 1 /\ i + 1 \in 1..m BY <1>2, <2>2
    <3> QED BY <1>1, <1>4, <3>1 DEF Chained
  <2> QED BY <2>1, <2>2
<1>9. ASSUME NEW i \in 1..m + 1, NEW j \in 1..m + 1, up[i].port = up[j].port PROVE i = j
  BY <1>1, <1>4, <1>5, <1>9 DEF Chained, PortsOf
<1>10. Chained(w, up)
  <2>1. (m + 1) - 1 = m BY <1>2
  <2> QED BY <1>4, <1>7, <1>8, <1>9, <2>1 DEF Chained
<1>11. AllButLast(w, up, have) BY <1>1, <1>4, <1>5 DEF AllButLast
<1>12. Answered(w, up, have) BY <1>4 DEF Answered
<1>13. PortsOf(up) = PortsOf(st) \cup {name}
  <2>1. 1..m + 1 = 1..m \cup {m + 1} BY <1>2
  <2> QED BY <1>1, <1>4, <2>1 DEF PortsOf
<1> QED BY <1>10, <1>11, <1>12, <1>13 DEF Under

\* A provider goes on to its next question.
LEMMA Moved ==
    ASSUME NEW w, NEW st, NEW have, Wired(w), Chained(w, st), st # <<>>,
           AllButLast(w, st, have), Answered(w, st, have),
           st[Len(st)].next <= Len(w[st[Len(st)].port].asks),
           NEW on, on = [st EXCEPT ![Len(st)].next = @ + 1]
    PROVE  /\ Chained(w, on) /\ AllButLast(w, on, have) /\ on # <<>>
           /\ PortsOf(on) = PortsOf(st)
           /\ Asking(w, on, w[st[Len(st)].port].asks[st[Len(st)].next])
<1>1. PICK m : m = Len(st) OBVIOUS
<1>2. m \in Nat /\ m > 0 /\ st \in Seq(Frames(w)) BY <1>1 DEF Chained
<1>3. PICK port, next : st[m].port = port /\ st[m].next = next OBVIOUS
<1>4. st[m] \in Frames(w) /\ port \in DOMAIN w /\ next \in Nat
  <2>1. st[m] \in Frames(w) BY <1>1, <1>2
  <2> QED BY <1>3, <2>1 DEF Frames
<1>5. next >= 1 /\ next <= Len(w[port].asks) /\ Len(w[port].asks) \in Nat
  BY <1>1, <1>2, <1>3, <1>4 DEF Chained, Wired
<1>6. /\ on \in Seq(Frames(w)) /\ Len(on) = m
      /\ \A i \in 1..m : i # m => on[i] = st[i]
      /\ on[m].port = port /\ on[m].next = next + 1
  <2>1. DOMAIN st = 1..m /\ m \in DOMAIN st BY <1>1, <1>2
  <2>2. on[m].port = port /\ on[m].next = next + 1 /\ on[m] \in Frames(w)
    <3>1. on[m] = [st[m] EXCEPT !.next = @ + 1] BY <1>1, <2>1
    <3>2. st[m] \in [port : DOMAIN w, next : Nat] BY <1>4 DEF Frames
    <3>3. on[m] = [port |-> port, next |-> next + 1] BY <1>3, <3>1, <3>2
    <3>4. next + 1 \in Nat BY <1>4
    <3> QED BY <1>4, <3>3, <3>4 DEF Frames
  <2>3. Len(on) = m /\ \A i \in 1..m : i # m => on[i] = st[i] BY <1>1, <1>2
  <2>4. on = [i \in 1..m |-> on[i]] BY <2>1
  <2>5. \A i \in 1..m : on[i] \in Frames(w) BY <1>1, <1>2, <2>2, <2>3
  <2> QED BY <1>2, <2>2, <2>3, <2>4, <2>5
<1>7. \A i \in 1..m : on[i].port = st[i].port BY <1>3, <1>6
<1>8. \A i \in 1..m : on[i].next \in 1..Len(w[on[i].port].asks) + 1
  <2>1. next + 1 \in 1..Len(w[port].asks) + 1 BY <1>4, <1>5
  <2> QED BY <1>1, <1>6, <2>1 DEF Chained
<1>9. \A i \in 1..m - 1 :
         on[i].next > 1 /\ w[on[i].port].asks[on[i].next - 1] = on[i + 1].port
  <2> TAKE i \in 1..m - 1
  <2>1. i \in 1..m /\ i # m /\ i + 1 \in 1..m BY <1>2
  <2> QED BY <1>1, <1>6, <1>7, <2>1 DEF Chained
<1>10. \A i, j \in 1..m : on[i].port = on[j].port => i = j BY <1>1, <1>7 DEF Chained
<1>11. Chained(w, on) BY <1>6, <1>8, <1>9, <1>10 DEF Chained
<1>12. ASSUME NEW i \in 1..m, NEW k \in 1..on[i].next - 2 PROVE w[on[i].port].asks[k] \in have
  <2>1. CASE i # m BY <1>1, <1>6, <2>1 DEF AllButLast
  <2>2. CASE i = m
    <3>1. k \in 1..next - 1 BY <1>4, <1>6, <2>2
    <3>2. CASE k = next - 1 BY <1>1, <1>2, <1>3, <1>4, <1>6, <2>2, <3>1, <3>2 DEF Answered
    <3>3. CASE k # next - 1
      <4>1. k \in 1..next - 2 BY <1>4, <3>1, <3>3
      <4> QED BY <1>1, <1>3, <1>6, <2>2, <4>1 DEF AllButLast
    <3> QED BY <3>2, <3>3
  <2> QED BY <2>1, <2>2
<1>13. AllButLast(w, on, have) BY <1>6, <1>12 DEF AllButLast
<1>14. PortsOf(on) = PortsOf(st) BY <1>1, <1>6, <1>7 DEF PortsOf
<1>15. Asking(w, on, w[st[Len(st)].port].asks[st[Len(st)].next])
  <2>1. on[m].next > 1 /\ on[m].next - 1 = next BY <1>4, <1>5, <1>6
  <2> QED BY <1>1, <1>3, <1>6, <2>1 DEF Asking
<1>16. on # <<>> BY <1>2, <1>6
<1> QED BY <1>11, <1>13, <1>14, <1>15, <1>16

\* A provider is left.
LEMMA Popped ==
    ASSUME NEW w, NEW st, NEW have, Wired(w), Chained(w, st), st # <<>>,
           AllButLast(w, st, have)
    PROVE  /\ Chained(w, Front(st)) /\ AllButLast(w, Front(st), have)
           /\ Answered(w, Front(st), have \cup {st[Len(st)].port})
           /\ PortsOf(Front(st)) = PortsOf(st) \ {st[Len(st)].port}
<1>1. PICK m, down : m = Len(st) - 1 /\ down = Front(st) OBVIOUS
<1>2. m \in Nat /\ Len(st) = m + 1 /\ st \in Seq(Frames(w)) BY <1>1 DEF Chained
<1>3. down = SubSeq(st, 1, m) BY <1>1 DEF Front
<1>4. down \in Seq(Frames(w)) /\ Len(down) = m /\ \A i \in 1..m : down[i] = st[i]
  BY <1>2, <1>3
<1>5. /\ 1..m \subseteq 1..m + 1 /\ m + 1 \in 1..m + 1
      /\ 1..m + 1 = 1..m \cup {m + 1} /\ m + 1 \notin 1..m
  BY <1>2
<1>6. ASSUME NEW i \in 1..m
      PROVE  st[i].next > 1 /\ w[st[i].port].asks[st[i].next - 1] = st[i + 1].port
  <2>1. i \in 1..Len(st) - 1 BY <1>2
  <2> QED BY <2>1 DEF Chained
<1>7. \A i \in 1..m - 1 :
         down[i].next > 1 /\ w[down[i].port].asks[down[i].next - 1] = down[i + 1].port
  <2> TAKE i \in 1..m - 1
  <2>1. i \in 1..m /\ i + 1 \in 1..m BY <1>2
  <2> QED BY <1>4, <1>6, <2>1
<1>8. Chained(w, down) BY <1>2, <1>4, <1>5, <1>7 DEF Chained
<1>9. AllButLast(w, down, have) BY <1>2, <1>4, <1>5 DEF AllButLast
<1>10. Answered(w, down, have \cup {st[Len(st)].port})
  <2> SUFFICES ASSUME NEW i \in 1..m, i = m
               PROVE  w[down[i].port].asks[down[i].next - 1] = st[m + 1].port
    BY <1>2, <1>4 DEF Answered
  <2> QED BY <1>4, <1>6
<1>11. PortsOf(down) = PortsOf(st) \ {st[m + 1].port}
  <2>1. \A i \in 1..m : st[i].port # st[m + 1].port BY <1>2, <1>5 DEF Chained
  <2> QED BY <1>2, <1>4, <1>5, <2>1 DEF PortsOf
<1> QED BY <1>1, <1>2, <1>8, <1>9, <1>10, <1>11

----------------------------------------------------------------------------
\* What is under way is the chain of the providers, nothing that is built is unbuildable
\* or is being built, nothing else that is buildable was run, and an error leaves
\* through nothing but what cannot be built.
ContainerTypes ==
    /\ providers \in Wirings
    /\ instances \subseteq DOMAIN providers
    /\ throwing \in BOOLEAN
    /\ runs \in [DOMAIN providers -> Nat]

UnderWay ==
    /\ Chained(providers, calls) /\ AllButLast(providers, calls, instances)
    /\ resolving = PortsOf(calls) /\ resolving \cap instances = {}
    /\ throwing => resolving \subseteq Unbuildable
    /\ ~throwing => Answered(providers, calls, instances)

Buildable ==
    /\ instances \cap Unbuildable = {}
    /\ \A p \in DOMAIN providers \ Unbuildable :
          runs[p] = IF p \in instances \cup resolving THEN 1 ELSE 0
    /\ asked \ Unbuildable \subseteq instances \cup resolving

ContainerInv == ContainerTypes /\ UnderWay /\ Buildable

LEMMA ContainerStarts == ContainerInit => ContainerInv
<1> SUFFICES ASSUME ContainerInit PROVE ContainerInv OBVIOUS
<1> USE DEF ContainerInit, Untouched
<1>1. ContainerTypes BY DEF ContainerTypes
<1>2. PortsOf(<<>>) = {} BY DEF PortsOf
<1>3. Chained(providers, <<>>) BY DEF Chained
<1>4. AllButLast(providers, <<>>, {}) /\ Answered(providers, <<>>, {})
  BY DEF AllButLast, Answered
<1>5. UnderWay BY <1>2, <1>3, <1>4 DEF UnderWay
<1>6. Buildable BY <1>2 DEF Buildable
<1> QED BY <1>1, <1>5, <1>6 DEF ContainerInv

\* A port is resolved, for the innermost provider or for nobody.
LEMMA ResolveKeeps ==
    ASSUME ContainerInv, WiringAssumption, ~throwing,
           NEW name \in DOMAIN providers, NEW under, Resolve(name, under),
           Chained(providers, under), AllButLast(providers, under, instances),
           PortsOf(under) = resolving, Asking(providers, under, name),
           asked' \in {asked, asked \cup {name}}, UNCHANGED <<providers, instances>>
    PROVE  ContainerInv'
<1>1. Wired(providers) BY DEF ContainerInv, ContainerTypes, WiringAssumption, Wired
<1>2. Unbuildable' = Unbuildable BY DEF Unbuildable
<1>3. CASE name \in instances /\ calls' = under /\ UNCHANGED <<resolving, throwing, runs>>
  <2>1. ContainerTypes' BY <1>3 DEF ContainerInv, ContainerTypes
  <2>2. Answered(providers, under, instances)
    <3>1. \A i \in 1..Len(under) : under # <<>> OBVIOUS
    <3> QED BY <1>3, <3>1 DEF Answered, Asking
  <2>3. UnderWay' BY <1>2, <1>3, <2>2 DEF ContainerInv, UnderWay
  <2>4. Buildable' BY <1>2, <1>3 DEF ContainerInv, Buildable
  <2> QED BY <2>1, <2>3, <2>4 DEF ContainerInv
<1>4. CASE /\ name \notin instances /\ name \in resolving
           /\ throwing' = TRUE /\ calls' = under /\ UNCHANGED <<resolving, runs>>
  <2>1. ContainerTypes' BY <1>4 DEF ContainerInv, ContainerTypes
  <2>2. resolving \subseteq Unbuildable
    <3>1. under # <<>> /\ Len(under) \in Nat BY <1>4 DEF PortsOf, Chained
    <3>2. PICK port, next : port = under[Len(under)].port /\ next = under[Len(under)].next
      OBVIOUS
    <3>3. next > 1 /\ providers[port].asks[next - 1] = name BY <3>1, <3>2 DEF Asking
    <3>4. next \in 1..Len(providers[port].asks) + 1 /\ port \in DOMAIN providers
      <4>1. Len(under) \in 1..Len(under) /\ under \in Seq(Frames(providers))
        BY <3>1 DEF Chained
      <4>2. under[Len(under)] \in Frames(providers) BY <3>1, <4>1
      <4> QED BY <3>2, <4>1, <4>2 DEF Chained, Frames
    <3>5. Len(providers[port].asks) \in Nat BY <1>1, <3>4 DEF Wired
    <3>6. next - 1 \in 1..Len(providers[port].asks) BY <3>3, <3>4, <3>5
    <3>7. PortsOf(under) \subseteq Stuck(providers)
      BY <1>1, <1>4, <3>1, <3>2, <3>3, <3>6, ChainIsStuck
    <3> QED BY <3>7, UnbuildableIsStuck
  <2>3. UnderWay' BY <1>2, <1>4, <2>2 DEF ContainerInv, UnderWay
  <2>4. Buildable' BY <1>2, <1>4, <2>2 DEF ContainerInv, Buildable
  <2> QED BY <2>1, <2>3, <2>4 DEF ContainerInv
<1>5. CASE /\ name \notin instances /\ name \notin resolving
           /\ resolving' = resolving \cup {name}
           /\ calls' = Append(under, [port |-> name, next |-> 1])
           /\ runs' = [runs EXCEPT ![name] = @ + 1] /\ UNCHANGED throwing
  <2>1. ContainerTypes' BY <1>5 DEF ContainerInv, ContainerTypes
  <2>2. PICK up : up = Append(under, [port |-> name, next |-> 1]) OBVIOUS
  <2>3. Under(providers, under, up, instances, name)
    <3>1. name \notin PortsOf(under) BY <1>5
    <3> QED BY <1>1, <2>2, <3>1, Pushed
  <2>4. UnderWay' BY <1>2, <1>5, <2>2, <2>3 DEF ContainerInv, UnderWay, Under
  <2>5. ASSUME NEW p \in DOMAIN providers \ Unbuildable
        PROVE  runs'[p] = IF p \in instances \cup resolving' THEN 1 ELSE 0
    BY <1>5 DEF ContainerInv, ContainerTypes, Buildable
  <2>6. Buildable' BY <1>2, <1>5, <2>5 DEF ContainerInv, Buildable
  <2> QED BY <2>1, <2>4, <2>6 DEF ContainerInv
<1> QED BY <1>3, <1>4, <1>5 DEF Resolve

\* What is known of the innermost provider.
LEMMA InnerIs ==
    ASSUME ContainerInv, calls # <<>>
    PROVE  /\ Len(calls) \in 1..Len(calls) /\ Len(calls) \in Nat
           /\ Inner = calls[Len(calls)] /\ Inner.port \in DOMAIN providers
           /\ Inner.port \in resolving /\ Inner.next \in 1..Len(Asks) + 1
<1>1. calls \in Seq(Frames(providers)) BY DEF ContainerInv, UnderWay, Chained
<1>2. Len(calls) \in 1..Len(calls) /\ Len(calls) \in Nat BY <1>1
<1>3. Inner \in Frames(providers) BY <1>1, <1>2 DEF Inner
<1> QED BY <1>2, <1>3 DEF ContainerInv, UnderWay, Chained, Frames, PortsOf, Inner, Asks

\* Every step keeps it.
LEMMA ContainerSteps ==
    ASSUME ContainerInv, WiringAssumption, [ContainerNext]_containerVars
    PROVE  ContainerInv'
<1>1. Wired(providers) BY DEF ContainerInv, ContainerTypes, WiringAssumption, Wired
<1>2. CASE Request
  <2>1. PICK name \in DOMAIN providers :
           Resolve(name, calls) /\ asked' = asked \cup {name}
    BY <1>2 DEF Request
  <2>2. Asking(providers, calls, name) BY <1>2 DEF Asking, Request
  <2> QED BY <1>2, <2>1, <2>2, ResolveKeeps DEF Request, ContainerInv, UnderWay
<1>3. CASE AskNext
  <2>1. PICK under : under = [calls EXCEPT ![Len(calls)].next = @ + 1] OBVIOUS
  <2>2. calls # <<>> /\ ~throwing /\ Inner.next <= Len(Asks) BY <1>3 DEF AskNext
  <2>3. PICK name : name = Asks[Inner.next] OBVIOUS
  <2>4. name \in DOMAIN providers
    <3>1. Inner.next \in 1..Len(Asks) /\ Asks \in Seq(DOMAIN providers)
      BY <1>1, <2>2, InnerIs DEF Asks, Wired
    <3> QED BY <2>3, <3>1
  <2>5. /\ Chained(providers, under) /\ AllButLast(providers, under, instances)
        /\ PortsOf(under) = PortsOf(calls) /\ Asking(providers, under, name)
    BY <1>1, <2>1, <2>2, <2>3, Moved DEF ContainerInv, UnderWay, Inner, Asks
  <2> QED BY <1>3, <2>1, <2>2, <2>3, <2>4, <2>5, ResolveKeeps
          DEF AskNext, ContainerInv, UnderWay
<1>4. CASE Break
  <2>1. resolving \subseteq Unbuildable
    BY <1>1, <1>4, ChainIsStuck, UnbuildableIsStuck DEF Break, ContainerInv, UnderWay, Inner
  <2> QED BY <1>4, <2>1
          DEF Break, ContainerInv, ContainerTypes, UnderWay, Buildable, Unbuildable
<1>5. CASE Return
  <2>1. PICK port : port = Inner.port OBVIOUS
  <2>2. /\ port \in DOMAIN providers /\ port \in resolving
        /\ Inner.next = Len(providers[port].asks) + 1
    <3>1. Len(Asks) \in Nat BY <1>1, <1>5, InnerIs DEF Return, Asks, Wired
    <3> QED BY <1>5, <2>1, <3>1, InnerIs DEF Return, Asks
  <2>3. ASSUME NEW k \in 1..Len(providers[port].asks)
        PROVE  providers[port].asks[k] \in instances
    <3>1. Len(providers[port].asks) \in Nat BY <1>1, <2>2 DEF Wired
    <3>2. Inner = calls[Len(calls)] /\ Len(calls) \in 1..Len(calls)
      BY <1>5, InnerIs DEF Return
    <3>3. CASE k = Len(providers[port].asks)
      <4>1. Inner.next > 1 /\ Inner.next - 1 = k BY <2>2, <3>1, <3>3
      <4> QED BY <1>5, <2>1, <3>2, <4>1 DEF Return, ContainerInv, UnderWay, Answered
    <3>4. CASE k # Len(providers[port].asks)
      <4>1. k \in 1..Inner.next - 2 BY <2>2, <3>1, <3>4
      <4> QED BY <2>1, <3>2, <4>1 DEF ContainerInv, UnderWay, AllButLast
    <3> QED BY <3>3, <3>4
  <2>4. port \notin Unbuildable
    BY <1>1, <1>5, <2>1, <2>2, <2>3, BuiltIsNotStuck, UnbuildableIsStuck
       DEF Return, ContainerInv, Buildable
  <2>5. PICK down : down = Front(calls) OBVIOUS
  <2>6. /\ Chained(providers, down) /\ AllButLast(providers, down, instances)
        /\ Answered(providers, down, instances \cup {port})
        /\ PortsOf(down) = resolving \ {port}
    BY <1>1, <1>5, <2>1, <2>5, Popped DEF Return, ContainerInv, UnderWay, Inner
  <2>7. AllButLast(providers, down, instances \cup {port}) BY <2>6 DEF AllButLast
  <2>8. /\ instances' = instances \cup {port} /\ resolving' = resolving \ {port}
        /\ calls' = down /\ UNCHANGED <<providers, throwing, runs, asked>>
        /\ ~throwing
    BY <1>5, <2>1, <2>5 DEF Return, Keep
  <2>9. ContainerTypes' BY <2>2, <2>8 DEF ContainerInv, ContainerTypes
  <2>10. UnderWay' BY <2>6, <2>7, <2>8 DEF ContainerInv, UnderWay
  <2>11. Unbuildable' = Unbuildable BY <2>8 DEF Unbuildable
  <2>12. instances' \cup resolving' = instances \cup resolving BY <2>2, <2>8
  <2>13. Buildable' BY <2>4, <2>8, <2>11, <2>12 DEF ContainerInv, Buildable
  <2> QED BY <2>9, <2>10, <2>13 DEF ContainerInv
<1>6. CASE Unwind
  <2>1. PICK port, down : port = Inner.port /\ down = Front(calls) OBVIOUS
  <2>2. port \in resolving /\ port \in Unbuildable
    BY <1>6, <2>1, InnerIs DEF Unwind, ContainerInv, UnderWay
  <2>3. /\ Chained(providers, down) /\ AllButLast(providers, down, instances)
        /\ PortsOf(down) = resolving \ {port}
    BY <1>1, <1>6, <2>1, Popped DEF Unwind, ContainerInv, UnderWay, Inner
  <2>4. /\ resolving' = resolving \ {port} /\ calls' = down /\ throwing
        /\ UNCHANGED <<providers, instances, throwing, runs, asked>>
    BY <1>6, <2>1 DEF Unwind
  <2>5. Unbuildable' = Unbuildable BY <2>4 DEF Unbuildable
  <2>6. ContainerTypes' BY <2>4 DEF ContainerInv, ContainerTypes
  <2>7. UnderWay' BY <2>3, <2>4, <2>5 DEF ContainerInv, UnderWay
  <2>8. Buildable' BY <2>2, <2>4, <2>5 DEF ContainerInv, Buildable
  <2> QED BY <2>6, <2>7, <2>8 DEF ContainerInv
<1>7. CASE Catch
  <2>1. Answered(providers, <<>>, instances) BY DEF Answered
  <2>2. /\ calls = <<>> /\ throwing' = FALSE
        /\ UNCHANGED <<providers, instances, resolving, calls, runs, asked>>
    BY <1>7 DEF Catch
  <2>3. Unbuildable' = Unbuildable BY <2>2 DEF Unbuildable
  <2>4. ContainerTypes' BY <2>2 DEF ContainerInv, ContainerTypes
  <2>5. UnderWay' BY <2>1, <2>2, <2>3 DEF ContainerInv, UnderWay
  <2>6. Buildable' BY <2>2, <2>3 DEF ContainerInv, Buildable
  <2> QED BY <2>4, <2>5, <2>6 DEF ContainerInv
<1>8. CASE Rest \/ UNCHANGED containerVars
  <2>1. UNCHANGED <<providers, instances, resolving, calls, throwing, runs, asked>>
    BY <1>8 DEF Rest, containerVars
  <2>2. Unbuildable' = Unbuildable BY <2>1 DEF Unbuildable
  <2>3. ContainerTypes' BY <2>1 DEF ContainerInv, ContainerTypes
  <2>4. UnderWay' BY <2>1, <2>2 DEF ContainerInv, UnderWay
  <2>5. Buildable' BY <2>1, <2>2 DEF ContainerInv, Buildable
  <2> QED BY <2>3, <2>4, <2>5 DEF ContainerInv
<1> QED BY <1>2, <1>3, <1>4, <1>5, <1>6, <1>7, <1>8 DEF ContainerNext

LEMMA ContainerAlways == ContainerSpec => []ContainerInv
<1>1. ContainerInv /\ [ContainerNext]_containerVars => ContainerInv'
  BY ContainerSteps, WiringAssumption
<1> QED BY <1>1, ContainerStarts, PTL DEF ContainerSpec

\* Whatever the wiring and however many ports there are and requests for them: what
\* can be built is built once, what cannot be never takes with it what can.
THEOREM ContainerBuildsOnce == ContainerSpec => []BuildsOnceOrRefuses
<1>1. ContainerInv => BuildsOnceOrRefuses
  BY DEF ContainerInv, UnderWay, Buildable, BuildsOnceOrRefuses, PortsOf
<1> QED BY <1>1, ContainerAlways, PTL
=============================================================================
