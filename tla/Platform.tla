------------------------------ MODULE Platform ------------------------------
(***************************************************************************)
(* The plan of a pilot: the tenants, what each keeps and for how long, the *)
(* names of everything it owns, and the checks a plan has to pass before   *)
(* anything is deployed (src/platform).  A slug is a sequence of words, a  *)
(* name built from it the sequence of its words.  Time is in days.         *)
(***************************************************************************)
EXTENDS Integers, Sequences, SequencesExt, FiniteSetsExt

Month == 30

DataClasses == {"detection_event", "facing_history", "ingestion_ledger", "task_record",
                "outcome_record", "read_model_rollup", "audit_trail", "audit_artifact",
                "dead_letter"}

StandardRetentionHorizons ==
    [detection_event |-> 90, facing_history |-> 550, ingestion_ledger |-> 30,
     task_record |-> 550, outcome_record |-> 400, read_model_rollup |-> 400,
     audit_trail |-> 550, audit_artifact |-> 1100, dead_letter |-> 14]

\* The earliest instant still kept of a class: never before the retailer joined,
\* and everything under a legal hold.
RetainedFrom(policy, class, onboardedAt, now) ==
    IF policy.legalHold THEN onboardedAt
    ELSE Max({onboardedAt, now - policy.horizons[class]})

\* What the audit export can reach is what is left of the facing histories.
AuditRetentionOf(policy, onboardedAt, now) ==
    [eventRetention    |-> policy.horizons["facing_history"],
     artifactRetention |-> policy.horizons["audit_artifact"],
     retainedFrom      |-> RetainedFrom(policy, "facing_history", onboardedAt, now)]

\* Mutant: a rollup may outlive the history it was computed from.
MutantLadder ==
    {<<"facing_history", "detection_event">>, <<"audit_artifact", "facing_history">>,
     <<"audit_trail", "facing_history">>, <<"task_record", "outcome_record">>,
     <<"detection_event", "dead_letter">>}

\* Pairs of classes of which the first is kept at least as long as the second.
RetentionLadder ==
    {<<"facing_history", "detection_event">>, <<"audit_artifact", "facing_history">>,
     <<"audit_trail", "facing_history">>, <<"facing_history", "read_model_rollup">>,
     <<"task_record", "outcome_record">>, <<"detection_event", "dead_letter">>}

RetentionIsCoherent(policy) ==
    /\ \A c \in DataClasses : policy.horizons[c] > 0
    /\ \A p \in RetentionLadder : policy.horizons[p[1]] >= policy.horizons[p[2]]

EncryptionIsDeployable(encryption) ==
    /\ encryption.keyManagement = "customer-managed"
    /\ encryption.dataKeyRef # encryption.backupKeyRef
    /\ encryption.keyRotationPeriod > 0

----------------------------------------------------------------------------
\* The physical names of a tenant.  A slug's hyphens become underscores in SQL
\* names and stay hyphens, hence word boundaries, in the others; in a topic the
\* slug is one segment.
NamespacesOf(tenant) ==
    [relationalSchema |-> <<"osa">> \o tenant.slug,
     timeseriesSchema |-> <<"osa">> \o tenant.slug \o <<"ts">>,
     role             |-> <<"osa">> \o tenant.slug \o <<"app">>,
     topicPrefix      |-> [root |-> "osa", retailer |-> tenant.slug],
     consumerGroup    |-> <<"osa", "ingest">> \o tenant.slug]

\* The names of a tenant's database that no other may have.
OwnNames(namespaces) ==
    {namespaces.relationalSchema, namespaces.timeseriesSchema, namespaces.role}

Keys(tenant) == {tenant.encryption.dataKeyRef, tenant.encryption.backupKeyRef}

\* What a registry of tenants refuses: an id, a slug or a key used twice.
DistinctTenants(tenants) ==
    \A i, j \in DOMAIN tenants : i # j =>
        /\ tenants[i].retailer # tenants[j].retailer
        /\ tenants[i].slug # tenants[j].slug
        /\ Keys(tenants[i]) \cap Keys(tenants[j]) = {}

TableSpecs ==
    [facing              |-> [kind |-> "relational", class |-> "facing_history"],
     ingestion_ledger    |-> [kind |-> "relational", class |-> "ingestion_ledger"],
     task                |-> [kind |-> "relational", class |-> "task_record"],
     audit_artifact      |-> [kind |-> "relational", class |-> "audit_artifact"],
     facing_event        |-> [kind |-> "timeseries", class |-> "facing_history"],
     detection_event     |-> [kind |-> "timeseries", class |-> "detection_event"],
     outcome_record      |-> [kind |-> "timeseries", class |-> "outcome_record"],
     audit_trail         |-> [kind |-> "timeseries", class |-> "audit_trail"],
     availability_rollup |-> [kind |-> "timeseries", class |-> "read_model_rollup"],
     dead_letter         |-> [kind |-> "timeseries", class |-> "dead_letter"]]

\* One expiry job per table, at the horizon of what the table holds.
PlanRetailerDataStore(tenant) ==
    LET names == NamespacesOf(tenant)
    IN  [retailer |-> tenant.retailer, namespaces |-> names,
         retentionJobs |->
           {[schema   |-> IF TableSpecs[t].kind = "timeseries" THEN names.timeseriesSchema
                          ELSE names.relationalSchema,
             table    |-> t,
             horizon  |-> tenant.retention.horizons[TableSpecs[t].class],
             strategy |-> IF TableSpecs[t].kind = "timeseries" THEN "drop_partition"
                          ELSE "delete_rows"] : t \in DOMAIN TableSpecs}]

\* Mutant: only the relational schemas are compared.
MutantPooling(stores) ==
    \A i, j \in DOMAIN stores : i # j =>
        stores[i].namespaces.relationalSchema # stores[j].namespaces.relationalSchema

\* A slug that ends like a suffix of another's names collides across kinds.
NoCrossRetailerPooling(stores) ==
    \A i, j \in DOMAIN stores : i # j =>
        OwnNames(stores[i].namespaces) \cap OwnNames(stores[j].namespaces) = {}

----------------------------------------------------------------------------
\* Half events of a source per facing and day.
SourceLoad == [shopper_scan |-> 1, arpalus_detection |-> 24, caper_frame |-> 48,
               carrot_tag_label |-> 8, pos_movement |-> 32]

\* What the name of a source reads in a principal.
SourceWords == [shopper_scan |-> <<"shopper", "scan">>,
                arpalus_detection |-> <<"arpalus", "detection">>,
                caper_frame |-> <<"caper", "frame">>,
                carrot_tag_label |-> <<"carrot", "tag", "label">>,
                pos_movement |-> <<"pos", "movement">>]

\* Records per day, doubled, at four times the mean, against 5000 a second.
TopicFitsOnePartition(tenant) ==
    \A s \in ToSet(tenant.sources) :
        tenant.facings * SourceLoad[s] * 4 <= 5000 * 86400 * 2

SourcesAreKnown(tenant) ==
    /\ tenant.sources # <<>>
    /\ ToSet(tenant.sources) \subseteq DOMAIN SourceLoad
    /\ \A i, j \in DOMAIN tenant.sources : i # j => tenant.sources[i] # tenant.sources[j]

Topic(tenant, segment, source) ==
    [root |-> "osa", retailer |-> tenant.slug, segment |-> segment, source |-> source]

ProducerPrincipal(tenant, source) ==
    <<"osa", "producer">> \o tenant.slug \o SourceWords[source]

\* A detection topic its producer writes and the service reads, and a dead letter
\* topic the other way round, for each source.
PlanRetailerBus(tenant, options) ==
    LET group == NamespacesOf(tenant).consumerGroup
        Acl(principal, operation, topic) ==
            [principal |-> principal, operation |-> operation, resource |-> topic]
        Spec(purpose, topic, retention, writer, reader) ==
            [name |-> topic, purpose |-> purpose, retention |-> retention, partitions |-> 1,
             minInSyncReplicas |-> Max({1, options.replicationFactor - 1}),
             key  |-> tenant.encryption.dataKeyRef,
             acls |-> {Acl(writer, "write", topic), Acl(reader, "read", topic)}]
        TopicsOf(s) ==
            {Spec("detection", Topic(tenant, "detections", s), options.detectionRetention,
                  ProducerPrincipal(tenant, s), group),
             Spec("dead_letter", Topic(tenant, "dead-letters", s), options.deadLetterRetention,
                  group, ProducerPrincipal(tenant, s))}
    IN  [retailer |-> tenant.retailer,
         topicPrefix |-> NamespacesOf(tenant).topicPrefix, consumerGroup |-> group,
         topics |-> UNION {TopicsOf(s) : s \in ToSet(tenant.sources)},
         subscriptions |-> {[topic |-> Topic(tenant, "detections", s), source |-> s,
                             retailer |-> tenant.retailer] : s \in ToSet(tenant.sources)}]

StandardBusOptions ==
    [replicationFactor |-> 3, detectionRetention |-> 7, deadLetterRetention |-> 14]

InNamespace(topic, prefix) == topic.root = prefix.root /\ topic.retailer = prefix.retailer

Principals(topology) ==
    UNION {{acl.principal : acl \in t.acls} : t \in topology.topics}

NoCrossRetailerTopics(bus) ==
    /\ \A i \in DOMAIN bus : \A t \in bus[i].topics :
          /\ InNamespace(t.name, bus[i].topicPrefix)
          /\ \A acl \in t.acls : InNamespace(acl.resource, bus[i].topicPrefix)
    /\ \A i, j \in DOMAIN bus : i # j =>
          /\ bus[i].consumerGroup # bus[j].consumerGroup
          /\ {t.name : t \in bus[i].topics} \cap {t.name : t \in bus[j].topics} = {}
          /\ Principals(bus[i]) \cap Principals(bus[j]) = {}

\* A topic that outlives the ledger would replay events the ledger has forgotten.
BusRetentionFits(bus, tenants) ==
    \A i \in DOMAIN bus : \A t \in bus[i].topics :
        t.purpose = "detection" =>
            t.retention <= tenants[i].retention.horizons["ingestion_ledger"]

----------------------------------------------------------------------------
PilotSize(tenants) == Len(tenants) \in 2..4

PilotWindow(window, tenants) ==
    /\ window.to - window.from \in (9 * Month)..(15 * Month)
    /\ \A i \in DOMAIN tenants : tenants[i].onboardedAt \in window.from..(window.to - 1)

RetentionOutlivesPilot(tenants, window) ==
    \A i \in DOMAIN tenants : \A c \in {"facing_history", "audit_trail", "audit_artifact"} :
        tenants[i].retention.horizons[c] >= window.to - window.from

\* Replicas and pool of a tenant, from its records per second.
SizeTenant(tenant) ==
    LET daily == SumSet({SourceLoad[s] : s \in ToSet(tenant.sources)})
        peak  == tenant.facings * daily * 4
    IN  [retailer |-> tenant.retailer, ingestReplicas |-> 2,
         connectionPoolSize |->
           Min({20, Max({4, (peak + 2 * 86400 * 200 - 1) \div (2 * 86400 * 200)})})]

RegionsOf(tenants) ==
    [r \in {tenants[i].residency : i \in DOMAIN tenants} |->
       {t.retailer : t \in {u \in ToSet(tenants) : u.residency = r}}]

\* The checks in the order they are made; the first that fails is reported.
PlanPilotDeployment(tenants, window, options) ==
    LET stores == [i \in DOMAIN tenants |-> PlanRetailerDataStore(tenants[i])]
        bus    == [i \in DOMAIN tenants |-> PlanRetailerBus(tenants[i], options)]
        Refused(why) == [ok |-> FALSE, why |-> why]
    IN  CASE ~PilotSize(tenants)                       -> Refused("size")
          [] ~PilotWindow(window, tenants)             -> Refused("window")
          [] ~RetentionOutlivesPilot(tenants, window)  -> Refused("retention")
          [] ~DistinctTenants(tenants)                 -> Refused("tenants")
          [] ~\A i \in DOMAIN tenants :
                /\ EncryptionIsDeployable(tenants[i].encryption)
                /\ RetentionIsCoherent(tenants[i].retention) -> Refused("store")
          [] ~NoCrossRetailerPooling(stores)           -> Refused("pooling")
          [] ~\A i \in DOMAIN tenants :
                SourcesAreKnown(tenants[i]) /\ TopicFitsOnePartition(tenants[i])
                                                       -> Refused("sources")
          [] ~NoCrossRetailerTopics(bus)               -> Refused("topics")
          [] ~BusRetentionFits(bus, tenants)           -> Refused("bus")
          [] OTHER -> [ok |-> TRUE, stores |-> stores, bus |-> bus,
                       sizing  |-> [i \in DOMAIN tenants |-> SizeTenant(tenants[i])],
                       regions |-> RegionsOf(tenants)]

\* What one retailer's consumer is started with.
SubscriptionsForRetailer(plan, retailer) ==
    {s \in UNION {plan.bus[i].subscriptions : i \in DOMAIN plan.bus} : s.retailer = retailer}

\* createDetectionConsumer takes no subscription of another retailer.
CreateDetectionConsumer(retailer, subscriptions) ==
    \A s \in subscriptions : s.retailer = retailer
=============================================================================
