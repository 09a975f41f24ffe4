---------------------------- MODULE MCAlgorithms ----------------------------
(***************************************************************************)
(* The algorithms of the service against what they are meant to compute,   *)
(* over every small input of some kinds.  The walk of the verification     *)
(* rule and the resolution of ports run step by step; of the others an     *)
(* input is one initial state, its results are compared with a definition  *)
(* that does not compute them the same way.                                *)
(***************************************************************************)
EXTENDS VerificationScan, Availability, GapRanking, Container

CONSTANTS
    MaxLooks, Instants,
    Days   \* the days on which it is asked what a pilot still keeps

ASSUME DaysAssumption == Days \subseteq Nat

VARIABLE sample   \* what an algorithm is run on; NoSample while the walk runs

D == INSTANCE TaskDispatch
P == INSTANCE Platform

NoSample == [about |-> "walk"]

----------------------------------------------------------------------------
(* Every time-ordered sequence of up to MaxLooks passes, numbered in the   *)
(* order of their ids.                                                     *)
InOrder(k) == {a \in [1..k -> Instants] : \A i \in 1..(k - 1) : a[i] <= a[i + 1]}

MCInputs ==
    UNION {{[i \in 1..k |-> [id |-> i, of |-> "t1", at |-> a[i], clean |-> c[i]]] :
              a \in InOrder(k), c \in [1..k -> BOOLEAN]} : k \in 0..MaxLooks}

----------------------------------------------------------------------------
(* Histories as the aggregate writes them: each transition leads to another*)
(* state, several may share an instant.                                    *)
History(initial, a, to) == [initialState |-> initial,
                            events |-> [i \in DOMAIN to |-> [at |-> a[i], to |-> to[i]]]]

Moves(initial, to) == \A i \in DOMAIN to : to[i] # (IF i = 1 THEN initial ELSE to[i - 1])

Histories(k) ==
    UNION {{History(s, a, to) :
              a \in {x \in [1..k -> 0..4] : \A i \in 1..(k - 1) : x[i] <= x[i + 1]},
              to \in {x \in [1..k -> States] : Moves(s, x)}} : s \in States}

TimeWindows == {Window(f, t) : f \in {0, 1}, t \in {1, 3, 4}}

AvailabilitySamples ==
    [about : {"availability"}, w : TimeWindows,
     histories : {<<h>> : h \in UNION {Histories(k) : k \in 0..3}}
                 \cup {<<g, h>> : g, h \in Histories(1)}]

----------------------------------------------------------------------------
(* Three gaps over two categories; a facing has at most one of a kind.     *)
Facings == {[id |-> "f1", store |-> "s1", department |-> "d1", category |-> "c1"],
            [id |-> "f2", store |-> "s1", department |-> "d1", category |-> "c1"],
            [id |-> "f3", store |-> "s1", department |-> "d2", category |-> "c2"]}

Seen(f, at) == [facing |-> f, at |-> at]

\* None, a category just short of two a day, exactly two, one pass outside the day.
Walks == {{}, {Seen("f1", 0), Seen("f1", 1), Seen("f2", 1)},
          {Seen("f1", 0), Seen("f1", 1), Seen("f1", 2), Seen("f2", 1), Seen("f3", 0)},
          {Seen("f1", 0), Seen("f1", 1), Seen("f1", 2), Seen("f2", 1),
           Seen("f3", 0), Seen("f3", 2), Seen("f3", 3)},
          {Seen("f3", 0), Seen("f3", 4)}}

Velocities == {<<>>, [f1 |-> Ratio(2, 1)], [f1 |-> Ratio(3, 5), f3 |-> Ratio(1, 1)]}

Gap(id, f, kind, at) ==
    [id |-> id, facing |-> f.id, store |-> f.store, department |-> f.department,
     category |-> f.category, kind |-> kind, detectedAt |-> at]

GapLists ==
    {<<Gap(1, f[1], k[1], a[1]), Gap(2, f[2], k[2], a[2]), Gap(3, f[3], k[3], a[3])>> :
       f \in {g \in [1..3 -> Facings] : g[1].id # "f2"},
       k \in {j \in [1..3 -> {"availability_gap", "price_mismatch"}] : j[3] = "price_mismatch"},
       a \in {b \in [1..3 -> {0, 1}] : b[1] <= b[3]}}

RankingSamples ==
    [about : {"ranking"}, facings : {Facings}, from : {0}, days : {1},
     departments : {<<"d1", "d2">>},
     gaps  : {g \in GapLists : \A i, j \in 1..3 : i # j =>
                <<g[i].facing, g[i].kind>> # <<g[j].facing, g[j].kind>>},
     walk  : Walks, velocity : Velocities]

----------------------------------------------------------------------------
(* A store of one vendor with some of its models, perhaps one it does not  *)
(* list, and a tag of the store.                                           *)
Overrides == {<<>>, [restock_out_of_stock |-> "pink"], [restock_out_of_stock |-> "amber"],
              [restock_out_of_stock |-> "amber", replenish_low_stock |-> "red"],
              [tag_maintenance |-> "green"], [audit_count |-> "white", tag_maintenance |-> "teal"]}

LightSamples ==
    UNION {UNION {[about : {"lights"}, vendor : {v}, codes : {codes}, tag : codes,
                   override : Overrides, type : D!TaskType] :
                     codes \in SUBSET (DOMAIN D!VendorProfiles[v].models \cup {"unlisted"})} :
             v \in DOMAIN D!VendorProfiles}

----------------------------------------------------------------------------
(* Pilots of two tenants with names that may clash, one of them with one   *)
(* horizon off the standard.                                               *)
Tenant(retailer, slug, horizons, hold, keys, joined) ==
    [retailer |-> retailer, slug |-> slug, sources |-> <<"pos_movement", "caper_frame">>,
     facings |-> 40000, residency |-> "eu", onboardedAt |-> joined,
     retention  |-> [horizons |-> horizons, legalHold |-> hold],
     encryption |-> [keyManagement |-> "customer-managed", keyRotationPeriod |-> 90,
                     dataKeyRef |-> keys[1], backupKeyRef |-> keys[2]]]

Slugs == {<<"a">>, <<"a", "ts">>, <<"a", "app">>, <<"b">>}

NamedPilots ==
    {[about |-> "pilot", to |-> 270, retention |-> 7,
      tenants |-> <<Tenant("r1", s, P!StandardRetentionHorizons, FALSE, <<"k1", "k2">>, 0),
                    Tenant(r, t, P!StandardRetentionHorizons, FALSE, keys, 30)>>] :
       s, t \in Slugs, r \in {"r1", "r2"}, keys \in {<<"k3", "k4">>, <<"k2", "k3">>, <<"k3", "k3">>}}

KeptPilots ==
    {[about |-> "pilot", to |-> to, retention |-> retention,
      tenants |-> <<Tenant("r1", <<"a">>, P!StandardRetentionHorizons, FALSE, <<"k1", "k2">>, 0),
                    Tenant("r2", <<"b">>, [P!StandardRetentionHorizons EXCEPT ![c] = days],
                           hold, <<"k3", "k4">>, 30)>>] :
       to \in {240, 270, 450, 480}, retention \in {7, 30, 31}, c \in P!DataClasses,
       days \in {0, 7, 30, 100, 300, 450, 600, 1200}, hold \in BOOLEAN}

PilotSamples == NamedPilots \cup KeptPilots

MCDays == {30 * month : month \in 0..50}

PlanOf(s) ==
    P!PlanPilotDeployment(s.tenants, [from |-> 0, to |-> s.to],
                          [P!StandardBusOptions EXCEPT !.detectionRetention = s.retention])

----------------------------------------------------------------------------
(* Every wiring of three ports that ask for up to two others each, one of  *)
(* which may throw, and the shipped one.                                   *)
Three == {"p1", "p2", "p3"}

AsksOfThree == {<<>>} \cup {<<p>> : p \in Three} \cup {<<p, q>> : p, q \in Three}

MCWirings ==
    {[p \in Three |-> [asks |-> asks[p], throws |-> p = broken]] :
       asks \in [Three -> AsksOfThree], broken \in {"none", "p1"}}
      \cup {StandardProviders}

AContainer == [about |-> "container"]

----------------------------------------------------------------------------
(* One thing at a time: the walk, a container, or an algorithm's result.   *)
MCInit ==
    \/ ScanInit /\ sample = NoSample /\ providers = <<>> /\ Untouched
    \/ /\ looks = <<>> /\ n = 0 /\ scan = Start
       /\ \/ sample = AContainer /\ ContainerInit
          \/ /\ \/ sample \in AvailabilitySamples
                \/ sample \in RankingSamples
                \/ sample \in LightSamples
                \/ sample \in PilotSamples
             /\ providers = <<>> /\ Untouched

MCNext ==
    /\ UNCHANGED sample
    /\ \/ sample # AContainer /\ ScanNext /\ UNCHANGED containerVars
       \/ sample = AContainer /\ ContainerNext /\ UNCHANGED scanVars

MCSpec == MCInit /\ [][MCNext]_<<scanVars, sample, containerVars>>

----------------------------------------------------------------------------
\* The spans of a window add up: every instant of it counts once for each facing,
\* under the state the facing was in, and an overall index is the sum of those of
\* its departments, however events fall on the edges of the window and on each
\* other (availability-index.ts, availability-baseline.use-case.ts).
CountsEveryInstantOnce ==
    sample.about = "availability" =>
      LET w  == sample.w
          hs == sample.histories
          department == [i \in DOMAIN hs |-> IF i = 1 THEN "d1" ELSE "d2"]
          base == EstablishAvailabilityBaseline(hs, department, w, StandardBaselinePolicy)
          Moments(s) == {x \in (DOMAIN hs) \X (w.from..(w.to - 1)) :
                             StateAt(hs[x[1]], x[2]) \in s}
          Parts(key) == SumFunction([d \in DOMAIN base.byDepartment |-> base.byDepartment[d][key]])
      IN  /\ base.overall.inStock  = Cardinality(Moments({"in_stock"}))
          /\ base.overall.measured = Cardinality(Moments({"in_stock", "out_of_stock"}))
          /\ base.overall.unknown  = Cardinality(Moments({"unknown"}))
          /\ \A key \in {"inStock", "measured", "unknown"} : Parts(key) = base.overall[key]

\* The worklist is a matter of the gaps and not of the order they were read in, and
\* a gap is committed exactly when its category was passed twice a day for each of
\* its facings, the facings nobody passed included, and has a facing (ranking.ts, rank-gaps.use-case.ts).
RanksTheGapsThemselves ==
    sample.about = "ranking" =>
      LET gaps       == sample.gaps
          ranking(g) == RankGapsForWindow(g, sample.facings, sample.walk, sample.velocity,
                                          sample.from, sample.days, sample.departments)
          shuffles   == {p \in [DOMAIN gaps -> DOMAIN gaps] :
                           \A i, j \in DOMAIN gaps : i # j => p[i] # p[j]}
          Of(g)      == {f \in sample.facings : /\ f.store = g.store /\ f.category = g.category
                                                /\ f.department = g.department}
          Passed(g)  == {x \in sample.walk : /\ \E f \in Of(g) : f.id = x.facing
                                             /\ x.at >= sample.from
                                             /\ x.at < sample.from + sample.days}
      IN  /\ \A p \in shuffles : ranking([i \in DOMAIN gaps |-> gaps[p[i]]]) = ranking(gaps)
          /\ {r.gap : r \in ToSet(ranking(gaps).committed)} =
             {g \in ToSet(gaps) :
                LET facingDays == Cardinality(Of(g)) * sample.days
                IN  facingDays > 0 /\ Cardinality(Passed(g)) >= 2 * facingDays}

\* What a tag shows for a task of a type under a mapping: planned, ordered, degraded
\* and encoded.
Light(s, mapping, priority) ==
    LET profile == D!VendorProfiles[s.vendor]
        model   == D!ModelByCode(profile, s.tag)
        fleet   == D!DescribeCapabilities(profile,
                     [codes |-> s.codes, reachable |-> TRUE, batchLimit |-> 0, lease |-> 0])
        task    == [id |-> "t", facing |-> "f", lane |-> D!LaneFor(mapping, s.type),
                    priority |-> priority]
        command == D!BuildExpressCommand(task, fleet, 0, D!StandardDispatchPolicy)
    IN  D!EncodeExpression(profile, D!PlanExpression(command, model).rendering)

Urgency(pattern) == CASE pattern = "fast" -> 2 [] pattern = "slow" -> 1 [] OTHER -> 0

\* Under a mapping a retailer may have, a light means the task: nothing is planned
\* on a lane that is held back, a tag that has colours lights the lane of the task
\* or none, and the lane names no other type (color-lane.ts, create-tasks.use-case.ts,
\* degradation.ts and the vendors' encoders).
LightsSpeakTheLane ==
    sample.about = "lights" =>
      LET resolved == D!ResolveColorLaneMap("r1", "r1", sample.override)
          mapping  == resolved.value
          model    == D!ModelByCode(D!VendorProfiles[sample.vendor], sample.tag)
          work     == <<[gap |-> [store |-> "s1", facing |-> "f", kind |-> "availability_gap"]]>>
      IN  resolved.ok =>
            /\ ~D!PlanThrows(mapping, work)
            /\ D!TaskTypeForLane(mapping, D!LaneFor(mapping, sample.type)) = sample.type
            /\ model.colours # {} => \A p \in 0..3 :
                 Light(sample, mapping, p).light \in {D!LaneFor(mapping, sample.type), D!Nothing}

\* On any tag of any vendor, through the modes it lacks and the patterns it replaces,
\* the blink of a more urgent task is never slower than that of a less urgent one
\* (degradation.ts and the vendors' catalogues).
UrgencySurvives ==
    sample.about = "lights" =>
      LET resolved == D!ResolveColorLaneMap("r1", "r1", sample.override)
      IN  resolved.ok => \A p \in 0..2 :
            Urgency(Light(sample, resolved.value, p).pattern)
              <= Urgency(Light(sample, resolved.value, p + 1).pattern)

----------------------------------------------------------------------------
\* A plan that is accepted keeps the retailers apart: no schema, role, key, group,
\* topic or credential of one is another's, no job expires another's tables, and a
\* consumer is started on its own topics (tenancy.ts, data-store.ts, event-bus.ts).
PilotKeepsApart ==
    sample.about = "pilot" =>
      LET plan == PlanOf(sample)
          of(i) == sample.tenants[i]
          Jobs(i) == {<<j.schema, j.table>> : j \in plan.stores[i].retentionJobs}
          Granted(i) == UNION {t.acls : t \in plan.bus[i].topics}
      IN  plan.ok => \A i, j \in DOMAIN sample.tenants : i # j =>
            /\ P!OwnNames(P!NamespacesOf(of(i))) \cap P!OwnNames(P!NamespacesOf(of(j))) = {}
            /\ P!Keys(of(i)) \cap P!Keys(of(j)) = {}
            /\ Jobs(i) \cap Jobs(j) = {}
            /\ \A g \in Granted(i), h \in Granted(j) :
                  g.principal # h.principal /\ g.resource # h.resource
            /\ P!CreateDetectionConsumer(of(i).retailer,
                  P!SubscriptionsForRetailer(plan, of(i).retailer))
            /\ \A s \in P!SubscriptionsForRetailer(plan, of(i).retailer) :
                  s.topic \in {t.name : t \in plan.bus[i].topics}

\* A plan that is accepted can answer for the pilot: all of it stays reportable to
\* its last day, what a rollup says can be recomputed and who acted is known for as
\* long as what happened, and no record the broker may deliver again has left the
\* ledger that would recognise it (retention.ts, deployment.ts, event-bus.ts).
PilotRemembers ==
    sample.about = "pilot" =>
      LET plan == PlanOf(sample)
          Kept(t, class, now) == P!RetainedFrom(t.retention, class, t.onboardedAt, now)
      IN  plan.ok => \A t \in ToSet(sample.tenants) :
            /\ P!AuditRetentionOf(t.retention, t.onboardedAt, sample.to).retainedFrom
                 = t.onboardedAt
            /\ \A now \in {x \in Days : x >= t.onboardedAt} :
                 /\ Kept(t, "facing_history", now) <= Kept(t, "read_model_rollup", now)
                 /\ Kept(t, "audit_trail", now) <= Kept(t, "facing_history", now)
                 /\ Kept(t, "detection_event", now) <= Kept(t, "dead_letter", now)
                 /\ Max({t.onboardedAt, now - sample.retention})
                      >= Kept(t, "ingestion_ledger", now)
=============================================================================
