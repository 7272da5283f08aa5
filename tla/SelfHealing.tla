----------------------------- MODULE SelfHealing -----------------------------
(****************************************************************************)
(* The demo loop over the homes of all tenants: an operator stages          *)
(* scenarios and resets (app/scenarios/engine.py), an agent diagnoses a     *)
(* home and runs the verb the verdict recommends (/gx/net-diagnostics and   *)
(* /gx/device-action), and any other caller may run any verb in between.    *)
(* Each request is one step here: a handler commits once, apart from apply, *)
(* whose two transactions are taken together.  The agent's diagnosis and    *)
(* its action are two requests, so the action may run on a stale verdict.   *)
(****************************************************************************)
EXTENDS DeviceActions, Offers

CONSTANTS Party,        \* subscribers with a seeded home
          Tenant,
          TenantOf,     \* the tenant each party belongs to
          Baseline,     \* the pack's topology of each party
          Scenario,     \* names of the scenario packs
          Pack,         \* each scenario: tenant, reset_first, parties, stage
          Call,         \* what other callers may send: party, verb, target, band
          MaxAudit      \* bound: operator requests that are audited

VARIABLES homes,        \* the network rows of each party
          feed,         \* its network.degraded events, oldest first
          audit,        \* the scenario_event log, all tenants
          session,      \* what the agent last diagnosed for each party
          cleared       \* fault types reported cleared since the last operator step

vars == <<homes, feed, audit, session, cleared>>

NoVerdict == [verb |-> "none", target |-> NoTarget]

\* A scenario's steps, grouped by the row they match (seed_key): the new WAN
\* status of the gateway, and the fields set on access points and devices.
\* The steps of one pack set every field at most once, so their order does
\* not matter.
Unset == "unset"

IsPack(k) ==
    /\ k.tenant \in Tenant
    /\ k.reset_first \in BOOLEAN
    /\ k.parties \subseteq Party
    /\ k.gateway \in WanStatuses \union {Unset}
    /\ k.access_points \in [DOMAIN k.access_points ->
                                 [status : ApStatuses, backhaul_quality : PgInteger]]
    /\ k.devices \in [DOMAIN k.devices -> [band : Bands, rssi : PgInteger]]

ASSUME SystemType ==
    /\ TenantOf \in [Party -> Tenant]
    /\ DOMAIN Baseline = Party
    /\ \A p \in Party : IsTopology(Baseline[p])
    /\ DOMAIN Pack = Scenario
    /\ \A s \in Scenario : IsPack(Pack[s])
    /\ \A c \in Call : c.party \in Party
    /\ MaxAudit \in Nat

\* Identifiers resolve inside the pack's own tenant only.
ASSUME PacksStayInTenant ==
    \A s \in Scenario : \A p \in Pack[s].parties : TenantOf[p] = Pack[s].tenant

PartiesOf(tenant) == {p \in Party : TenantOf[p] = tenant}

\* The UPDATE statements of a scenario: rows the home does not have match
\* nothing.
Staged(t, pack) ==
    [gateway |-> IF t.gateway = NoGateway \/ pack.gateway = Unset
                 THEN t.gateway ELSE pack.gateway,
     access_points |->
         [a \in DOMAIN t.access_points |->
             IF a \in DOMAIN pack.access_points
             THEN [t.access_points[a] EXCEPT
                      !.status = pack.access_points[a].status,
                      !.backhaul_quality = pack.access_points[a].backhaul_quality]
             ELSE t.access_points[a]],
     devices |->
         [d \in DOMAIN t.devices |->
             IF d \in DOMAIN pack.devices
             THEN [t.devices[d] EXCEPT !.band = pack.devices[d].band,
                                       !.rssi = pack.devices[d].rssi]
             ELSE t.devices[d]]]

\* Faulty variant: a healthy home gets an event too.
EmittedAlways(t) ==
    IF IsEmpty(t) THEN <<>>
    ELSE <<[fault_type     |-> ChosenFault(t),
            primary_target |-> Target(t, ChosenFault(t))]>>

\* emit_network_telemetry: the event of a home, none when it has no fault.
Emitted(t) ==
    IF IsEmpty(t) \/ ChosenFault(t) = NoFault THEN <<>>
    ELSE <<[fault_type     |-> ChosenFault(t),
            primary_target |-> Target(t, ChosenFault(t))]>>

\* Faulty variant: the devices go back, the gateway and access points do not.
ResetHomesDevices(tenant) ==
    [p \in Party |-> IF TenantOf[p] = tenant
                     THEN [homes[p] EXCEPT !.devices = Baseline[p].devices] ELSE homes[p]]

\* reset: every home of the tenant back to the pack's baseline, and the
\* tenant's events deleted.
ResetHomes(tenant) ==
    [p \in Party |-> IF TenantOf[p] = tenant THEN Baseline[p] ELSE homes[p]]

\* Faulty variant: the delete is not scoped to the tenant.
ResetFeedOfAll(tenant) == [p \in Party |-> <<>>]

ResetFeed(tenant) ==
    [p \in Party |-> IF TenantOf[p] = tenant THEN <<>> ELSE feed[p]]

ForgetCleared(tenant) ==
    [p \in Party |-> IF TenantOf[p] = tenant THEN {} ELSE cleared[p]]

Entry(action, tenant, scenario) ==
    [action |-> action, tenant |-> tenant, scenario |-> scenario]

----------------------------------------------------------------------------
Init ==
    /\ homes = Baseline
    /\ feed = [p \in Party |-> <<>>]
    /\ audit = <<>>
    /\ session = [p \in Party |-> NoVerdict]
    /\ cleared = [p \in Party |-> {}]

Reset(tenant) ==
    /\ Len(audit) < MaxAudit
    /\ homes' = ResetHomes(tenant)
    /\ feed' = ResetFeed(tenant)
    /\ audit' = Append(audit, Entry("reset", tenant, ""))
    /\ cleared' = ForgetCleared(tenant)
    /\ UNCHANGED session

\* apply: reset first when the pack says so, run the steps on the resolved
\* parties, raise telemetry for whoever ends up faulted, log one entry.
Apply(s) ==
    LET pack  == Pack[s]
        from  == IF pack.reset_first THEN ResetHomes(pack.tenant) ELSE homes
        feeds == IF pack.reset_first THEN ResetFeed(pack.tenant) ELSE feed
    IN  /\ Len(audit) < MaxAudit
        /\ pack.parties # {}
        /\ homes' = [p \in Party |-> IF p \in pack.parties
                                     THEN Staged(from[p], pack) ELSE from[p]]
        /\ feed' = [p \in Party |-> IF p \in pack.parties
                                    THEN feeds[p] \o Emitted(homes'[p]) ELSE feeds[p]]
        /\ audit' = Append(audit, Entry("apply", pack.tenant, s))
        /\ cleared' = ForgetCleared(pack.tenant)
        /\ UNCHANGED session

\* apply on a pack whose identifiers resolve to nobody: the ScenarioError
\* comes after the reset has committed, and before anything is logged.
ApplyUnresolved(s) ==
    LET pack == Pack[s]
    IN  /\ pack.parties = {}
        /\ homes' = IF pack.reset_first THEN ResetHomes(pack.tenant) ELSE homes
        /\ feed' = IF pack.reset_first THEN ResetFeed(pack.tenant) ELSE feed
        /\ cleared' = IF pack.reset_first THEN ForgetCleared(pack.tenant) ELSE cleared
        /\ UNCHANGED <<audit, session>>

\* GET /gx/net-diagnostics: the agent keeps the verb and the target.
Diagnose(p) ==
    /\ session' = [session EXCEPT ![p] =
          IF IsEmpty(homes[p]) THEN NoVerdict
          ELSE [verb   |-> Recommended(ChosenFault(homes[p])),
                target |-> Target(homes[p], ChosenFault(homes[p]))]]
    /\ UNCHANGED <<homes, feed, audit, cleared>>

\* POST /gx/device-action on a home, whoever sends it.
Perform(p, verb, target, band) ==
    LET reply  == DeviceAction(homes[p], verb, target, band)
        before == ChosenFault(homes[p])
    IN  /\ homes' = [homes EXCEPT ![p] = reply.topology]
        /\ cleared' = [cleared EXCEPT ![p] =
              IF reply.fault_cleared THEN @ \union {before} ELSE @]
        /\ UNCHANGED <<feed, audit>>

\* The agent follows the verdict it holds, stale or not.
AgentActs(p) ==
    /\ session[p].verb \in Verbs
    /\ Perform(p, session[p].verb, session[p].target, NoBand)
    /\ session' = [session EXCEPT ![p] = NoVerdict]

OtherCall(c) ==
    /\ Perform(c.party, c.verb, c.target, c.band)
    /\ UNCHANGED session

Operator == \/ \E tenant \in Tenant : Reset(tenant)
            \/ \E s \in Scenario : Apply(s)
            \/ \E s \in Scenario : ApplyUnresolved(s)

Next == \/ Operator
        \/ \E p \in Party : Diagnose(p)
        \/ \E p \in Party : AgentActs(p)
        \/ \E c \in Call : OtherCall(c)

Spec == Init /\ [][Next]_vars

\* The agent keeps polling and keeps acting on what it is told.
FairSpec == Spec /\ \A p \in Party :
                 WF_vars(Diagnose(p)) /\ WF_vars(AgentActs(p))

----------------------------------------------------------------------------
(* What the shipped packs do and nothing checks.                            *)

\* A pack that does not reset first sets every row and every gateway that a pack of
\* its tenant sets, as northwind's `healthy` does.
RestoresAreComplete ==
    \A s \in Scenario : ~Pack[s].reset_first /\ Pack[s].parties # {} =>
        \A k \in Scenario : \A p \in Pack[k].parties : Pack[k].tenant = Pack[s].tenant =>
            /\ p \in Pack[s].parties
            /\ Pack[k].gateway # Unset => Pack[s].gateway # Unset
            /\ DOMAIN Pack[k].access_points \subseteq DOMAIN Pack[s].access_points
            /\ DOMAIN Pack[k].devices \subseteq DOMAIN Pack[s].devices

\* A pack stages no repair of the seeded homes: a reset that its own apply does not
\* follow leaves no fault that a take would not have left.
StagesOnlyAdd ==
    \A s \in Scenario : \A p \in Pack[s].parties :
        DetectAll(Baseline[p]) \subseteq DetectAll(Staged(Baseline[p], Pack[s]))

\* A device nothing of the demo changes: no pack sets it, and a steer refuses it or
\* finds it on the band it asks for.
AtRest(p, d) ==
    LET device == Baseline[p].devices[d]
    IN  /\ d \in DOMAIN Baseline[p].devices
        /\ \A s \in Scenario : p \in Pack[s].parties => d \notin DOMAIN Pack[s].devices
        /\ \/ ~device.steer_eligible
           \/ /\ device.band = Config.steer_target_band
              /\ \A c \in Call : c.party = p /\ c.verb = "band-steer" /\ c.target = d
                                     => SteerBand(c.band) = device.band

\* The devices of a seeded home that an extender serves.
Extended(p) ==
    {d \in DOMAIN Baseline[p].devices :
        Baseline[p].devices[d].connected_ap_id \in Extenders(Baseline[p])}

\* What decides the coverage of a seeded home is out of the demo's reach: a device at
\* rest, far from its extender, or that no extender serves a device.
CoverageRests ==
    \A p \in Party :
        \/ Extended(p) = {}
        \/ \E d \in Extended(p) :
               /\ AtRest(p, d)
               /\ Baseline[p].devices[d].rssi < Config.single_worst_rssi_dbm

----------------------------------------------------------------------------
FeedEntry == [fault_type : Detectors, primary_target : Int]
AuditEntry == [action : {"apply", "reset"}, tenant : Tenant,
               scenario : Scenario \union {""}]

\* Type correctness: the tables keep their CHECK constraints and foreign keys.
TypeOK ==
    /\ DOMAIN homes = Party
    /\ \A p \in Party : IsTopology(homes[p])
    /\ feed \in [Party -> Seq(FeedEntry)]
    /\ audit \in Seq(AuditEntry)
    /\ DOMAIN session = Party
    /\ \A p \in Party : session[p].target \in Int
    /\ cleared \in [Party -> SUBSET Detectors]

----------------------------------------------------------------------------
\* The rows a recommended verb can mend.
Faulty(t) == StuckDevices(t) \union UnhealthyExtenders(t)

\* The home a party would have had the last logged operator request of its
\* tenant been made on a freshly seeded database.
ExpectedStage(p) ==
    LET mine == {i \in DOMAIN audit : audit[i].tenant = TenantOf[p]}
        last == audit[CHOOSE i \in mine : \A j \in mine : j <= i]
    IN  IF mine = {} \/ last.action = "reset" THEN Baseline[p]
        ELSE IF p \in Pack[last.scenario].parties
             THEN Staged(Baseline[p], Pack[last.scenario])
             ELSE Baseline[p]

\* The place of a fault type in the precedence, the first if it is named twice.
Rank(f) ==
    LET places == {i \in DOMAIN Config.fault_precedence : Config.fault_precedence[i] = f}
    IN  CHOOSE i \in places : \A j \in places : i <= j

\* The verdict and the verbs agree: whenever a verdict recommends a verb, that
\* verb accepts the verdict's target, and leaves strictly fewer faulty things,
\* the target no longer among them.  (faults.py decides, actions.py acts; the
\* two are written apart and joined only by configuration.)
RecommendedActionWorks ==
    \A p \in Party :
        LET t      == homes[p]
            f      == ChosenFault(t)
            target == Target(t, f)
            reply  == DeviceAction(t, Recommended(f), target, NoBand)
        IN  Recommended(f) \in Verbs =>
                /\ reply.ok
                /\ target \notin Faulty(reply.topology)
                /\ Faulty(reply.topology) \subseteq Faulty(t) \ {target}

\* Staging does not depend on what the last take left behind (README, "staging
\* never depends on what the last take left behind"): whatever was done to a home
\* since, it has no fault that the last logged apply or reset would not have
\* given a freshly seeded home.  `healthy` does not reset, so it is the case
\* where this could fail.
FaultsExplainedByLastTake ==
    \A p \in Party : DetectAll(homes[p]) \subseteq DetectAll(ExpectedStage(p))

\* A fault type device-action reported as cleared does not come back until the
\* operator stages or resets, whichever verbs are run in between.
ClearedStaysCleared ==
    \A p \in Party : cleared[p] \intersect DetectAll(homes[p]) = {}

\* In a home whose baseline is healthy a fault never goes unannounced: there is
\* a network.degraded event, and the newest one names a fault at least as
\* urgent as the one the verdict reports now (telemetry is emitted once, at
\* staging, while the verdict moves on as faults are cleared).
FaultAnnounced ==
    \A p \in Party :
        LET f == ChosenFault(homes[p])
        IN  DetectAll(Baseline[p]) = {} /\ f # NoFault =>
                /\ feed[p] # <<>>
                /\ Rank(feed[p][Len(feed[p])].fault_type) <= Rank(f)

\* No device-action call, however stale its target, makes a healthy device or
\* extender faulty or degrades the WAN: only the operator stages faults.
DeviceActionsOnlyHeal ==
    [][~Operator => \A p \in Party :
           /\ Faulty(homes'[p]) \subseteq Faulty(homes[p])
           /\ homes'[p].gateway = homes[p].gateway]_vars

\* The upsell survives the self-heal (coverage.py: the signal "must stay the
\* same when a fault clears"): outside operator requests, the coverage level of
\* a home never changes.
CoverageDurable ==
    [][~Operator => \A p \in Party :
           AssessCoverage(homes'[p]).level = AssessCoverage(homes[p]).level]_vars

\* An agent that keeps polling and keeps following the verdict brings every home
\* to a verdict it cannot act on, healthy or escalate, and keeps it there,
\* unless the operator keeps intervening.
Settled(p) == Recommended(ChosenFault(homes[p])) \notin Verbs

AgentSettlesEveryHome ==
    \/ []<><<Operator>>_vars
    \/ \A p \in Party : <>[]Settled(p)

\* README: "every apply and reset is recorded in an event log".
OperatorChangesAreLogged ==
    [][Operator /\ homes' # homes => audit' # audit]_vars
=============================================================================
