------------------------------- MODULE AnyHome -------------------------------
(****************************************************************************)
(* What the network module computes, over every home a pack could seed      *)
(* rather than the homes the shipped packs reach: an arbitrary topology, an *)
(* agent that follows the verdict, and a count of the verbs it needed.      *)
(****************************************************************************)
EXTENDS DeviceActions, Offers, Views

CONSTANTS AllHomes,     \* the topologies a pack may seed
          Catalogue,    \* the offers, each for a home where something is bad
          MaxSteps      \* bound: verbs the agent may run

VARIABLES start, home, steps

vars == <<start, home, steps>>

ASSUME HomesAreTopologies == MaxSteps \in Nat /\ \A t \in AllHomes : IsTopology(t)

----------------------------------------------------------------------------
(* What DEFAULTS and the shipped packs meet and the code does not check: the *)
(* hypotheses of the theorems in AnyHomeProofs that need them.               *)

\* The statuses an operator calls down are those the detector watches.  DEFAULTS do;
\* a pack may watch fewer, and then a healthy home can have an extender that is down.
DownIsWatched == ApStatuses \ {"online"} \subseteq Config.flapping_ap_statuses

\* A catalogue whose offers are for a home where something is bad: weak coverage, a
\* signal or a backhaul at or below a value, an extender that is down.
OffersNameBadness ==
    /\ DOMAIN Catalogue \subseteq Nat \ {0}
    /\ \A i \in DOMAIN Catalogue :
           LET rules == Catalogue[i].eligibility
           IN  /\ Catalogue[i].offer_id # NoOffer
               /\ DOMAIN rules \subseteq Rules
               /\ \A rule \in DOMAIN rules :
                      /\ rule = "coverage_is_weak" => rules[rule] = TRUE
                      /\ rule \in {"device_on_extender_rssi_at_or_below",
                                   "any_device_rssi_at_or_below"} => rules[rule] \in Int
                      /\ rule = "extender_backhaul_at_or_below" =>
                             /\ rules[rule] \in Int
                             /\ rules[rule] < Config.healthy_backhaul_quality
                      /\ rule = "extender_status_in" => "online" \notin rules[rule]

\* Thresholds under which a steer mends: a poor signal is below the ceiling of the
\* gain and at the edge of its band.  DEFAULTS meet it, and nothing checks it.
SteerMends ==
    /\ Config.poor_rssi_dbm <= Config.steer_rssi_ceiling_dbm
    /\ Config.poor_rssi_dbm < Config.edge_rssi_24ghz_dbm

\* A cluster counts one device at least.
ClustersCount == Config.min_cluster_size >= 1

----------------------------------------------------------------------------
Init ==
    /\ home \in AllHomes
    /\ start = home
    /\ steps = 0

\* net-diagnostics, then device-action with what it recommends.
FollowVerdict ==
    \E v \in {BuildVerdict(home)} :
        /\ v.recommended_action \in Verbs
        /\ steps < MaxSteps
        /\ home' = DeviceAction(home, v.recommended_action, v.primary_target, NoBand).topology
        /\ steps' = steps + 1
        /\ UNCHANGED start

Next == FollowVerdict

Spec == Init /\ [][Next]_vars
FairSpec == Spec /\ WF_vars(Next)

----------------------------------------------------------------------------
Faulty(t) == StuckDevices(t) \union UnhealthyExtenders(t)

\* The rows keep their constraints under every verb.
TypeOK ==
    /\ IsTopology(start)
    /\ IsTopology(home)
    /\ steps \in 0..MaxSteps

\* The agent never needs more verbs than the home had faulty rows to begin
\* with: each recommended verb mends one, and none breaks another.
EachStepMendsOne ==
    steps + Cardinality(Faulty(home)) <= Cardinality(Faulty(start))

\* Following the verdict ends with nothing left to mend, unless the WAN is
\* degraded, which outranks the in-home faults and which no verb touches.
EndsMendedOrEscalated ==
    <>[](Faulty(home) = {} \/ ChosenFault(home) = "wan_degraded")

\* devices.py: "what the agent says about a device cannot disagree with the
\* verdict".  The phrase of the stuck device the verdict names is the worst
\* one, and an eligible device with that phrase on an access point that
\* carries the target band is never in a home reported healthy.
SpeechAgreesWithVerdict ==
    LET phrase(d) == StatusSummary(home.devices[d].band, home.devices[d].rssi)
        verdict   == BuildVerdict(home)
        weakSlow  == "weak signal on the slower band"
    IN  /\ verdict.fault_type = "device_band_stuck" =>
               phrase(verdict.primary_target) = weakSlow
        /\ (\E d \in DOMAIN home.devices :
                /\ phrase(d) = weakSlow
                /\ home.devices[d].steer_eligible
                /\ Config.steer_target_band \in
                       BandsOn(home, home.devices[d].connected_ap_id))
           => verdict.fault_type # NoFault

\* NetStatusOut: "Use this to confirm the fix worked".  device-action says that
\* the fault is cleared exactly if net-status, asked next, reports another or none,
\* although one asks the detectors and the other the verdict.
FixIsConfirmed(t) ==
    LET v     == BuildVerdict(t)
        done  == DeviceAction(t, v.recommended_action, v.primary_target, NoBand)
    IN  v.recommended_action \in Verbs =>
            done.fault_cleared <=> NetStatus(done.topology).fault_type # v.fault_type

\* The verdict, net-status, the device list and the operator's table tell one
\* story of a home: healthy exactly if no detector fires; then the WAN works (or
\* there is no gateway), every extender is online and no verb is recommended; a
\* fault has its trace in the counts; a named target is a row of the named kind;
\* and the worst device is the one the list starts with (admin/service.py: "with
\* the same verdict gx would report").
ViewsAgree ==
    LET v    == BuildVerdict(home)
        s    == NetStatus(home)
        a    == SubscriberState(home)
        list == DescribeDevices(home)
    IN  s.found =>
            /\ FixIsConfirmed(home)
            /\ s.healthy <=> DetectAll(home) = {}
            /\ a.has_network /\ \A f \in DOMAIN s \intersect DOMAIN a : s[f] = a[f]
            /\ \A f \in DOMAIN s \intersect DOMAIN v : s[f] = v[f]
            /\ s.healthy =>
                   /\ s.wan_ok \/ s.wan_status = ""
                   /\ s.extender_status \in {"none", "online"}
                   /\ s.ap_total - s.ap_online <=
                          Cardinality(DOMAIN home.access_points \ Extenders(home))
                   /\ a.recommended_action \notin Verbs
            /\ v.fault_type = "device_band_stuck" =>
                   /\ s.devices_on_target_band < s.device_total
                   /\ v.primary_target \in {list[i].device_id : i \in DOMAIN list}
            /\ v.primary_target_kind = "ap" => v.primary_target \in Extenders(home)
            /\ list # <<>> => /\ list[1].rssi = s.worst_device_rssi
                              /\ list[1].band = s.worst_device_band

\* The coverage readout against the rule its comments state: some extender has
\* a cluster of devices at the edge, or one device too far out on its own.  A
\* weak readout counts a device and names an extender that carries one.
CoverageMatchesItsRule ==
    LET far(d) == home.devices[d].rssi < Config.single_worst_rssi_dbm
        c == AssessCoverage(home)
    IN  /\ c.level = "weak" <=>
               \E a \in Extenders(home) :
                   \/ \E d \in OnAp(home, a) : far(d)
                   \/ \E S \in SUBSET EdgeOn(home, a) :
                          S # {} /\ Cardinality(S) = Config.min_cluster_size
        /\ c.level = "weak" =>
               /\ c.device_count >= 1
               /\ c.worst_area \in Extenders(home)
               /\ OnAp(home, c.worst_area) # {}

\* Mending a home never opens an offer conditioned on something being bad: the
\* offer the customer hears of after a verb is the one of before or one of lower
\* priority, so an agent cannot heal a customer into an upsell.
HealingOpensNoOffer ==
    [][LET before == OffersAnswer(Catalogue, home)
           after  == OffersAnswer(Catalogue, home')
       IN  after.eligible =>
               /\ before.eligible
               /\ \E i, j \in DOMAIN Catalogue :
                      /\ i <= j
                      /\ Catalogue[i].offer_id = before.offer_id
                      /\ Catalogue[j].offer_id = after.offer_id]_vars

\* coverage.py: "this signal must stay the same when a fault clears", "true after
\* band-steer": the coverage level is no different after a recommended verb.
CoverageSurvivesRepair ==
    [][AssessCoverage(home').level = AssessCoverage(home).level]_vars
=============================================================================
