----------------------------- MODULE HomeNetwork -----------------------------
(****************************************************************************)
(* One subscriber's home network and everything the network module computes *)
(* from it: the fault detectors, the verdict, and the coverage assessment   *)
(* (app/modules/network: models, service, config, faults, coverage,         *)
(* devices).  Pure operators, no state.                                     *)
(*                                                                          *)
(* A topology is a record                                                   *)
(*   gateway       : the WAN status, or NoGateway when the home has none    *)
(*   access_points : a function from AP ids to rows                         *)
(*   devices       : a function from device ids to rows                     *)
(* Ids stand for the UUID keys.  They are numbers so that their order is    *)
(* the order in which load_topology returns the rows (ORDER BY kind, label  *)
(* and ORDER BY label), which is what Python's min and max break ties by.   *)
(* Labels, models, MACs, channels and radio utilisation carry no decision   *)
(* and are left out; an AP's radios are the set of their bands.             *)
(****************************************************************************)
EXTENDS Integers, Sequences, FiniteSets

CONSTANT Config         \* network_config(tenant): DEFAULTS plus the pack's overrides

WanStatuses == {"online", "degraded", "offline"}
ApKinds     == {"gateway", "extender", "ap"}
ApStatuses  == {"online", "flapping", "offline"}
Bands       == {"2.4", "5", "6"}
NoFault     == "none"
NoGateway   == "none"
GatewayId   == 0
NoTarget    == -1

\* PostgreSQL's Integer column type, 32 bits.
PgLeast == (-2) * 1024 * 1024 * 1024
PgInteger == PgLeast..-(PgLeast + 1)

Detectors == {"wan_degraded", "device_band_stuck", "extender_flapping"}

\* What a pack must configure for the verdict to be usable: thresholds are
\* numbers, and a device is steered onto a band that exists.
ASSUME ConfigType ==
    /\ Config.poor_rssi_dbm \in Int
    /\ Config.steer_target_band \in Bands
    /\ Config.steer_rssi_gain_db \in Nat
    /\ Config.steer_rssi_ceiling_dbm \in PgInteger
    /\ Config.flapping_ap_statuses \subseteq ApStatuses
    /\ Config.poor_backhaul_quality \in Int
    /\ Config.healthy_backhaul_quality \in PgInteger
    /\ Config.wan_ok_statuses \subseteq WanStatuses
    /\ Config.edge_rssi_5ghz_dbm \in Int
    /\ Config.edge_rssi_24ghz_dbm \in Int
    /\ Config.min_cluster_size \in Int
    /\ Config.single_worst_rssi_dbm \in Int
    /\ Config.fault_precedence \in Seq(Detectors)
    /\ DOMAIN Config.recommended_actions \subseteq Detectors \union {NoFault}

\* DEFAULTS meets these; a pack may override them, and nothing in the code
\* checks it.  The remedy theorems need them.
ASSUME ConfigHeals ==
    /\ Config.healthy_backhaul_quality > Config.poor_backhaul_quality
    /\ "online" \notin Config.flapping_ap_statuses
    /\ \A f \in Detectors : \E i \in DOMAIN Config.fault_precedence :
           Config.fault_precedence[i] = f

ApRow == [kind : ApKinds, status : ApStatuses, backhaul_quality : PgInteger,
          radios : SUBSET Bands]
DeviceRow == [connected_ap_id : Int, band : Bands, rssi : PgInteger,
              steer_eligible : BOOLEAN]

\* The rows of one party as the tables' constraints allow them: the CHECK
\* constraints, the foreign key of connected_ap_id, keys of different tables
\* never equal, and no more than finitely many rows.
IsTopology(t) ==
    /\ t = [gateway |-> t.gateway, access_points |-> t.access_points,
            devices |-> t.devices]
    /\ t.gateway \in WanStatuses \union {NoGateway}
    /\ t.access_points \in [DOMAIN t.access_points -> ApRow]
    /\ t.devices \in [DOMAIN t.devices -> DeviceRow]
    /\ DOMAIN t.access_points \subseteq Nat \ {GatewayId}
    /\ DOMAIN t.devices \subseteq Nat \ {GatewayId}
    /\ IsFiniteSet(DOMAIN t.access_points) /\ IsFiniteSet(DOMAIN t.devices)
    /\ DOMAIN t.access_points \intersect DOMAIN t.devices = {}
    /\ \A d \in DOMAIN t.devices :
           t.devices[d].connected_ap_id \in DOMAIN t.access_points

\* Faulty variant: only the extenders that are up.
ExtendersOnline(t) ==
    {a \in DOMAIN t.access_points : /\ t.access_points[a].kind = "extender"
                                    /\ t.access_points[a].status = "online"}

Extenders(t) ==
    {a \in DOMAIN t.access_points : t.access_points[a].kind = "extender"}

BandsOn(t, a) ==
    IF a \in DOMAIN t.access_points THEN t.access_points[a].radios ELSE {}

IsEmpty(t) ==
    /\ t.gateway = NoGateway
    /\ DOMAIN t.access_points = {}
    /\ DOMAIN t.devices = {}

\* Python's min over rows in query order: the smallest key, the first of equals.
Weakest(t, S) ==
    CHOOSE d \in S : \A e \in S :
        \/ t.devices[d].rssi < t.devices[e].rssi
        \/ t.devices[d].rssi = t.devices[e].rssi /\ d <= e

WorstBackhaul(t, S) ==
    CHOOSE a \in S : \A b \in S :
        \/ t.access_points[a].backhaul_quality < t.access_points[b].backhaul_quality
        \/ /\ t.access_points[a].backhaul_quality = t.access_points[b].backhaul_quality
           /\ a <= b

----------------------------------------------------------------------------
(* Fault detection: app/modules/network/faults.py *)

WanOk(t) == t.gateway # NoGateway /\ t.gateway \in Config.wan_ok_statuses

WanDegraded(t) == t.gateway # NoGateway /\ t.gateway \notin Config.wan_ok_statuses

StuckDevices(t) ==
    {d \in DOMAIN t.devices :
        /\ t.devices[d].steer_eligible
        /\ t.devices[d].band # Config.steer_target_band
        /\ t.devices[d].rssi <= Config.poor_rssi_dbm
        /\ Config.steer_target_band \in BandsOn(t, t.devices[d].connected_ap_id)}

\* Faulty variant: any access point is taken for an extender.
UnhealthyAps(t) ==
    {a \in DOMAIN t.access_points :
        \/ t.access_points[a].status \in Config.flapping_ap_statuses
        \/ t.access_points[a].backhaul_quality <= Config.poor_backhaul_quality}

UnhealthyExtenders(t) ==
    {a \in Extenders(t) :
        \/ t.access_points[a].status \in Config.flapping_ap_statuses
        \/ t.access_points[a].backhaul_quality <= Config.poor_backhaul_quality}

\* detect_all: the names of the detectors that return a finding.
DetectAll(t) ==
    {f \in Detectors :
        \/ f = "wan_degraded" /\ WanDegraded(t)
        \/ f = "device_band_stuck" /\ StuckDevices(t) # {}
        \/ f = "extender_flapping" /\ UnhealthyExtenders(t) # {}}

\* Faulty variant: the worst backhaul of all extenders, faulty or not.
TargetAnyExtender(t, f) ==
    CASE f = "wan_degraded"      -> GatewayId
      [] f = "device_band_stuck" -> Weakest(t, StuckDevices(t))
      [] f = "extender_flapping" -> WorstBackhaul(t, Extenders(t))
      [] OTHER                   -> NoTarget

\* The finding's target and target_kind.
Target(t, f) ==
    CASE f = "wan_degraded"      -> GatewayId
      [] f = "device_band_stuck" -> Weakest(t, StuckDevices(t))
      [] f = "extender_flapping" -> WorstBackhaul(t, UnhealthyExtenders(t))
      [] OTHER                   -> NoTarget

TargetKind(f) ==
    CASE f = "wan_degraded"      -> "gateway"
      [] f = "device_band_stuck" -> "device"
      [] f = "extender_flapping" -> "ap"
      [] OTHER                   -> ""

\* The first fault of the configured precedence that fires.
ChosenFault(t) ==
    LET prec == Config.fault_precedence
        hits == {i \in DOMAIN prec : prec[i] \in DetectAll(t)}
    IN  IF hits = {} THEN NoFault
        ELSE prec[CHOOSE i \in hits : \A j \in hits : i <= j]

Recommended(f) ==
    IF f \in DOMAIN Config.recommended_actions
    THEN Config.recommended_actions[f]
    ELSE "none"

ApSeverity == [offline |-> 2, flapping |-> 1, online |-> 0]

ExtenderStatus(t) ==
    LET statuses == {t.access_points[a].status : a \in Extenders(t)}
    IN  IF statuses = {} THEN "none"
        ELSE CHOOSE s \in statuses : \A r \in statuses : ApSeverity[s] >= ApSeverity[r]

BuildVerdict(t) ==
    LET f == ChosenFault(t)
        all == DOMAIN t.devices
    IN  [fault_type          |-> f,
         primary_target      |-> Target(t, f),
         primary_target_kind |-> TargetKind(f),
         recommended_action  |-> Recommended(f),
         wan_ok              |-> WanOk(t),
         worst_device_band   |-> IF all = {} THEN "" ELSE t.devices[Weakest(t, all)].band,
         worst_device_rssi   |-> IF all = {} THEN 0 ELSE t.devices[Weakest(t, all)].rssi,
         extender_status     |-> ExtenderStatus(t)]

----------------------------------------------------------------------------
(* The speakable phrase of /gx/devices: app/modules/network/devices.py *)

\* Faulty variant: weak strictly below the threshold.
StatusSummaryBelow(band, rssi) ==
    LET weak == rssi < Config.poor_rssi_dbm
        slow == band # Config.steer_target_band
    IN  CASE weak /\ slow   -> "weak signal on the slower band"
          [] weak /\ ~slow  -> "weak signal"
          [] ~weak /\ slow  -> "connected on the slower band"
          [] ~weak /\ ~slow -> "good signal on the faster band"

StatusSummary(band, rssi) ==
    LET weak == rssi <= Config.poor_rssi_dbm
        slow == band # Config.steer_target_band
    IN  CASE weak /\ slow   -> "weak signal on the slower band"
          [] weak /\ ~slow  -> "weak signal"
          [] ~weak /\ slow  -> "connected on the slower band"
          [] ~weak /\ ~slow -> "good signal on the faster band"

----------------------------------------------------------------------------
(* Coverage: app/modules/network/coverage.py *)

IsEdge(device) ==
    device.rssi < IF device.band = Config.steer_target_band
                  THEN Config.edge_rssi_5ghz_dbm
                  ELSE Config.edge_rssi_24ghz_dbm

OnAp(t, a) == {d \in DOMAIN t.devices : t.devices[d].connected_ap_id = a}

EdgeOn(t, a) == {d \in OnAp(t, a) : IsEdge(t.devices[d])}

WorstRssi(t, S) == t.devices[Weakest(t, S)].rssi

\* Faulty variant: a cluster is more than the minimum.
ClusterHitsAbove(t) ==
    {a \in Extenders(t) : Cardinality(EdgeOn(t, a)) > Config.min_cluster_size}

\* Extenders with at least one edge device and a cluster of them.
ClusterHits(t) ==
    {a \in Extenders(t) : /\ EdgeOn(t, a) # {}
                          /\ Cardinality(EdgeOn(t, a)) >= Config.min_cluster_size}

SingleWorstHits(t) ==
    {a \in Extenders(t) : /\ OnAp(t, a) # {}
                          /\ WorstRssi(t, OnAp(t, a)) < Config.single_worst_rssi_dbm}

\* The extenders enter the code's dictionaries in the order of their first
\* device, which is the order max and min break ties by.
SeenBefore(t, a, b) ==
    \E d \in OnAp(t, a) : \A e \in OnAp(t, b) : d <= e

WorstArea(t) ==
    LET hits == ClusterHits(t)
        singles == SingleWorstHits(t)
        size(a) == Cardinality(EdgeOn(t, a))
        edgeRssi(a) == WorstRssi(t, EdgeOn(t, a))
        rssi(a) == WorstRssi(t, OnAp(t, a))
    IN  IF hits # {}
        THEN CHOOSE a \in hits : \A b \in hits :
                 \/ size(a) > size(b)
                 \/ size(a) = size(b) /\ edgeRssi(a) < edgeRssi(b)
                 \/ size(a) = size(b) /\ edgeRssi(a) = edgeRssi(b) /\ SeenBefore(t, a, b)
        ELSE CHOOSE a \in singles : \A b \in singles :
                 \/ rssi(a) < rssi(b)
                 \/ rssi(a) = rssi(b) /\ SeenBefore(t, a, b)

CoverageIsWeak(t) == ClusterHits(t) # {} \/ SingleWorstHits(t) # {}

AssessCoverage(t) ==
    LET edge == UNION {EdgeOn(t, a) : a \in Extenders(t)}
    IN  IF ~CoverageIsWeak(t)
        THEN [level |-> "good", device_count |-> 0, worst_area |-> NoTarget]
        ELSE [level        |-> "weak",
              device_count |-> IF edge # {} THEN Cardinality(edge)
                               ELSE Cardinality(SingleWorstHits(t)),
              worst_area   |-> WorstArea(t)]
=============================================================================
