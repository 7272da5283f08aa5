------------------------------- MODULE Views -------------------------------
(****************************************************************************)
(* What the read-only routes say of one home: /gx/net-status, which the     *)
(* agent confirms a repair with, /gx/devices, which it matches a named      *)
(* device against, and the operator's table of subscribers                  *)
(* (app/gx/routes.py, app/modules/network/devices.py, app/admin/service.py).*)
(* Labels, models and uptime are left out, as in HomeNetwork.               *)
(****************************************************************************)
EXTENDS HomeNetwork

NotFound == [found |-> FALSE]

WanStatus(t) == IF t.gateway = NoGateway THEN "" ELSE t.gateway

\* The weakest device, which both pages look for themselves.
WorstBand(t) == IF DOMAIN t.devices = {} THEN ""
                ELSE t.devices[Weakest(t, DOMAIN t.devices)].band
WorstSignal(t) == IF DOMAIN t.devices = {} THEN 0
                  ELSE t.devices[Weakest(t, DOMAIN t.devices)].rssi

\* GET /gx/net-status (_status_of).
NetStatus(t) ==
    LET v == BuildVerdict(t)
        c == AssessCoverage(t)
    IN  IF IsEmpty(t) THEN NotFound
        ELSE [found                  |-> TRUE,
              healthy                |-> v.fault_type = NoFault,
              fault_type             |-> v.fault_type,
              wan_ok                 |-> v.wan_ok,
              wan_status             |-> WanStatus(t),
              ap_total               |-> Cardinality(DOMAIN t.access_points),
              ap_online              |-> Cardinality({a \in DOMAIN t.access_points :
                                             t.access_points[a].status = "online"}),
              extender_status        |-> v.extender_status,
              device_total           |-> Cardinality(DOMAIN t.devices),
              devices_on_target_band |-> Cardinality({d \in DOMAIN t.devices :
                                             t.devices[d].band = Config.steer_target_band}),
              worst_device_band      |-> WorstBand(t),
              worst_device_rssi      |-> WorstSignal(t),
              coverage               |-> c.level,
              coverage_device_count  |-> c.device_count,
              coverage_worst_area    |-> c.worst_area]

\* Python's sorted by signal, which keeps equals in row order: the sequence of all
\* the devices in which each is weaker than those behind it.
Weaker(t, d, e) ==
    \/ t.devices[d].rssi < t.devices[e].rssi
    \/ t.devices[d].rssi = t.devices[e].rssi /\ d < e

WeakestFirst(t) ==
    CHOOSE order \in [1..Cardinality(DOMAIN t.devices) -> DOMAIN t.devices] :
        \A i, j \in DOMAIN order : i < j => Weaker(t, order[i], order[j])

\* GET /gx/devices (describe_devices): the weakest first, equals in row order.
DescribeDevices(t) ==
    LET order == WeakestFirst(t)
    IN  [i \in DOMAIN order |->
            [device_id      |-> order[i],
             band           |-> t.devices[order[i]].band,
             rssi           |-> t.devices[order[i]].rssi,
             ap             |-> t.devices[order[i]].connected_ap_id,
             steer_eligible |-> t.devices[order[i]].steer_eligible,
             status_summary |-> StatusSummary(t.devices[order[i]].band,
                                              t.devices[order[i]].rssi)]]

\* GET /admin/subscribers (subscriber_states), the row of this subscriber.
SubscriberState(t) ==
    LET v == BuildVerdict(t)
    IN  IF IsEmpty(t)
        THEN [has_network |-> FALSE, healthy |-> FALSE, fault_type |-> "",
              recommended_action |-> "", wan_status |-> "", extender_status |-> "",
              worst_device_band |-> "", worst_device_rssi |-> 0]
        ELSE [has_network        |-> TRUE,
              healthy            |-> v.fault_type = NoFault,
              fault_type         |-> v.fault_type,
              recommended_action |-> v.recommended_action,
              wan_status         |-> WanStatus(t),
              extender_status    |-> v.extender_status,
              worst_device_band  |-> WorstBand(t),
              worst_device_rssi  |-> WorstSignal(t)]
=============================================================================
