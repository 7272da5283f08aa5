---------------------------- MODULE MCScenarioTx ----------------------------
(****************************************************************************)
(* ScenarioTx for TLC: the demo home of the northwind pack, reduced to the  *)
(* rows its scenarios touch, and those scenarios with their steps in the    *)
(* order of the pack files.                                                 *)
(****************************************************************************)
EXTENDS ScenarioTx, TLC

NorthwindConfig ==
    [poor_rssi_dbm            |-> -70,
     steer_target_band        |-> "5",
     steer_rssi_gain_db       |-> 22,
     steer_rssi_ceiling_dbm   |-> -45,
     flapping_ap_statuses     |-> {"flapping", "offline"},
     poor_backhaul_quality    |-> 40,
     healthy_backhaul_quality |-> 92,
     wan_ok_statuses          |-> {"online"},
     edge_rssi_5ghz_dbm       |-> -60,
     edge_rssi_24ghz_dbm      |-> -68,
     min_cluster_size         |-> 2,
     single_worst_rssi_dbm    |-> -58,
     fault_precedence         |-> <<"wan_degraded", "device_band_stuck", "extender_flapping">>,
     recommended_actions      |-> ("wan_degraded" :> "escalate")
                               @@ ("device_band_stuck" :> "band-steer")
                               @@ ("extender_flapping" :> "reboot-extender")
                               @@ ("none" :> "none")]

Ext == 1
IPad == 11

DemoHome ==
    [gateway |-> "online",
     access_points |-> (Ext :> [kind |-> "extender", status |-> "online",
                                backhaul_quality |-> 96, radios |-> {"2.4", "5"}]),
     devices |-> (IPad :> [connected_ap_id |-> Ext, band |-> "5", rssi |-> -62,
                           steer_eligible |-> TRUE])]

Step(row, set) == [row |-> row, set |-> set]

Scenarios == {"wifi_degraded", "outage_in_area", "healthy"}
Packs ==
    [s \in Scenarios |->
        CASE s = "wifi_degraded" ->
               [reset_first |-> TRUE,
                steps |-> <<Step(IPad, [band |-> "2.4", rssi |-> -78]),
                            Step(Ext, [status |-> "flapping", backhaul_quality |-> 34])>>]
          [] s = "outage_in_area" ->
               [reset_first |-> TRUE,
                steps |-> <<Step(GatewayId, [wan_status |-> "degraded"])>>]
          [] s = "healthy" ->
               [reset_first |-> FALSE,
                steps |-> <<Step(GatewayId, [wan_status |-> "online"]),
                            Step(IPad, [band |-> "5", rssi |-> -55]),
                            Step(Ext, [status |-> "online", backhaul_quality |-> 96])>>]]

Calls == {[verb |-> "band-steer", target |-> IPad],
          [verb |-> "reboot-extender", target |-> Ext],
          [verb |-> "reboot-extender", target |-> IPad]}

RowsInFlushOrder == <<GatewayId, Ext, IPad>>
=============================================================================
