---------------------------- MODULE MCSelfHealing ----------------------------
(****************************************************************************)
(* SelfHealing for TLC: the shipped northwind packs and its demo home, and  *)
(* the acme tenant of the tests, whose baseline is degraded.                *)
(****************************************************************************)
EXTENDS SelfHealing, TLC

\* app/modules/network/config.py DEFAULTS, which northwind restates.
NorthwindConfig ==
    [poor_rssi_dbm            |-> -70,
     steer_target_band        |-> "5",
     steer_rssi_gain_db       |-> 22,
     steer_rssi_ceiling_dbm   |-> -45,
     flapping_ap_statuses     |-> {"flapping", "offline"},
     poor_backhaul_quality    |-> 40,
     healthy_backhaul_quality |-> 92,
     wan_ok_statuses          |-> {"online"},
     edge_rssi_5ghz_dbm       |-> -60,
     edge_rssi_24ghz_dbm      |-> -68,
     min_cluster_size         |-> 2,
     single_worst_rssi_dbm    |-> -58,
     fault_precedence         |-> <<"wan_degraded", "device_band_stuck", "extender_flapping">>,
     recommended_actions      |-> ("wan_degraded" :> "escalate")
                               @@ ("device_band_stuck" :> "band-steer")
                               @@ ("extender_flapping" :> "reboot-extender")
                               @@ ("none" :> "none")]

Parties == {"demo", "acme"}
Tenants == {"northwind", "acme"}
TenantMap == [p \in Parties |-> IF p = "acme" THEN "acme" ELSE "northwind"]

Ext == 1      \* load_topology sorts by kind: 'extender' before 'gateway'
Hub == 2
IPad == 11    \* and devices by label
Tv == 12
Phone == 13
Laptop == 14

Ap(kind, status, quality, radios) ==
    [kind |-> kind, status |-> status, backhaul_quality |-> quality, radios |-> radios]
Dev(ap, band, rssi, eligible) ==
    [connected_ap_id |-> ap, band |-> band, rssi |-> rssi, steer_eligible |-> eligible]

Both == {"2.4", "5"}

DemoHome ==
    [gateway |-> "online",
     access_points |-> (Ext :> Ap("extender", "online", 96, Both))
                    @@ (Hub :> Ap("gateway", "online", 100, Both)),
     devices |-> (IPad :> Dev(Ext, "5", -62, TRUE))
              @@ (Tv :> Dev(Hub, "5", -52, FALSE))
              @@ (Phone :> Dev(Hub, "5", -48, TRUE))
              @@ (Laptop :> Dev(Ext, "5", -61, TRUE))]

AcmeHome ==
    [gateway |-> "online",
     access_points |-> (Ext :> Ap("extender", "flapping", 30, {}))
                    @@ (Hub :> Ap("gateway", "online", 100, Both)),
     devices |-> (Phone :> Dev(Hub, "2.4", -80, TRUE))]

Homes == [p \in Parties |-> CASE p = "demo" -> DemoHome
                              [] p = "acme" -> AcmeHome]

NoRows == <<>>

\* app/scenarios/packs/northwind, and tests' reach_over with reset_first set.
Scenarios == {"wifi_degraded", "outage_in_area", "healthy", "reach_over"}
Packs ==
    [s \in Scenarios |->
        CASE s = "wifi_degraded" ->
               [tenant |-> "northwind", reset_first |-> TRUE, parties |-> {"demo"},
                gateway |-> Unset,
                access_points |-> (Ext :> [status |-> "flapping", backhaul_quality |-> 34]),
                devices |-> (IPad :> [band |-> "2.4", rssi |-> -78])]
          [] s = "outage_in_area" ->
               [tenant |-> "northwind", reset_first |-> TRUE, parties |-> {"demo"},
                gateway |-> "degraded", access_points |-> NoRows, devices |-> NoRows]
          [] s = "healthy" ->
               [tenant |-> "northwind", reset_first |-> FALSE, parties |-> {"demo"},
                gateway |-> "online",
                access_points |-> (Ext :> [status |-> "online", backhaul_quality |-> 96]),
                devices |-> (IPad :> [band |-> "5", rssi |-> -55])]
          [] s = "reach_over" ->
               [tenant |-> "acme", reset_first |-> TRUE, parties |-> {},
                gateway |-> Unset, access_points |-> NoRows,
                devices |-> (Phone :> [band |-> "2.4", rssi |-> -99])]]

ASSUME ShippedPacks == RestoresAreComplete /\ StagesOnlyAdd /\ CoverageRests

\* Calls on the demo home with no params: every verb on every kind of target,
\* and a target that belongs to nobody.
PlainCalls ==
    [party : {"demo"}, verb : {"band-steer"}, target : {IPad, Tv, Laptop, 99},
     band : {NoBand}]
    \union [party : {"demo"}, verb : {"reboot-extender", "reboot-ap"},
            target : {Ext, Hub}, band : {NoBand}]
    \union [party : {"demo"}, verb : {"escalate"}, target : {GatewayId}, band : {NoBand}]

\* And calls that name a band: one the access point has, and one it lacks.
IPadBandCalls ==
    PlainCalls \union
    [party : {"demo"}, verb : {"band-steer"}, target : {IPad}, band : {"2.4", "5", "6"}]
=============================================================================
