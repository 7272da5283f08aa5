------------------------------ MODULE MCAnyHome ------------------------------
(****************************************************************************)
(* AnyHome for TLC: a hub and two extenders, two devices anywhere on them.  *)
(* The signal values lie on, above and below every threshold.               *)
(****************************************************************************)
EXTENDS AnyHome, TLC

DefaultConfig ==
    [poor_rssi_dbm            |-> -70,
     steer_target_band        |-> "5",
     steer_rssi_gain_db       |-> 22,
     steer_rssi_ceiling_dbm   |-> -45,
     flapping_ap_statuses     |-> {"flapping", "offline"},
     poor_backhaul_quality    |-> 40,
     healthy_backhaul_quality |-> 92,
     wan_ok_statuses          |-> {"online"},
     edge_rssi_5ghz_dbm       |-> -60,
     edge_rssi_24ghz_dbm      |-> -68,
     min_cluster_size         |-> 2,
     single_worst_rssi_dbm    |-> -58,
     fault_precedence         |-> <<"wan_degraded", "device_band_stuck", "extender_flapping">>,
     recommended_actions      |-> ("wan_degraded" :> "escalate")
                               @@ ("device_band_stuck" :> "band-steer")
                               @@ ("extender_flapping" :> "reboot-extender")
                               @@ ("none" :> "none")]

\* A pack's override under which both coverage rules decide: with DEFAULTS a device
\* at the edge (-60 or -68) is also far enough out on its own (-58).
ClusterConfig == [DefaultConfig EXCEPT !.single_worst_rssi_dbm = -70]

Hub == 3
Hubs == {[kind |-> "gateway", status |-> "offline", backhaul_quality |-> 30,
          radios |-> {"2.4", "5"}]}
Extenders1 ==
    [kind : {"extender"}, status : {"online"}, backhaul_quality : {40, 41},
     radios : {{"2.4", "5"}}]
Extenders2 ==
    {[kind |-> "extender", status |-> "flapping", backhaul_quality |-> 96,
      radios |-> {"2.4"}],
     [kind |-> "extender", status |-> "offline", backhaul_quality |-> 40,
      radios |-> {"2.4", "5"}]}

DevicesFrom(signals) ==
    {d \in [connected_ap_id : {1, 2, Hub}, band : {"2.4", "5"}, rssi : signals,
            steer_eligible : BOOLEAN] : d.steer_eligible \/ d.connected_ap_id # Hub}

HomesFrom(signals) ==
    {[gateway |-> wan,
      access_points |-> (1 :> e1) @@ (2 :> e2) @@ (Hub :> hub),
      devices |-> (11 :> d1) @@ (12 :> d2)] :
         wan \in {"online"}, e1 \in Extenders1, e2 \in Extenders2, hub \in Hubs,
         d1 \in DevicesFrom(signals), d2 \in DevicesFrom(signals)}

\* Homes without a gateway, with a degraded WAN, without devices, and empty.
OddHomes ==
    {[gateway |-> wan, access_points |-> (1 :> e1), devices |-> <<>>] :
         wan \in WanStatuses \union {NoGateway}, e1 \in Extenders1}
    \union {[gateway |-> NoGateway, access_points |-> <<>>, devices |-> <<>>]}
    \union {[gateway |-> wan, access_points |-> (2 :> e2) @@ (Hub :> hub),
             devices |-> (11 :> d)] :
                wan \in WanStatuses \union {NoGateway}, e2 \in Extenders2, hub \in Hubs,
                d \in {x \in DevicesFrom({-78, -59}) : x.connected_ap_id # 1}}

Homes == HomesFrom({-78, -70, -69, -61, -59}) \union OddHomes

\* Fewer signals for the temporal properties.
FewHomes == HomesFrom({-78, -61}) \union OddHomes

BadnessOffers ==
    <<[offer_id |-> "signal",
       eligibility |-> ("device_on_extender_rssi_at_or_below" :> -70)
                    @@ ("any_device_rssi_at_or_below" :> -75)],
      [offer_id |-> "mesh", eligibility |-> ("coverage_is_weak" :> TRUE)],
      [offer_id |-> "backhaul", eligibility |-> ("extender_backhaul_at_or_below" :> 50)
                                             @@ ("min_extenders" :> 2)],
      [offer_id |-> "extender", eligibility |-> ("extender_status_in" :> {"flapping", "offline"})
                                             @@ ("min_devices" :> 2)]>>

ASSUME UsualPack == DownIsWatched /\ OffersNameBadness /\ SteerMends /\ ClustersCount
=============================================================================
