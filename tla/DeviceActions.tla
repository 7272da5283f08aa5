---------------------------- MODULE DeviceActions ----------------------------
(****************************************************************************)
(* The device-action verbs (app/modules/network/actions.py): each takes the *)
(* topology a request loaded, a target id and, for band-steer, the "band"   *)
(* parameter, and yields an outcome: whether it succeeded, the status code, *)
(* and the topology as the request leaves it.  A verb that fails leaves the *)
(* topology as it was (the route rolls back).                               *)
(****************************************************************************)
EXTENDS HomeNetwork

NoBand == ""       \* params without a "band", or with an empty one

Verbs == {"band-steer", "reboot-extender", "reboot-ap"}

\* The verbs a pack may recommend: DEFAULTS name the remedy of each fault, a pack
\* may name none or another one, and nothing in the code checks that it fits.
ASSUME ConfigActs ==
    /\ Recommended("device_band_stuck") \notin Verbs \ {"band-steer"}
    /\ Recommended("extender_flapping") \notin Verbs \ {"reboot-extender", "reboot-ap"}
    /\ Recommended("wan_degraded") \notin Verbs
    /\ Recommended(NoFault) \notin Verbs

Refused(t, code) == [ok |-> FALSE, status_code |-> code, topology |-> t]
Accepted(t)      == [ok |-> TRUE, status_code |-> 200, topology |-> t]

SteerBand(band) == IF band = NoBand THEN Config.steer_target_band ELSE band

\* Faulty variant: the gain with the wrong sign, as if dBm were positive.
SteeredRssiLoses(rssi) ==
    IF rssi - Config.steer_rssi_gain_db <= Config.steer_rssi_ceiling_dbm
    THEN rssi - Config.steer_rssi_gain_db
    ELSE Config.steer_rssi_ceiling_dbm

\* The signal of a steered device: the configured gain, up to the ceiling.
SteeredRssi(rssi) ==
    IF rssi + Config.steer_rssi_gain_db <= Config.steer_rssi_ceiling_dbm
    THEN rssi + Config.steer_rssi_gain_db
    ELSE Config.steer_rssi_ceiling_dbm

\* Faulty variant: the parameter is written as it was sent.
SteeredAsSent(t, d, band) ==
    [t EXCEPT !.devices[d] =
        [@ EXCEPT !.band = band, !.rssi = SteeredRssi(t.devices[d].rssi)]]

Steered(t, d, band) ==
    [t EXCEPT !.devices[d] =
        [@ EXCEPT !.band = SteerBand(band), !.rssi = SteeredRssi(t.devices[d].rssi)]]

BandSteer(t, target, band) ==
    LET device == t.devices[target]
        to     == SteerBand(band)
    IN  IF target \notin DOMAIN t.devices THEN Refused(t, 404)
        ELSE IF ~device.steer_eligible THEN Refused(t, 400)
        ELSE IF to \notin BandsOn(t, device.connected_ap_id) THEN Refused(t, 400)
        ELSE IF device.band = to THEN Accepted(t)
        ELSE Accepted(Steered(t, target, band))

\* Faulty variant: the status is restored, the backhaul is not.
RebootedStatusOnly(t, a, quality) == [t EXCEPT !.access_points[a].status = "online"]

Rebooted(t, a, quality) ==
    [t EXCEPT !.access_points[a] =
        [@ EXCEPT !.status = "online", !.backhaul_quality = quality]]

RebootExtender(t, target) ==
    IF target \notin DOMAIN t.access_points THEN Refused(t, 404)
    ELSE IF t.access_points[target].kind # "extender" THEN Refused(t, 400)
    ELSE Accepted(Rebooted(t, target, Config.healthy_backhaul_quality))

RebootAp(t, target) ==
    LET was == t.access_points[target].backhaul_quality
    IN  IF target \notin DOMAIN t.access_points THEN Refused(t, 404)
        ELSE Accepted(Rebooted(t, target,
                 IF was >= Config.healthy_backhaul_quality
                 THEN was ELSE Config.healthy_backhaul_quality))

\* The registry lookup: a verb without a handler ("escalate", "none") is a 400.
RunVerb(t, verb, target, band) ==
    CASE verb = "band-steer"      -> BandSteer(t, target, band)
      [] verb = "reboot-extender" -> RebootExtender(t, target)
      [] verb = "reboot-ap"       -> RebootAp(t, target)
      [] verb \notin Verbs        -> Refused(t, 400)

\* Faulty variant: a verb that succeeded is taken to have cleared the fault.
DeviceActionTrusting(t, verb, target, band) ==
    LET outcome == IF verb \in Verbs /\ IsEmpty(t) THEN Refused(t, 404)
                   ELSE RunVerb(t, verb, target, band)
    IN  [ok            |-> outcome.ok,
         status_code   |-> outcome.status_code,
         topology      |-> outcome.topology,
         fault_cleared |-> outcome.ok /\ ChosenFault(t) # NoFault]

\* POST /gx/device-action on a home: an unknown verb is refused before the
\* home is loaded, an empty home is a 404, and fault_cleared compares the
\* verdict before the verb with the detectors after it.
DeviceAction(t, verb, target, band) ==
    LET before  == ChosenFault(t)
        outcome == IF verb \in Verbs /\ IsEmpty(t) THEN Refused(t, 404)
                   ELSE RunVerb(t, verb, target, band)
    IN  [ok            |-> outcome.ok,
         status_code   |-> outcome.status_code,
         topology      |-> outcome.topology,
         fault_cleared |-> /\ outcome.ok
                           /\ before # NoFault
                           /\ before \notin DetectAll(outcome.topology)]
=============================================================================
