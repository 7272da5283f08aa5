-------------------------------- MODULE Offers --------------------------------
(****************************************************************************)
(* Offer eligibility (app/modules/offers/service.py): which offer of a      *)
(* tenant's catalogue a home network justifies.  An offer is a record       *)
(*   offer_id    : its id                                                   *)
(*   eligibility : a function from rule names to the pack's right-hand side *)
(* and a catalogue is the sequence of offers in pack order.  Names, prices  *)
(* and texts are left out.  A rule no predicate is registered for raises    *)
(* UnknownEligibilityRule: catalogues here name registered rules only.      *)
(****************************************************************************)
EXTENDS HomeNetwork

NoOffer == "none"

Rules == {"coverage_is_weak", "device_on_extender_rssi_at_or_below",
          "any_device_rssi_at_or_below", "extender_backhaul_at_or_below",
          "extender_status_in", "min_extenders", "min_devices"}

DevicesOnExtenders(t) ==
    {d \in DOMAIN t.devices : t.devices[d].connected_ap_id \in Extenders(t)}

\* The registered predicates.
Holds(rule, value, t) ==
    CASE rule = "coverage_is_weak" -> CoverageIsWeak(t) = value
      [] rule = "device_on_extender_rssi_at_or_below" ->
             \E d \in DevicesOnExtenders(t) : t.devices[d].rssi <= value
      [] rule = "any_device_rssi_at_or_below" ->
             \E d \in DOMAIN t.devices : t.devices[d].rssi <= value
      [] rule = "extender_backhaul_at_or_below" ->
             \E a \in Extenders(t) : t.access_points[a].backhaul_quality <= value
      [] rule = "extender_status_in" ->
             \E a \in Extenders(t) : t.access_points[a].status \in value
      [] rule = "min_extenders" -> Cardinality(Extenders(t)) >= value
      [] rule = "min_devices" -> Cardinality(DOMAIN t.devices) >= value

IsEligible(offer, t) ==
    \A rule \in DOMAIN offer.eligibility : Holds(rule, offer.eligibility[rule], t)

\* Faulty variant: the last eligible offer wins.
LastOffer(catalogue, t) ==
    LET fits == {i \in DOMAIN catalogue : IsEligible(catalogue[i], t)}
    IN  IF fits = {} THEN NoOffer
        ELSE catalogue[CHOOSE i \in fits : \A j \in fits : i >= j].offer_id

\* Pack order is priority: the first eligible offer, or none.
BestOffer(catalogue, t) ==
    LET fits == {i \in DOMAIN catalogue : IsEligible(catalogue[i], t)}
    IN  IF fits = {} THEN NoOffer
        ELSE catalogue[CHOOSE i \in fits : \A j \in fits : i <= j].offer_id

\* What /gx/offers answers.
OffersAnswer(catalogue, t) ==
    IF IsEmpty(t)
    THEN [found |-> FALSE, eligible |-> FALSE, offer_id |-> NoOffer]
    ELSE [found    |-> TRUE,
          eligible |-> BestOffer(catalogue, t) # NoOffer,
          offer_id |-> BestOffer(catalogue, t)]
=============================================================================
