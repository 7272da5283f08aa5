------------------------- MODULE SelfHealingProofs -------------------------
(****************************************************************************)
(* The demo loop for any homes, packs and callers: under any configuration  *)
(* that satisfies ConfigType, ConfigHeals and ConfigActs.                   *)
(****************************************************************************)
EXTENDS SelfHealing, DeviceActionsProofs

\* Callers steer onto the target band, as the agent does, or name no band: onto
\* another one, band-steer may leave a good device stuck.
CallsSteerHome == \A c \in Call : SteerBand(c.band) = Config.steer_target_band

----------------------------------------------------------------------------
(* Types *)

\* The UPDATEs of a scenario leave a home the tables allow.
LEMMA StagedType ==
    ASSUME NEW t, IsTopology(t), NEW s \in Scenario
    PROVE  IsTopology(Staged(t, Pack[s]))
<1> DEFINE pack == Pack[s]
           r == Staged(t, pack)
<1>1. IsPack(pack)
  BY SystemType
<1>. HIDE DEF pack
<1>2. /\ r = [gateway |-> r.gateway, access_points |-> r.access_points,
              devices |-> r.devices]
      /\ r.gateway \in WanStatuses \union {NoGateway}
  BY <1>1 DEF Staged, IsTopology, IsPack
<1>3. /\ r.access_points = [a \in DOMAIN t.access_points |-> r.access_points[a]]
      /\ \A a \in DOMAIN t.access_points : r.access_points[a] \in ApRow
  <2>1. \A a \in DOMAIN t.access_points : t.access_points[a] \in ApRow
    BY DEF IsTopology
  <2>2. \A a \in DOMAIN pack.access_points :
            /\ pack.access_points[a].status \in ApStatuses
            /\ pack.access_points[a].backhaul_quality \in PgInteger
    BY <1>1 DEF IsPack
  <2>. QED
    BY <2>1, <2>2 DEF Staged, ApRow
<1>4. /\ r.devices = [d \in DOMAIN t.devices |-> r.devices[d]]
      /\ \A d \in DOMAIN t.devices :
             /\ r.devices[d] \in DeviceRow
             /\ r.devices[d].connected_ap_id = t.devices[d].connected_ap_id
  <2>1. \A d \in DOMAIN t.devices : t.devices[d] \in DeviceRow
    BY DEF IsTopology
  <2>2. \A d \in DOMAIN pack.devices :
            pack.devices[d].band \in Bands /\ pack.devices[d].rssi \in PgInteger
    BY <1>1 DEF IsPack
  <2>. QED
    BY <2>1, <2>2 DEF Staged, DeviceRow
<1>. HIDE DEF r
<1>5. IsTopology(r)
  BY <1>2, <1>3, <1>4 DEF IsTopology
<1>. QED
  BY <1>5 DEF r, pack

\* Telemetry names a fault and one of the home's rows.
LEMMA EmittedType ==
    ASSUME NEW t, IsTopology(t)
    PROVE  Emitted(t) \in Seq(FeedEntry)
<1>1. CASE IsEmpty(t) \/ ChosenFault(t) = NoFault
  BY <1>1 DEF Emitted
<1>2. CASE ~IsEmpty(t) /\ ChosenFault(t) # NoFault
  <2>1. ChosenFault(t) \in Detectors
    BY <1>2, ChosenIsDetected DEF DetectAll
  <2>2. Target(t, ChosenFault(t)) \in Int
    BY TargetIsFaulty
  <2>3. [fault_type     |-> ChosenFault(t),
         primary_target |-> Target(t, ChosenFault(t))] \in FeedEntry
    BY <2>1, <2>2 DEF FeedEntry
  <2>4. \A e \in FeedEntry : <<e>> \in Seq(FeedEntry)
    OBVIOUS
  <2>. QED
    BY <1>2, <2>3, <2>4 DEF Emitted
<1>. QED
  BY <1>1, <1>2

\* The types hold at the start.
LEMMA InitType == Init => TypeOK
BY SystemType DEF Init, TypeOK, NoVerdict, NoTarget

\* What a reset makes of the homes, the feeds and the cleared faults.
LEMMA ResetType ==
    ASSUME TypeOK, NEW tenant
    PROVE  /\ DOMAIN ResetHomes(tenant) = Party
           /\ \A p \in Party : IsTopology(ResetHomes(tenant)[p])
           /\ ResetFeed(tenant) \in [Party -> Seq(FeedEntry)]
           /\ ForgetCleared(tenant) \in [Party -> SUBSET Detectors]
BY SystemType DEF TypeOK, ResetHomes, ResetFeed, ForgetCleared

\* They hold after a request to device-action.
LEMMA PerformType ==
    ASSUME TypeOK, NEW p \in Party, NEW verb, NEW target, NEW band,
           Perform(p, verb, target, band)
    PROVE  /\ DOMAIN homes' = Party
           /\ \A q \in Party : IsTopology(homes'[q])
           /\ cleared' \in [Party -> SUBSET Detectors]
<1> DEFINE reply == DeviceAction(homes[p], verb, target, band)
<1>1. /\ homes' = [homes EXCEPT ![p] = reply.topology]
      /\ IsTopology(reply.topology)
  BY ActionHeals DEF TypeOK, Perform
<1>2. cleared' \in [Party -> SUBSET Detectors]
  <2>1. reply.fault_cleared => ChosenFault(homes[p]) \in Detectors
    BY ChosenIsDetected DEF DeviceAction, DetectAll
  <2>. HIDE DEF reply
  <2>2. \/ cleared' = cleared
        \/ /\ reply.fault_cleared
           /\ cleared' = [cleared EXCEPT ![p] = cleared[p] \union {ChosenFault(homes[p])}]
    BY DEF Perform, TypeOK, reply
  <2>. QED
    BY <2>1, <2>2 DEF TypeOK
<1>. HIDE DEF reply
<1>. QED
  BY <1>1, <1>2 DEF TypeOK

\* Every step keeps the types.
LEMMA StepType == TypeOK /\ [Next]_vars => TypeOK'
<1>. SUFFICES ASSUME TypeOK, [Next]_vars
              PROVE  TypeOK'
  OBVIOUS
<1>1. ASSUME NEW tenant \in Tenant, Reset(tenant)
      PROVE  TypeOK'
  <2>1. Entry("reset", tenant, "") \in AuditEntry
    BY DEF Entry, AuditEntry
  <2>2. /\ homes' = ResetHomes(tenant) /\ feed' = ResetFeed(tenant)
        /\ cleared' = ForgetCleared(tenant) /\ session' = session
    BY <1>1 DEF Reset
  <2>3. audit' \in Seq(AuditEntry)
    <3> DEFINE e == Entry("reset", tenant, "")
    <3>1. e \in AuditEntry /\ audit' = Append(audit, e) /\ audit \in Seq(AuditEntry)
      BY <1>1, <2>1 DEF Reset, TypeOK
    <3>. HIDE DEF e
    <3>. QED
      BY <3>1
  <2>4. DOMAIN homes' = Party /\ \A p \in Party : IsTopology(homes'[p])
    BY <2>2, ResetType
  <2>5. /\ feed' \in [Party -> Seq(FeedEntry)]
        /\ cleared' \in [Party -> SUBSET Detectors]
    BY <2>2, ResetType
  <2>6. DOMAIN session' = Party /\ \A p \in Party : session'[p].target \in Int
    BY <2>2 DEF TypeOK
  <2>. QED
    BY <2>3, <2>4, <2>5, <2>6 DEF TypeOK
<1>2. ASSUME NEW s \in Scenario, Apply(s)
      PROVE  TypeOK'
  <2> DEFINE from  == IF Pack[s].reset_first THEN ResetHomes(Pack[s].tenant) ELSE homes
             feeds == IF Pack[s].reset_first THEN ResetFeed(Pack[s].tenant) ELSE feed
  <2>1. /\ \A p \in Party : IsTopology(from[p])
        /\ feeds \in [Party -> Seq(FeedEntry)]
    BY ResetType DEF TypeOK
  <2>2. /\ homes' = [p \in Party |-> IF p \in Pack[s].parties
                                     THEN Staged(from[p], Pack[s]) ELSE from[p]]
        /\ feed' = [p \in Party |-> IF p \in Pack[s].parties
                                    THEN feeds[p] \o Emitted(homes'[p]) ELSE feeds[p]]
    BY <1>2 DEF Apply
  <2>3. Entry("apply", Pack[s].tenant, s) \in AuditEntry
    BY SystemType DEF Entry, AuditEntry, IsPack
  <2>. HIDE DEF from, feeds
  <2>4. DOMAIN homes' = Party /\ \A p \in Party : IsTopology(homes'[p])
    BY <2>1, <2>2, StagedType
  <2>5. feed' \in [Party -> Seq(FeedEntry)]
    <3>1. \A p \in Party : feeds[p] \o Emitted(homes'[p]) \in Seq(FeedEntry)
      BY <2>1, <2>4, EmittedType
    <3>. QED
      BY <2>1, <2>2, <3>1
  <2>6. cleared' \in [Party -> SUBSET Detectors]
    BY <1>2, ResetType DEF Apply
  <2>7. audit' \in Seq(AuditEntry) /\ UNCHANGED session
    BY <1>2, <2>3 DEF Apply, TypeOK
  <2>. QED
    BY <2>4, <2>5, <2>6, <2>7 DEF TypeOK
<1>3. ASSUME NEW s \in Scenario, ApplyUnresolved(s)
      PROVE  TypeOK'
  BY <1>3, ResetType DEF TypeOK, ApplyUnresolved
<1>4. ASSUME NEW p \in Party, Diagnose(p)
      PROVE  TypeOK'
  <2>1. Target(homes[p], ChosenFault(homes[p])) \in Int /\ NoVerdict.target \in Int
    BY TargetIsFaulty DEF TypeOK, NoVerdict, NoTarget
  <2>2. DOMAIN session' = Party /\ \A q \in Party : session'[q].target \in Int
    BY <1>4, <2>1 DEF TypeOK, Diagnose
  <2>. QED
    BY <1>4, <2>2 DEF TypeOK, Diagnose
<1>5. ASSUME NEW p \in Party, AgentActs(p)
      PROVE  TypeOK'
  <2>1. Perform(p, session[p].verb, session[p].target, NoBand)
    BY <1>5 DEF AgentActs
  <2>2. DOMAIN session' = Party /\ \A q \in Party : session'[q].target \in Int
    BY <1>5 DEF TypeOK, AgentActs, NoVerdict, NoTarget
  <2>3. UNCHANGED <<feed, audit>>
    BY <2>1 DEF Perform
  <2>. QED
    BY <2>1, <2>2, <2>3, PerformType DEF TypeOK
<1>6. ASSUME NEW c \in Call, OtherCall(c)
      PROVE  TypeOK'
  <2>1. c.party \in Party
    BY SystemType
  <2>2. Perform(c.party, c.verb, c.target, c.band) /\ UNCHANGED <<feed, audit, session>>
    BY <1>6 DEF OtherCall, Perform
  <2>. QED
    BY <2>1, <2>2, PerformType DEF TypeOK
<1>7. CASE UNCHANGED vars
  BY <1>7 DEF vars, TypeOK
<1>. QED
  BY <1>1, <1>2, <1>3, <1>4, <1>5, <1>6, <1>7 DEF Next, Operator

\* For any packs and callers: verbs, scenarios and resets leave homes the tables
\* allow, signals and backhauls within PostgreSQL's integers included.
THEOREM TablesKept == Spec => []TypeOK
<1>1. TypeOK /\ [Next]_vars => TypeOK'
  BY StepType
<1>. QED
  BY <1>1, InitType, PTL DEF Spec

----------------------------------------------------------------------------
(* What verbs do *)

\* In any state the demo loop reaches, from any homes, the verb a verdict
\* recommends accepts the verdict's target and mends it.
THEOREM RemediesWork == Spec => []RecommendedActionWorks
<1>1. TypeOK => RecommendedActionWorks
  <2>. SUFFICES ASSUME TypeOK, NEW p \in Party,
                       Recommended(ChosenFault(homes[p])) \in Verbs
                PROVE  LET t      == homes[p]
                           target == Target(t, ChosenFault(t))
                           reply  == DeviceAction(t, Recommended(ChosenFault(t)), target, NoBand)
                       IN  /\ reply.ok
                           /\ target \notin Faulty(reply.topology)
                           /\ Faulty(reply.topology) \subseteq Faulty(t) \ {target}
    BY DEF RecommendedActionWorks
  <2>1. IsTopology(homes[p])
    BY DEF TypeOK
  <2>. QED
    BY <2>1, RemedyWorks DEF Faulty
<1>. QED
  BY <1>1, TablesKept, PTL

\* A request to device-action that steers onto the target band heals or does
\* nothing to any home.
LEMMA PerformHeals ==
    ASSUME TypeOK, NEW p \in Party, NEW verb, NEW target, NEW band,
           SteerBand(band) = Config.steer_target_band,
           Perform(p, verb, target, band)
    PROVE  \A q \in Party :
               /\ StuckDevices(homes'[q]) \subseteq StuckDevices(homes[q])
               /\ UnhealthyExtenders(homes'[q]) \subseteq UnhealthyExtenders(homes[q])
               /\ homes'[q].gateway = homes[q].gateway
<1> DEFINE r == DeviceAction(homes[p], verb, target, band).topology
<1>1. DOMAIN homes = Party /\ IsTopology(homes[p]) /\ homes' = [homes EXCEPT ![p] = r]
  BY DEF TypeOK, Perform
<1>2. /\ StuckDevices(r) \subseteq StuckDevices(homes[p])
      /\ UnhealthyExtenders(r) \subseteq UnhealthyExtenders(homes[p])
      /\ r.gateway = homes[p].gateway
  BY <1>1, ActionHeals
<1>. HIDE DEF r
<1>. QED
  BY <1>1, <1>2

\* The agent names no band.
LEMMA NoBandSteersHome == SteerBand(NoBand) = Config.steer_target_band
BY DEF SteerBand

\* If callers steer onto the target band, no step but the operator's makes a
\* healthy row faulty or touches a gateway, however stale the target.
THEOREM CallsOnlyHeal ==
    ASSUME CallsSteerHome
    PROVE  Spec => DeviceActionsOnlyHeal
<1> DEFINE Heals == ~Operator => \A p \in Party :
                        /\ Faulty(homes'[p]) \subseteq Faulty(homes[p])
                        /\ homes'[p].gateway = homes[p].gateway
<1>1. ASSUME TypeOK, [Next]_vars, ~Operator
      PROVE  \A p \in Party : /\ Faulty(homes'[p]) \subseteq Faulty(homes[p])
                              /\ homes'[p].gateway = homes[p].gateway
  <2>1. ASSUME NEW p \in Party, AgentActs(p)
        PROVE  \A q \in Party : /\ Faulty(homes'[q]) \subseteq Faulty(homes[q])
                                /\ homes'[q].gateway = homes[q].gateway
    <3>1. Perform(p, session[p].verb, session[p].target, NoBand)
      BY <2>1 DEF AgentActs
    <3>. QED
      BY <1>1, <3>1, NoBandSteersHome, PerformHeals DEF Faulty
  <2>2. ASSUME NEW c \in Call, OtherCall(c)
        PROVE  \A q \in Party : /\ Faulty(homes'[q]) \subseteq Faulty(homes[q])
                                /\ homes'[q].gateway = homes[q].gateway
    <3>1. /\ c.party \in Party /\ SteerBand(c.band) = Config.steer_target_band
          /\ Perform(c.party, c.verb, c.target, c.band)
      BY <1>1, <2>2, SystemType DEF OtherCall, CallsSteerHome
    <3>. QED
      BY <1>1, <3>1, PerformHeals DEF Faulty
  <2>3. CASE UNCHANGED homes
    BY <2>3
  <2>. QED
    BY <1>1, <2>1, <2>2, <2>3 DEF Next, Diagnose, vars
<1>2. TypeOK /\ [Next]_vars => [Heals]_vars
  BY <1>1
<1>. QED
  BY <1>2, TablesKept, PTL DEF Spec, DeviceActionsOnlyHeal

----------------------------------------------------------------------------
(* What was reported cleared *)

\* A request to device-action brings no fault type back.
LEMMA PerformKeepsCleared ==
    ASSUME TypeOK, ClearedStaysCleared, NEW p \in Party, NEW verb, NEW target, NEW band,
           SteerBand(band) = Config.steer_target_band,
           Perform(p, verb, target, band)
    PROVE  ClearedStaysCleared'
<1>1. \A q \in Party : DetectAll(homes'[q]) \subseteq DetectAll(homes[q])
  BY PerformHeals, FewerFaults
<1> DEFINE reply == DeviceAction(homes[p], verb, target, band)
<1>2. /\ homes'[p] = reply.topology
      /\ cleared' = [cleared EXCEPT ![p] =
             IF reply.fault_cleared THEN @ \union {ChosenFault(homes[p])} ELSE @]
      /\ reply.fault_cleared => ChosenFault(homes[p]) \notin DetectAll(reply.topology)
  BY DEF Perform, TypeOK, DeviceAction
<1>. HIDE DEF reply
<1>3. ASSUME NEW q \in Party
      PROVE  cleared'[q] \intersect DetectAll(homes'[q]) = {}
  <2>1. cleared[q] \intersect DetectAll(homes[q]) = {}
    BY DEF ClearedStaysCleared
  <2>2. \/ cleared'[q] = cleared[q]
        \/ /\ q = p /\ reply.fault_cleared
           /\ cleared'[q] = cleared[q] \union {ChosenFault(homes[p])}
    BY <1>2 DEF TypeOK
  <2>. QED
    BY <1>1, <1>2, <2>1, <2>2
<1>. QED
  BY <1>3 DEF ClearedStaysCleared

\* If callers steer onto the target band, a fault type device-action reported as
\* cleared stays away until the operator's next request for the tenant.
THEOREM ClearedForGood ==
    ASSUME CallsSteerHome
    PROVE  Spec => []ClearedStaysCleared
<1>1. Init => ClearedStaysCleared
  BY DEF Init, ClearedStaysCleared
<1>2. TypeOK /\ ClearedStaysCleared /\ [Next]_vars => ClearedStaysCleared'
  <2>. SUFFICES ASSUME TypeOK, ClearedStaysCleared, [Next]_vars
                PROVE  ClearedStaysCleared'
    OBVIOUS
  <2>1. ASSUME NEW tenant \in Tenant, Reset(tenant)
        PROVE  ClearedStaysCleared'
    BY <2>1 DEF Reset, ResetHomes, ForgetCleared, ClearedStaysCleared, TypeOK
  <2>2. ASSUME NEW s \in Scenario, Apply(s)
        PROVE  ClearedStaysCleared'
    <3>1. \A p \in Pack[s].parties : TenantOf[p] = Pack[s].tenant
      BY PacksStayInTenant
    <3>2. \A p \in Party :
              \/ cleared'[p] = {}
              \/ cleared'[p] = cleared[p] /\ homes'[p] = homes[p]
      BY <2>2, <3>1 DEF Apply, ResetHomes, ForgetCleared, TypeOK
    <3>. QED
      BY <3>2 DEF ClearedStaysCleared
  <2>3. ASSUME NEW s \in Scenario, ApplyUnresolved(s)
        PROVE  ClearedStaysCleared'
    <3>1. \A p \in Party :
              \/ cleared'[p] = {}
              \/ cleared'[p] = cleared[p] /\ homes'[p] = homes[p]
      BY <2>3 DEF ApplyUnresolved, ResetHomes, ForgetCleared, TypeOK
    <3>. QED
      BY <3>1 DEF ClearedStaysCleared
  <2>4. ASSUME NEW p \in Party, AgentActs(p)
        PROVE  ClearedStaysCleared'
    BY <2>4, NoBandSteersHome, PerformKeepsCleared DEF AgentActs
  <2>5. ASSUME NEW c \in Call, OtherCall(c)
        PROVE  ClearedStaysCleared'
    BY <2>5, SystemType, PerformKeepsCleared DEF OtherCall, CallsSteerHome
  <2>6. CASE UNCHANGED <<homes, cleared>>
    BY <2>6 DEF ClearedStaysCleared
  <2>. QED
    BY <2>1, <2>2, <2>3, <2>4, <2>5, <2>6 DEF Next, Operator, Diagnose, vars
<1>. QED
  BY <1>1, <1>2, TablesKept, PTL DEF Spec

----------------------------------------------------------------------------
(* What telemetry announced *)

\* The verdict names the most urgent of the faults there are.
LEMMA ChosenIsUrgent ==
    ASSUME NEW t, NEW f \in DetectAll(t)
    PROVE  /\ ChosenFault(t) \in DetectAll(t)
           /\ Rank(ChosenFault(t)) \in Int /\ Rank(f) \in Int
           /\ Rank(ChosenFault(t)) <= Rank(f)
<1> DEFINE prec == Config.fault_precedence
           hits == {i \in DOMAIN prec : prec[i] \in DetectAll(t)}
           first == CHOOSE i \in hits : \A j \in hits : i <= j
           places(g) == {i \in DOMAIN prec : prec[i] = g}
<1>1. \A g : Rank(g) = CHOOSE i \in places(g) : \A j \in places(g) : i <= j
  BY DEF Rank
<1>2. \A g \in Detectors : Rank(g) \in places(g) /\ \A j \in places(g) : Rank(g) <= j
  <2>. SUFFICES ASSUME NEW g \in Detectors
                PROVE  Rank(g) \in places(g) /\ \A j \in places(g) : Rank(g) <= j
    OBVIOUS
  <2>1. places(g) # {} /\ places(g) \in SUBSET DOMAIN prec
    BY ConfigHeals
  <2>. HIDE DEF places
  <2>. QED
    BY <1>1, <2>1, FirstPlace
<1>3. ChosenFault(t) # NoFault /\ ChosenFault(t) \in DetectAll(t)
  BY HealthyIsNoFault
<1>4. DetectAll(t) \subseteq Detectors
  BY DEF DetectAll
<1>5. hits # {} /\ hits \in SUBSET DOMAIN prec
  BY <1>2, <1>4
<1>6. ChosenFault(t) = prec[first]
  BY <1>5 DEF ChosenFault
<1>7. first \in hits /\ \A j \in hits : first <= j
  <2>. HIDE DEF hits
  <2>. QED
    BY <1>5, FirstPlace
<1>. HIDE DEF first
<1>8. first \in places(ChosenFault(t)) /\ Rank(f) \in hits
  BY <1>2, <1>4, <1>6, <1>7
<1>9. Rank(ChosenFault(t)) <= first /\ first <= Rank(f)
  <2>. HIDE DEF hits, places
  <2>. QED
    BY <1>2, <1>3, <1>4, <1>7, <1>8
<1>10. \A i \in DOMAIN prec : i \in Int
  BY ConfigType
<1>11. first \in Int /\ Rank(f) \in Int /\ Rank(ChosenFault(t)) \in Int
  BY <1>2, <1>3, <1>4, <1>7, <1>10
<1>. QED
  BY <1>3, <1>9, <1>11

\* With no row and no gateway there is no fault.
LEMMA EmptyIsHealthy ==
    ASSUME NEW t, IsEmpty(t)
    PROVE  ChosenFault(t) = NoFault
<1>1. DetectAll(t) = {}
  BY DEF IsEmpty, DetectAll, WanDegraded, StuckDevices, UnhealthyExtenders, Extenders
<1>. QED
  BY <1>1, HealthyIsNoFault

\* The newest event of a party is at least as urgent as its verdict.
Announced(p) ==
    ChosenFault(homes[p]) # NoFault =>
        /\ feed[p] # <<>>
        /\ Rank(feed[p][Len(feed[p])].fault_type) <= Rank(ChosenFault(homes[p]))

\* Fewer faults and the same events: still announced.
LEMMA StillAnnounced ==
    ASSUME TypeOK, NEW p \in Party, Announced(p), feed'[p] = feed[p],
           DetectAll(homes'[p]) \subseteq DetectAll(homes[p])
    PROVE  Announced(p)'
<1>. SUFFICES ASSUME ChosenFault(homes'[p]) # NoFault
              PROVE  /\ feed[p] # <<>>
                     /\ Rank(feed[p][Len(feed[p])].fault_type) <=
                            Rank(ChosenFault(homes'[p]))
  BY DEF Announced
<1> DEFINE is  == ChosenFault(homes'[p])
           was == ChosenFault(homes[p])
           told == feed[p][Len(feed[p])].fault_type
<1>1. is \in DetectAll(homes[p])
  BY HealthyIsNoFault
<1>2. was # NoFault /\ Rank(was) \in Int /\ Rank(is) \in Int /\ Rank(was) <= Rank(is)
  BY <1>1, ChosenIsUrgent, HealthyIsNoFault
<1>3. feed[p] # <<>> /\ Rank(told) <= Rank(was)
  BY <1>2 DEF Announced
<1>4. told \in Detectors
  <2>1. feed[p] \in Seq(FeedEntry)
    BY DEF TypeOK
  <2>2. feed[p][Len(feed[p])] \in FeedEntry
    BY <1>3, <2>1
  <2>. QED
    BY <2>2 DEF FeedEntry
<1>5. Rank(told) \in Int
  <2>1. {i \in DOMAIN Config.fault_precedence : Config.fault_precedence[i] = told} # {}
    BY <1>4, ConfigHeals
  <2>2. Rank(told) \in {i \in DOMAIN Config.fault_precedence :
                            Config.fault_precedence[i] = told}
    BY <2>1, FirstPlace DEF Rank
  <2>. QED
    BY <2>2, ConfigType
<1>. HIDE DEF is, was, told
<1>6. Rank(told) <= Rank(is)
  BY <1>2, <1>3, <1>5
<1>. QED
  BY <1>3, <1>6 DEF is, told

\* A home that is staged is announced by the event of the staging.
LEMMA StagingAnnounces ==
    ASSUME NEW p \in Party, NEW events \in Seq(FeedEntry), IsTopology(homes'[p]),
           feed'[p] = events \o Emitted(homes'[p])
    PROVE  Announced(p)'
<1>. SUFFICES ASSUME ChosenFault(homes'[p]) # NoFault
              PROVE  /\ feed'[p] # <<>>
                     /\ Rank(feed'[p][Len(feed'[p])].fault_type) <=
                            Rank(ChosenFault(homes'[p]))
  BY DEF Announced
<1> DEFINE f == ChosenFault(homes'[p])
           event == [fault_type |-> f, primary_target |-> Target(homes'[p], f)]
<1>1. Emitted(homes'[p]) = <<event>>
  BY EmptyIsHealthy DEF Emitted
<1>2. event.fault_type = f
  OBVIOUS
<1>3. f \in DetectAll(homes'[p])
  BY HealthyIsNoFault
<1>4. Rank(f) \in Int
  BY <1>3, ChosenIsUrgent
<1>. HIDE DEF event, f
<1>5. feed'[p] = Append(events, event)
  BY <1>1
<1>6. /\ feed'[p] # <<>> /\ feed'[p][Len(feed'[p])] = event
  BY <1>5
<1>7. Rank(f) <= Rank(f)
  BY <1>4
<1>. QED
  BY <1>2, <1>6, <1>7 DEF f

\* A verb neither raises a more urgent fault nor touches the events.
LEMMA PerformAnnounced ==
    ASSUME TypeOK, FaultAnnounced, NEW p \in Party, NEW verb, NEW target, NEW band,
           SteerBand(band) = Config.steer_target_band,
           Perform(p, verb, target, band)
    PROVE  FaultAnnounced'
<1>1. \A q \in Party : DetectAll(homes'[q]) \subseteq DetectAll(homes[q])
  BY PerformHeals, FewerFaults
<1>2. feed' = feed
  BY DEF Perform
<1>3. ASSUME NEW q \in Party, DetectAll(Baseline[q]) = {}
      PROVE  Announced(q)'
  <2>1. Announced(q)
    BY <1>3 DEF FaultAnnounced, Announced
  <2>. QED
    BY <1>1, <1>2, <2>1, StillAnnounced
<1>. QED
  BY <1>3 DEF FaultAnnounced, Announced

\* A fault of a home with a healthy baseline never goes unannounced, if callers
\* steer onto the target band: the newest event names a fault at least as urgent.
THEOREM FaultsAreAnnounced ==
    ASSUME CallsSteerHome
    PROVE  Spec => []FaultAnnounced
<1>1. Init => FaultAnnounced
  BY HealthyIsNoFault DEF Init, FaultAnnounced
<1>2. TypeOK /\ FaultAnnounced /\ [Next]_vars => FaultAnnounced'
  <2>. SUFFICES ASSUME TypeOK, FaultAnnounced, [Next]_vars
                PROVE  FaultAnnounced'
    OBVIOUS
  <2>1. TypeOK'
    BY StepType
  <2>2. ASSUME NEW p \in Party, DetectAll(Baseline[p]) = {},
               (homes'[p] = homes[p] /\ feed'[p] = feed[p]) \/ homes'[p] = Baseline[p]
        PROVE  Announced(p)'
    <3>1. CASE homes'[p] = Baseline[p]
      BY <2>2, <3>1, HealthyIsNoFault DEF Announced
    <3>2. CASE homes'[p] = homes[p] /\ feed'[p] = feed[p]
      BY <2>2, <3>2 DEF FaultAnnounced, Announced
    <3>. QED
      BY <2>2, <3>1, <3>2
  <2>3. ASSUME NEW tenant \in Tenant, Reset(tenant)
        PROVE  FaultAnnounced'
    <3>1. \A p \in Party : (homes'[p] = homes[p] /\ feed'[p] = feed[p]) \/ homes'[p] = Baseline[p]
      BY <2>3 DEF Reset, ResetHomes, ResetFeed
    <3>. QED
      BY <2>2, <3>1 DEF FaultAnnounced, Announced
  <2>4. ASSUME NEW s \in Scenario, Apply(s)
        PROVE  FaultAnnounced'
    <3> DEFINE pack == Pack[s]
               feeds == IF pack.reset_first THEN ResetFeed(pack.tenant) ELSE feed
    <3>1. ASSUME NEW p \in Party, p \in pack.parties
          PROVE  Announced(p)'
      <4>1. feeds[p] \in Seq(FeedEntry)
        BY DEF TypeOK, ResetFeed
      <4>2. feed'[p] = feeds[p] \o Emitted(homes'[p])
        BY <2>4, <3>1 DEF Apply
      <4>3. IsTopology(homes'[p])
        BY <2>1 DEF TypeOK
      <4>. HIDE DEF feeds
      <4>. QED
        BY <4>1, <4>2, <4>3, StagingAnnounces
    <3>2. ASSUME NEW p \in Party, p \notin pack.parties
          PROVE  (homes'[p] = homes[p] /\ feed'[p] = feed[p]) \/ homes'[p] = Baseline[p]
      BY <2>4, <3>2 DEF Apply, ResetHomes, ResetFeed
    <3>. QED
      BY <2>2, <3>1, <3>2 DEF FaultAnnounced, Announced
  <2>5. ASSUME NEW s \in Scenario, ApplyUnresolved(s)
        PROVE  FaultAnnounced'
    <3>1. \A p \in Party : (homes'[p] = homes[p] /\ feed'[p] = feed[p]) \/ homes'[p] = Baseline[p]
      BY <2>5 DEF ApplyUnresolved, ResetHomes, ResetFeed
    <3>. QED
      BY <2>2, <3>1 DEF FaultAnnounced, Announced
  <2>6. ASSUME NEW p \in Party, AgentActs(p)
        PROVE  FaultAnnounced'
    BY <2>6, NoBandSteersHome, PerformAnnounced DEF AgentActs
  <2>7. ASSUME NEW c \in Call, OtherCall(c)
        PROVE  FaultAnnounced'
    BY <2>7, SystemType, PerformAnnounced DEF OtherCall, CallsSteerHome
  <2>8. CASE UNCHANGED <<homes, feed>>
    BY <2>8 DEF FaultAnnounced
  <2>. QED
    BY <2>3, <2>4, <2>5, <2>6, <2>7, <2>8 DEF Next, Operator, Diagnose, vars
<1>. QED
  BY <1>1, <1>2, TablesKept, PTL DEF Spec

----------------------------------------------------------------------------
(* Staging and what the last take left behind *)

\* A row of a party that no pack stages.
NoPackSetsDevice(p, d) ==
    \A s \in Scenario : p \in Pack[s].parties => d \notin DOMAIN Pack[s].devices

NoPackSetsAp(p, a) ==
    \A s \in Scenario : p \in Pack[s].parties => a \notin DOMAIN Pack[s].access_points

\* The rows that no scenario of the party matches are no worse than the pack seeded
\* them, and the columns that nothing sets are as seeded.
RowsAsSeeded(p, t) ==
    LET b == Baseline[p]
    IN  /\ t.gateway = NoGateway <=> b.gateway = NoGateway
        /\ (\A s \in Scenario : p \in Pack[s].parties => Pack[s].gateway = Unset) =>
               t.gateway = b.gateway
        /\ DOMAIN t.access_points = DOMAIN b.access_points
        /\ DOMAIN t.devices = DOMAIN b.devices
        /\ \A a \in DOMAIN t.access_points :
               /\ t.access_points[a].kind = b.access_points[a].kind
               /\ t.access_points[a].radios = b.access_points[a].radios
        /\ \A d \in DOMAIN t.devices :
               /\ t.devices[d].connected_ap_id = b.devices[d].connected_ap_id
               /\ t.devices[d].steer_eligible = b.devices[d].steer_eligible
        /\ \A d \in StuckDevices(t) : NoPackSetsDevice(p, d) => d \in StuckDevices(b)
        /\ \A a \in UnhealthyExtenders(t) :
               NoPackSetsAp(p, a) => a \in UnhealthyExtenders(b)

AppliesArePacks ==
    \A i \in DOMAIN audit : audit[i].action = "apply" => audit[i].scenario \in Scenario

StagingInv ==
    /\ TypeOK
    /\ AppliesArePacks
    /\ \A p \in Party : RowsAsSeeded(p, homes[p])
    /\ FaultsExplainedByLastTake

\* What the UPDATEs of a scenario make of each row.
LEMMA StagedRows ==
    ASSUME NEW t, IsTopology(t), NEW s \in Scenario
    PROVE  LET r == Staged(t, Pack[s])
               k == Pack[s]
           IN  /\ r.gateway = (IF t.gateway = NoGateway \/ k.gateway = Unset
                               THEN t.gateway ELSE k.gateway)
               /\ DOMAIN r.access_points = DOMAIN t.access_points
               /\ DOMAIN r.devices = DOMAIN t.devices
               /\ \A a \in DOMAIN t.access_points :
                      /\ r.access_points[a].kind = t.access_points[a].kind
                      /\ r.access_points[a].radios = t.access_points[a].radios
                      /\ a \in DOMAIN k.access_points =>
                             /\ r.access_points[a].status = k.access_points[a].status
                             /\ r.access_points[a].backhaul_quality =
                                    k.access_points[a].backhaul_quality
                      /\ a \notin DOMAIN k.access_points =>
                             r.access_points[a] = t.access_points[a]
               /\ \A d \in DOMAIN t.devices :
                      /\ r.devices[d].connected_ap_id = t.devices[d].connected_ap_id
                      /\ r.devices[d].steer_eligible = t.devices[d].steer_eligible
                      /\ d \in DOMAIN k.devices =>
                             /\ r.devices[d].band = k.devices[d].band
                             /\ r.devices[d].rssi = k.devices[d].rssi
                      /\ d \notin DOMAIN k.devices => r.devices[d] = t.devices[d]
<1> DEFINE k == Pack[s]
           r == Staged(t, k)
<1>1. /\ r.gateway = (IF t.gateway = NoGateway \/ k.gateway = Unset
                      THEN t.gateway ELSE k.gateway)
      /\ DOMAIN r.access_points = DOMAIN t.access_points
      /\ DOMAIN r.devices = DOMAIN t.devices
  BY DEF Staged
<1>2. ASSUME NEW a \in DOMAIN t.access_points
      PROVE  /\ r.access_points[a].kind = t.access_points[a].kind
             /\ r.access_points[a].radios = t.access_points[a].radios
             /\ a \in DOMAIN k.access_points =>
                    /\ r.access_points[a].status = k.access_points[a].status
                    /\ r.access_points[a].backhaul_quality =
                           k.access_points[a].backhaul_quality
             /\ a \notin DOMAIN k.access_points => r.access_points[a] = t.access_points[a]
  <2>1. t.access_points[a] \in ApRow
    BY DEF IsTopology
  <2>2. r.access_points[a] =
            IF a \in DOMAIN k.access_points
            THEN [t.access_points[a] EXCEPT
                     !.status = k.access_points[a].status,
                     !.backhaul_quality = k.access_points[a].backhaul_quality]
            ELSE t.access_points[a]
    BY DEF Staged
  <2>. HIDE DEF r
  <2>. QED
    BY <2>1, <2>2 DEF ApRow
<1>3. ASSUME NEW d \in DOMAIN t.devices
      PROVE  /\ r.devices[d].connected_ap_id = t.devices[d].connected_ap_id
             /\ r.devices[d].steer_eligible = t.devices[d].steer_eligible
             /\ d \in DOMAIN k.devices =>
                    /\ r.devices[d].band = k.devices[d].band
                    /\ r.devices[d].rssi = k.devices[d].rssi
             /\ d \notin DOMAIN k.devices => r.devices[d] = t.devices[d]
  <2>1. t.devices[d] \in DeviceRow
    BY DEF IsTopology
  <2>2. r.devices[d] = IF d \in DOMAIN k.devices
                       THEN [t.devices[d] EXCEPT !.band = k.devices[d].band,
                                                 !.rssi = k.devices[d].rssi]
                       ELSE t.devices[d]
    BY DEF Staged
  <2>. HIDE DEF r
  <2>. QED
    BY <2>1, <2>2 DEF DeviceRow
<1>. HIDE DEF r
<1>. QED
  BY <1>1, <1>2, <1>3 DEF r

\* A scenario leaves the rows it does not match as they are.
LEMMA StagedAsSeeded ==
    ASSUME NEW p \in Party, NEW t, IsTopology(t), RowsAsSeeded(p, t),
           NEW s \in Scenario, p \in Pack[s].parties
    PROVE  RowsAsSeeded(p, Staged(t, Pack[s]))
<1> DEFINE k == Pack[s]
           r == Staged(t, k)
           b == Baseline[p]
<1>1. /\ r.gateway = (IF t.gateway = NoGateway \/ k.gateway = Unset
                      THEN t.gateway ELSE k.gateway)
      /\ DOMAIN r.access_points = DOMAIN t.access_points
      /\ DOMAIN r.devices = DOMAIN t.devices
      /\ \A a \in DOMAIN t.access_points :
             /\ r.access_points[a].kind = t.access_points[a].kind
             /\ r.access_points[a].radios = t.access_points[a].radios
             /\ a \notin DOMAIN k.access_points => r.access_points[a] = t.access_points[a]
      /\ \A d \in DOMAIN t.devices :
             /\ r.devices[d].connected_ap_id = t.devices[d].connected_ap_id
             /\ r.devices[d].steer_eligible = t.devices[d].steer_eligible
             /\ d \notin DOMAIN k.devices => r.devices[d] = t.devices[d]
  BY StagedRows
<1>. HIDE DEF r
<1>2. k.gateway # NoGateway
  BY SystemType DEF IsPack, WanStatuses, Unset, NoGateway
<1>3. /\ r.gateway = NoGateway <=> b.gateway = NoGateway
      /\ (\A s2 \in Scenario : p \in Pack[s2].parties => Pack[s2].gateway = Unset) =>
             r.gateway = b.gateway
  BY <1>1, <1>2 DEF RowsAsSeeded
<1>4. ASSUME NEW d \in StuckDevices(r), NoPackSetsDevice(p, d)
      PROVE  d \in StuckDevices(b)
  <2>1. d \in DOMAIN t.devices /\ r.devices[d] = t.devices[d]
    BY <1>1, <1>4 DEF StuckDevices, NoPackSetsDevice
  <2>2. \A a : BandsOn(r, a) = BandsOn(t, a)
    BY <1>1 DEF BandsOn
  <2>3. d \in StuckDevices(t)
    BY <1>4, <2>1, <2>2 DEF StuckDevices
  <2>. QED
    BY <1>4, <2>3 DEF RowsAsSeeded
<1>5. ASSUME NEW a \in UnhealthyExtenders(r), NoPackSetsAp(p, a)
      PROVE  a \in UnhealthyExtenders(b)
  <2>1. a \in DOMAIN t.access_points /\ r.access_points[a] = t.access_points[a]
    BY <1>1, <1>5 DEF UnhealthyExtenders, Extenders, NoPackSetsAp
  <2>2. a \in UnhealthyExtenders(t)
    BY <1>5, <2>1 DEF UnhealthyExtenders, Extenders
  <2>. QED
    BY <1>5, <2>2 DEF RowsAsSeeded
<1>6. /\ DOMAIN r.access_points = DOMAIN b.access_points
      /\ DOMAIN r.devices = DOMAIN b.devices
      /\ \A a \in DOMAIN r.access_points :
             /\ r.access_points[a].kind = b.access_points[a].kind
             /\ r.access_points[a].radios = b.access_points[a].radios
      /\ \A d \in DOMAIN r.devices :
             /\ r.devices[d].connected_ap_id = b.devices[d].connected_ap_id
             /\ r.devices[d].steer_eligible = b.devices[d].steer_eligible
  BY <1>1 DEF RowsAsSeeded
<1>7. RowsAsSeeded(p, r)
  BY <1>3, <1>4, <1>5, <1>6 DEF RowsAsSeeded
<1>. QED
  BY <1>7 DEF r

\* So does a verb that steers onto the target band.
LEMMA ActionAsSeeded ==
    ASSUME NEW p \in Party, NEW t, IsTopology(t), RowsAsSeeded(p, t),
           NEW verb, NEW target, NEW band, SteerBand(band) = Config.steer_target_band
    PROVE  RowsAsSeeded(p, DeviceAction(t, verb, target, band).topology)
<1> DEFINE r == DeviceAction(t, verb, target, band).topology
<1>1. /\ r.gateway = t.gateway
      /\ UnhealthyExtenders(r) \subseteq UnhealthyExtenders(t)
      /\ StuckDevices(r) \subseteq StuckDevices(t)
  BY ActionHeals
<1>2. /\ DOMAIN r.devices = DOMAIN t.devices
      /\ DOMAIN r.access_points = DOMAIN t.access_points
      /\ \A a \in DOMAIN t.access_points :
             /\ r.access_points[a].kind = t.access_points[a].kind
             /\ r.access_points[a].radios = t.access_points[a].radios
      /\ \A d \in DOMAIN t.devices :
             /\ r.devices[d].connected_ap_id = t.devices[d].connected_ap_id
             /\ r.devices[d].steer_eligible = t.devices[d].steer_eligible
  BY ActionKeepsColumns
<1>. HIDE DEF r
<1>3. RowsAsSeeded(p, r)
  BY <1>1, <1>2 DEF RowsAsSeeded
<1>. QED
  BY <1>3 DEF r

LEMMA BaselineAsSeeded ==
    ASSUME NEW p \in Party
    PROVE  RowsAsSeeded(p, Baseline[p])
BY DEF RowsAsSeeded

\* A pack that sets what every pack sets gives a home the faults it would give the
\* seeded one, whatever was done to the home since.
LEMMA RestoreForgets ==
    ASSUME NEW p \in Party, NEW t, IsTopology(t), RowsAsSeeded(p, t),
           NEW s \in Scenario, ~Pack[s].reset_first, p \in Pack[s].parties,
           RestoresAreComplete
    PROVE  DetectAll(Staged(t, Pack[s])) \subseteq DetectAll(Staged(Baseline[p], Pack[s]))
<1> DEFINE k == Pack[s]
           r == Staged(t, k)
           b == Baseline[p]
           rb == Staged(b, k)
<1>1. IsTopology(b)
  BY SystemType
<1>2. ASSUME NEW s2 \in Scenario, p \in Pack[s2].parties
      PROVE  /\ Pack[s2].gateway # Unset => k.gateway # Unset
             /\ DOMAIN Pack[s2].access_points \subseteq DOMAIN k.access_points
             /\ DOMAIN Pack[s2].devices \subseteq DOMAIN k.devices
  <2>1. Pack[s2].tenant = k.tenant
    BY <1>2, PacksStayInTenant
  <2>. QED
    BY <1>2, <2>1 DEF RestoresAreComplete
<1>3. /\ \A d : d \notin DOMAIN k.devices => NoPackSetsDevice(p, d)
      /\ \A a : a \notin DOMAIN k.access_points => NoPackSetsAp(p, a)
      /\ k.gateway = Unset => t.gateway = b.gateway
  <2>1. k.gateway = Unset =>
            \A s2 \in Scenario : p \in Pack[s2].parties => Pack[s2].gateway = Unset
    BY <1>2
  <2>. QED
    BY <1>2, <2>1 DEF NoPackSetsDevice, NoPackSetsAp, RowsAsSeeded
<1>4. /\ r.gateway = (IF t.gateway = NoGateway \/ k.gateway = Unset
                      THEN t.gateway ELSE k.gateway)
      /\ DOMAIN r.access_points = DOMAIN t.access_points
      /\ DOMAIN r.devices = DOMAIN t.devices
      /\ \A a \in DOMAIN t.access_points :
             /\ r.access_points[a].kind = t.access_points[a].kind
             /\ r.access_points[a].radios = t.access_points[a].radios
             /\ a \in DOMAIN k.access_points =>
                    /\ r.access_points[a].status = k.access_points[a].status
                    /\ r.access_points[a].backhaul_quality = k.access_points[a].backhaul_quality
             /\ a \notin DOMAIN k.access_points => r.access_points[a] = t.access_points[a]
      /\ \A d \in DOMAIN t.devices :
             /\ r.devices[d].connected_ap_id = t.devices[d].connected_ap_id
             /\ r.devices[d].steer_eligible = t.devices[d].steer_eligible
             /\ d \in DOMAIN k.devices =>
                    /\ r.devices[d].band = k.devices[d].band
                    /\ r.devices[d].rssi = k.devices[d].rssi
             /\ d \notin DOMAIN k.devices => r.devices[d] = t.devices[d]
  BY StagedRows
<1>5. /\ rb.gateway = (IF b.gateway = NoGateway \/ k.gateway = Unset
                       THEN b.gateway ELSE k.gateway)
      /\ DOMAIN rb.access_points = DOMAIN b.access_points
      /\ DOMAIN rb.devices = DOMAIN b.devices
      /\ \A a \in DOMAIN b.access_points :
             /\ rb.access_points[a].kind = b.access_points[a].kind
             /\ rb.access_points[a].radios = b.access_points[a].radios
             /\ a \in DOMAIN k.access_points =>
                    /\ rb.access_points[a].status = k.access_points[a].status
                    /\ rb.access_points[a].backhaul_quality = k.access_points[a].backhaul_quality
             /\ a \notin DOMAIN k.access_points => rb.access_points[a] = b.access_points[a]
      /\ \A d \in DOMAIN b.devices :
             /\ rb.devices[d].connected_ap_id = b.devices[d].connected_ap_id
             /\ rb.devices[d].steer_eligible = b.devices[d].steer_eligible
             /\ d \in DOMAIN k.devices =>
                    /\ rb.devices[d].band = k.devices[d].band
                    /\ rb.devices[d].rssi = k.devices[d].rssi
             /\ d \notin DOMAIN k.devices => rb.devices[d] = b.devices[d]
  BY <1>1, StagedRows
<1>. HIDE DEF r, rb
<1>6. r.gateway = rb.gateway
  BY <1>3, <1>4, <1>5 DEF RowsAsSeeded
<1>7. /\ \A a : BandsOn(r, a) = BandsOn(t, a) /\ BandsOn(t, a) = BandsOn(b, a)
      /\ \A a : BandsOn(rb, a) = BandsOn(b, a)
  BY <1>4, <1>5 DEF BandsOn, RowsAsSeeded
<1>8. ASSUME NEW d \in StuckDevices(r)
      PROVE  d \in StuckDevices(rb)
  <2>1. d \in DOMAIN t.devices /\ d \in DOMAIN b.devices
    BY <1>4 DEF StuckDevices, RowsAsSeeded
  <2>2. CASE d \in DOMAIN k.devices
    <3>1. /\ rb.devices[d].band = r.devices[d].band /\ rb.devices[d].rssi = r.devices[d].rssi
          /\ rb.devices[d].connected_ap_id = r.devices[d].connected_ap_id
          /\ rb.devices[d].steer_eligible = r.devices[d].steer_eligible
      BY <1>4, <1>5, <2>1, <2>2 DEF RowsAsSeeded
    <3>. QED
      BY <1>5, <1>7, <1>8, <2>1, <3>1 DEF StuckDevices
  <2>3. CASE d \notin DOMAIN k.devices
    <3>1. r.devices[d] = t.devices[d] /\ rb.devices[d] = b.devices[d]
      BY <1>4, <1>5, <2>1, <2>3
    <3>2. d \in StuckDevices(t)
      BY <1>7, <1>8, <2>1, <3>1 DEF StuckDevices
    <3>3. d \in StuckDevices(b)
      BY <1>3, <2>3, <3>2 DEF RowsAsSeeded
    <3>. QED
      BY <1>5, <1>7, <3>1, <3>3 DEF StuckDevices
  <2>. QED
    BY <2>2, <2>3
<1>9. ASSUME NEW a \in UnhealthyExtenders(r)
      PROVE  a \in UnhealthyExtenders(rb)
  <2>1. a \in DOMAIN t.access_points /\ a \in DOMAIN b.access_points
    BY <1>4 DEF UnhealthyExtenders, Extenders, RowsAsSeeded
  <2>2. CASE a \in DOMAIN k.access_points
    <3>1. /\ rb.access_points[a].status = r.access_points[a].status
          /\ rb.access_points[a].backhaul_quality = r.access_points[a].backhaul_quality
          /\ rb.access_points[a].kind = r.access_points[a].kind
      BY <1>4, <1>5, <2>1, <2>2 DEF RowsAsSeeded
    <3>. QED
      BY <1>5, <1>9, <2>1, <3>1 DEF UnhealthyExtenders, Extenders
  <2>3. CASE a \notin DOMAIN k.access_points
    <3>1. r.access_points[a] = t.access_points[a] /\ rb.access_points[a] = b.access_points[a]
      BY <1>4, <1>5, <2>1, <2>3
    <3>2. a \in UnhealthyExtenders(t)
      BY <1>9, <2>1, <3>1 DEF UnhealthyExtenders, Extenders
    <3>3. a \in UnhealthyExtenders(b)
      BY <1>3, <2>3, <3>2 DEF RowsAsSeeded
    <3>. QED
      BY <1>5, <3>1, <3>3 DEF UnhealthyExtenders, Extenders
  <2>. QED
    BY <2>2, <2>3
<1>10. DetectAll(r) \subseteq DetectAll(rb)
  BY <1>6, <1>8, <1>9, FewerFaults
<1>. QED
  BY <1>10 DEF r, rb

\* A home that no pack stages keeps no fault its seed does not have.
LEMMA UnstagedAsSeeded ==
    ASSUME NEW p \in Party, NEW t, RowsAsSeeded(p, t),
           \A s \in Scenario : p \notin Pack[s].parties
    PROVE  DetectAll(t) \subseteq DetectAll(Baseline[p])
<1>1. \A d : NoPackSetsDevice(p, d) /\ NoPackSetsAp(p, d)
  BY DEF NoPackSetsDevice, NoPackSetsAp
<1>2. /\ t.gateway = Baseline[p].gateway
      /\ StuckDevices(t) \subseteq StuckDevices(Baseline[p])
      /\ UnhealthyExtenders(t) \subseteq UnhealthyExtenders(Baseline[p])
  BY <1>1 DEF RowsAsSeeded
<1>. QED
  BY <1>2, FewerFaults

\* Some entries of a log have a newest one.
LEMMA NewestOfSome ==
    ASSUME NEW n \in Nat, NEW set \in SUBSET (1 .. n), set # {}
    PROVE  (CHOOSE i \in set : \A j \in set : j <= i) \in set
<1> DEFINE minus == {0 - i : i \in set}
<1>1. minus \in SUBSET Int /\ minus # {} /\ 0 - n \in Int /\ \A m \in minus : 0 - n <= m
  <2>1. \A i \in set : 0 - i \in Int /\ 0 - n <= 0 - i
    OBVIOUS
  <2>2. minus # {} /\ \A m \in minus : m \in Int /\ 0 - n <= m
    BY <2>1
  <2>3. 0 - n \in Int
    OBVIOUS
  <2>. HIDE DEF minus
  <2>. QED
    BY <2>2, <2>3
<1>2. PICK m \in minus : \A l \in minus : m <= l
  <2>. HIDE DEF minus
  <2>. QED
    BY <1>1, LeastNumber
<1>3. PICK i \in set : m = 0 - i
  BY <1>2
<1>4. \A j \in set : j <= i
  <2>. SUFFICES ASSUME NEW j \in set
                PROVE  j <= i
    OBVIOUS
  <2>1. m <= 0 - j
    BY <1>2
  <2>. QED
    BY <1>3, <2>1
<1>. QED
  BY <1>4

\* A party's stage after a request of its own tenant is logged, and after one of
\* another.
LEMMA StageAfterEntry ==
    ASSUME audit \in Seq(AuditEntry), NEW e \in AuditEntry, audit' = Append(audit, e),
           NEW p \in Party
    PROVE  /\ e.tenant = TenantOf[p] =>
                  ExpectedStage(p)' =
                      IF e.action = "reset" THEN Baseline[p]
                      ELSE IF p \in Pack[e.scenario].parties
                           THEN Staged(Baseline[p], Pack[e.scenario])
                           ELSE Baseline[p]
           /\ e.tenant # TenantOf[p] => ExpectedStage(p)' = ExpectedStage(p)
<1> DEFINE Mine(log) == {i \in DOMAIN log : log[i].tenant = TenantOf[p]}
           Newest(set) == CHOOSE i \in set : \A j \in set : j <= i
           n == Len(audit) + 1
<1>1. /\ Len(audit) \in Nat /\ n \in Nat
      /\ DOMAIN audit = 1 .. Len(audit) /\ DOMAIN audit' = 1 .. n
      /\ audit'[n] = e /\ \A i \in 1 .. Len(audit) : audit'[i] = audit[i]
  OBVIOUS
<1>2. ASSUME e.tenant = TenantOf[p]
      PROVE  Mine(audit') # {} /\ Newest(Mine(audit')) = n
  <2>1. n \in Mine(audit') /\ \A j \in Mine(audit') : j <= n /\ j \in Int
    BY <1>1, <1>2
  <2>. HIDE DEF Mine
  <2>2. \A i \in Mine(audit') : (\A j \in Mine(audit') : j <= i) => i = n
    BY <1>1, <2>1
  <2>. QED
    BY <2>1, <2>2
<1>3. ASSUME e.tenant # TenantOf[p]
      PROVE  Mine(audit') = Mine(audit)
  BY <1>1, <1>3
<1>4. ASSUME Mine(audit) # {}
      PROVE  Newest(Mine(audit)) \in DOMAIN audit
  <2>1. Mine(audit) \in SUBSET (1 .. Len(audit))
    BY <1>1
  <2>. QED
    BY <1>1, <1>4, <2>1, NewestOfSome
<1>5. ASSUME e.tenant = TenantOf[p]
      PROVE  ExpectedStage(p)' =
                 IF e.action = "reset" THEN Baseline[p]
                 ELSE IF p \in Pack[e.scenario].parties
                      THEN Staged(Baseline[p], Pack[e.scenario])
                      ELSE Baseline[p]
  <2>1. ExpectedStage(p)' =
            IF Mine(audit') = {} \/ audit'[Newest(Mine(audit'))].action = "reset"
            THEN Baseline[p]
            ELSE IF p \in Pack[audit'[Newest(Mine(audit'))].scenario].parties
                 THEN Staged(Baseline[p], Pack[audit'[Newest(Mine(audit'))].scenario])
                 ELSE Baseline[p]
    BY DEF ExpectedStage
  <2>. HIDE DEF Mine, Newest
  <2>. QED
    BY <1>1, <1>2, <1>5, <2>1
<1>6. ASSUME e.tenant # TenantOf[p]
      PROVE  ExpectedStage(p)' = ExpectedStage(p)
  <2> DEFINE Stage(log) ==
                 IF Mine(log) = {} \/ log[Newest(Mine(log))].action = "reset"
                 THEN Baseline[p]
                 ELSE IF p \in Pack[log[Newest(Mine(log))].scenario].parties
                      THEN Staged(Baseline[p], Pack[log[Newest(Mine(log))].scenario])
                      ELSE Baseline[p]
  <2>1. ExpectedStage(p) = Stage(audit) /\ ExpectedStage(p)' = Stage(audit')
    BY DEF ExpectedStage
  <2>2. Mine(audit) # {} =>
            audit'[Newest(Mine(audit'))] = audit[Newest(Mine(audit))]
    BY <1>1, <1>3, <1>4, <1>6
  <2>. HIDE DEF Mine, Newest
  <2>. QED
    BY <1>3, <1>6, <2>1, <2>2
<1>. QED
  BY <1>5, <1>6

\* A party's stage is its seed, or its seed with a pack of its own staged.
LEMMA StageForms ==
    ASSUME TypeOK, AppliesArePacks, NEW p \in Party
    PROVE  \/ ExpectedStage(p) = Baseline[p]
           \/ \E s \in Scenario : /\ p \in Pack[s].parties
                                  /\ ExpectedStage(p) = Staged(Baseline[p], Pack[s])
<1> DEFINE mine == {i \in DOMAIN audit : audit[i].tenant = TenantOf[p]}
           at == CHOOSE i \in mine : \A j \in mine : j <= i
<1>1. ExpectedStage(p) =
          IF mine = {} \/ audit[at].action = "reset" THEN Baseline[p]
          ELSE IF p \in Pack[audit[at].scenario].parties
               THEN Staged(Baseline[p], Pack[audit[at].scenario])
               ELSE Baseline[p]
  BY DEF ExpectedStage
<1>2. audit \in Seq(AuditEntry) /\ Len(audit) \in Nat /\ DOMAIN audit = 1 .. Len(audit)
  BY DEF TypeOK
<1>3. mine # {} => at \in DOMAIN audit
  <2>1. mine \in SUBSET (1 .. Len(audit))
    BY <1>2
  <2>. QED
    BY <1>2, <2>1, NewestOfSome
<1>. HIDE DEF at, mine
<1>4. at \in DOMAIN audit => audit[at].action \in {"apply", "reset"}
  <2>1. at \in DOMAIN audit => audit[at] \in AuditEntry
    BY <1>2
  <2>. QED
    BY <2>1 DEF AuditEntry
<1>5. mine # {} /\ audit[at].action # "reset" => audit[at].scenario \in Scenario
  BY <1>3, <1>4 DEF AppliesArePacks
<1>. QED
  BY <1>1, <1>5

\* A verb that steers onto the target band keeps what the last take explains.
LEMMA PerformExplained ==
    ASSUME StagingInv, NEW p \in Party, NEW verb, NEW target, NEW band,
           SteerBand(band) = Config.steer_target_band,
           Perform(p, verb, target, band), UNCHANGED audit
    PROVE  /\ \A q \in Party : RowsAsSeeded(q, homes'[q])
           /\ FaultsExplainedByLastTake'
<1> DEFINE r == DeviceAction(homes[p], verb, target, band).topology
<1>1. /\ DOMAIN homes = Party /\ IsTopology(homes[p]) /\ RowsAsSeeded(p, homes[p])
      /\ homes' = [homes EXCEPT ![p] = r]
  BY DEF StagingInv, TypeOK, Perform
<1>2. RowsAsSeeded(p, r)
  BY <1>1, ActionAsSeeded
<1>. HIDE DEF r
<1>3. \A q \in Party : RowsAsSeeded(q, homes'[q])
  BY <1>1, <1>2 DEF StagingInv
<1>4. \A q \in Party : DetectAll(homes'[q]) \subseteq DetectAll(homes[q])
  BY PerformHeals, FewerFaults DEF StagingInv
<1>5. \A q \in Party : ExpectedStage(q)' = ExpectedStage(q)
  BY DEF ExpectedStage
<1>. QED
  BY <1>3, <1>4, <1>5 DEF StagingInv, FaultsExplainedByLastTake

\* A home that the step leaves alone, or puts back to its seed, is explained by the
\* same take as before.
LEMMA UntouchedExplained ==
    ASSUME StagingInv, StagesOnlyAdd, NEW p \in Party,
           ExpectedStage(p)' = ExpectedStage(p),
           homes'[p] \in {homes[p], Baseline[p]}
    PROVE  DetectAll(homes'[p]) \subseteq DetectAll(ExpectedStage(p)')
<1>1. CASE homes'[p] = homes[p]
  BY <1>1 DEF StagingInv, FaultsExplainedByLastTake
<1>2. CASE homes'[p] = Baseline[p]
  BY <1>2, StageForms DEF StagingInv, StagesOnlyAdd
<1>. QED
  BY <1>1, <1>2

\* Staging does not depend on what the last take left behind, if a pack that does not
\* reset restores whatever its tenant's packs set, packs repair nothing that is seeded,
\* and callers steer onto the target band.
THEOREM TakesAreIndependent ==
    ASSUME CallsSteerHome, RestoresAreComplete, StagesOnlyAdd
    PROVE  Spec => []FaultsExplainedByLastTake
<1>1. Init => StagingInv
  <2>. SUFFICES ASSUME Init
                PROVE  StagingInv
    OBVIOUS
  <2>1. \A p \in Party : ExpectedStage(p) = Baseline[p]
    BY DEF Init, ExpectedStage
  <2>. QED
    BY <2>1, InitType, BaselineAsSeeded
       DEF Init, StagingInv, AppliesArePacks, FaultsExplainedByLastTake
<1>2. StagingInv /\ [Next]_vars => StagingInv'
  <2>. SUFFICES ASSUME StagingInv, [Next]_vars
                PROVE  StagingInv'
    OBVIOUS
  <2>1. TypeOK /\ TypeOK'
    BY StepType DEF StagingInv
  <2>2. /\ audit \in Seq(AuditEntry) /\ audit' \in Seq(AuditEntry)
        /\ \A p \in Party : TenantOf[p] \in Tenant /\ IsTopology(homes[p])
    BY <2>1, SystemType DEF TypeOK
  <2>3. AppliesArePacks'
    <3>1. ASSUME NEW e \in AuditEntry, audit' = Append(audit, e),
                 e.action = "apply" => e.scenario \in Scenario
          PROVE  AppliesArePacks'
      BY <2>2, <3>1 DEF StagingInv, AppliesArePacks
    <3>2. ASSUME NEW tenant \in Tenant, Reset(tenant)
          PROVE  AppliesArePacks'
      BY <3>1, <3>2 DEF Reset, Entry, AuditEntry
    <3>3. ASSUME NEW s \in Scenario, Apply(s)
          PROVE  AppliesArePacks'
      BY <3>1, <3>3, SystemType DEF Apply, Entry, AuditEntry, IsPack
    <3>4. CASE UNCHANGED audit
      BY <3>4 DEF StagingInv, AppliesArePacks
    <3>. QED
      BY <3>2, <3>3, <3>4
         DEF Next, Operator, Diagnose, ApplyUnresolved, AgentActs, OtherCall, Perform, vars
  <2> DEFINE Kept == /\ \A p \in Party : RowsAsSeeded(p, homes'[p])
                     /\ FaultsExplainedByLastTake'
  <2>4. ASSUME UNCHANGED audit, \A p \in Party : homes'[p] \in {homes[p], Baseline[p]}
        PROVE  Kept
    <3>1. \A p \in Party : ExpectedStage(p)' = ExpectedStage(p)
      BY <2>4 DEF ExpectedStage
    <3>2. \A p \in Party : RowsAsSeeded(p, homes'[p])
      BY <2>4, BaselineAsSeeded DEF StagingInv
    <3>. QED
      BY <2>4, <3>1, <3>2, UntouchedExplained DEF FaultsExplainedByLastTake
  <2>5. ASSUME NEW tenant \in Tenant, Reset(tenant)
        PROVE  Kept
    <3> DEFINE e == Entry("reset", tenant, "")
    <3>1. /\ e \in AuditEntry /\ e.tenant = tenant /\ e.action = "reset"
          /\ audit' = Append(audit, e)
      BY <2>5 DEF Reset, Entry, AuditEntry
    <3>. HIDE DEF e
    <3>2. ASSUME NEW p \in Party
          PROVE  homes'[p] = IF TenantOf[p] = tenant THEN Baseline[p] ELSE homes[p]
      BY <2>5 DEF Reset, ResetHomes
    <3>3. ASSUME NEW p \in Party
          PROVE  DetectAll(homes'[p]) \subseteq DetectAll(ExpectedStage(p)')
      <4>1. CASE TenantOf[p] = tenant
        BY <2>2, <3>1, <3>2, <4>1, StageAfterEntry
      <4>2. CASE TenantOf[p] # tenant
        BY <2>2, <3>1, <3>2, <4>2, StageAfterEntry, UntouchedExplained
      <4>. QED
        BY <4>1, <4>2
    <3>. QED
      BY <3>2, <3>3, BaselineAsSeeded DEF StagingInv, FaultsExplainedByLastTake
  <2>6. ASSUME NEW s \in Scenario, Apply(s)
        PROVE  Kept
    <3> DEFINE pack == Pack[s]
               from == IF pack.reset_first THEN ResetHomes(pack.tenant) ELSE homes
               e == Entry("apply", pack.tenant, s)
    <3>1. /\ e \in AuditEntry /\ e.tenant = pack.tenant /\ e.action # "reset"
          /\ e.scenario = s /\ audit' = Append(audit, e)
      BY <2>6, SystemType DEF Apply, Entry, AuditEntry, IsPack
    <3>2. \A p \in pack.parties : TenantOf[p] = pack.tenant /\ p \in Party
      BY PacksStayInTenant, SystemType DEF IsPack
    <3>3. ASSUME NEW p \in Party
          PROVE  /\ from[p] = IF pack.reset_first /\ TenantOf[p] = pack.tenant
                              THEN Baseline[p] ELSE homes[p]
                 /\ homes'[p] = IF p \in pack.parties THEN Staged(from[p], pack) ELSE from[p]
      BY <2>6 DEF Apply, ResetHomes
    <3>. HIDE DEF e, from
    <3>4. ASSUME NEW p \in Party
          PROVE  IsTopology(from[p]) /\ RowsAsSeeded(p, from[p])
      BY <2>2, <3>3, SystemType, BaselineAsSeeded DEF StagingInv
    <3>5. ASSUME NEW p \in Party
          PROVE  RowsAsSeeded(p, homes'[p])
      BY <3>3, <3>4, StagedAsSeeded
    <3>6. ASSUME NEW p \in Party, p \in pack.parties
          PROVE  DetectAll(homes'[p]) \subseteq DetectAll(ExpectedStage(p)')
      <4>1. ExpectedStage(p)' = Staged(Baseline[p], pack)
        BY <2>2, <3>1, <3>2, <3>6, StageAfterEntry
      <4>2. CASE pack.reset_first
        BY <3>2, <3>3, <3>6, <4>1, <4>2
      <4>3. CASE ~pack.reset_first
        BY <3>3, <3>4, <3>6, <4>1, <4>3, RestoreForgets
      <4>. QED
        BY <4>2, <4>3
    <3>7. ASSUME NEW p \in Party, p \notin pack.parties, TenantOf[p] = pack.tenant
          PROVE  DetectAll(homes'[p]) \subseteq DetectAll(ExpectedStage(p)')
      <4>1. ExpectedStage(p)' = Baseline[p]
        BY <2>2, <3>1, <3>7, StageAfterEntry
      <4>2. CASE pack.reset_first
        BY <3>3, <3>7, <4>1, <4>2
      <4>3. CASE ~pack.reset_first
        <5>1. pack.parties # {}
          BY <2>6 DEF Apply
        <5>2. \A k \in Scenario : p \notin Pack[k].parties
          BY <3>7, <4>3, <5>1, PacksStayInTenant DEF RestoresAreComplete
        <5>3. homes'[p] = homes[p] /\ RowsAsSeeded(p, homes[p])
          BY <3>3, <3>7, <4>3 DEF StagingInv
        <5>. QED
          BY <4>1, <5>2, <5>3, UnstagedAsSeeded
      <4>. QED
        BY <4>2, <4>3
    <3>8. ASSUME NEW p \in Party, TenantOf[p] # pack.tenant
          PROVE  DetectAll(homes'[p]) \subseteq DetectAll(ExpectedStage(p)')
      <4>1. ExpectedStage(p)' = ExpectedStage(p)
        BY <2>2, <3>1, <3>8, StageAfterEntry
      <4>2. homes'[p] = homes[p]
        BY <3>2, <3>3, <3>8
      <4>. QED
        BY <4>1, <4>2, UntouchedExplained
    <3>. QED
      BY <3>5, <3>6, <3>7, <3>8 DEF FaultsExplainedByLastTake
  <2>7. ASSUME NEW s \in Scenario, ApplyUnresolved(s)
        PROVE  Kept
    <3>1. UNCHANGED audit /\ \A p \in Party : homes'[p] \in {homes[p], Baseline[p]}
      BY <2>7 DEF ApplyUnresolved, ResetHomes
    <3>. QED
      BY <2>4, <3>1
  <2>8. ASSUME NEW p \in Party, AgentActs(p)
        PROVE  Kept
    <3>1. Perform(p, session[p].verb, session[p].target, NoBand) /\ UNCHANGED audit
      BY <2>8 DEF AgentActs, Perform
    <3>. QED
      BY <3>1, NoBandSteersHome, PerformExplained
  <2>9. ASSUME NEW c \in Call, OtherCall(c)
        PROVE  Kept
    <3>1. /\ c.party \in Party /\ SteerBand(c.band) = Config.steer_target_band
          /\ Perform(c.party, c.verb, c.target, c.band) /\ UNCHANGED audit
      BY <2>9, SystemType DEF OtherCall, Perform, CallsSteerHome
    <3>. QED
      BY <3>1, PerformExplained
  <2>10. ASSUME homes' = homes, audit' = audit
         PROVE  Kept
    <3>1. \A p \in Party : homes'[p] \in {homes[p], Baseline[p]}
      BY <2>10
    <3>. QED
      BY <2>4, <2>10, <3>1
  <2>11. Kept
    <3>. HIDE DEF Kept
    <3>. QED
      BY <2>5, <2>6, <2>7, <2>8, <2>9, <2>10 DEF Next, Operator, Diagnose, vars
  <2>. QED
    BY <2>1, <2>3, <2>11 DEF StagingInv
<1>3. StagingInv => FaultsExplainedByLastTake
  BY DEF StagingInv
<1>. QED
  BY <1>1, <1>2, <1>3, PTL DEF Spec

----------------------------------------------------------------------------
(* Coverage *)

\* A home in which nothing has changed that its pack decides once: the rows there are,
\* what serves what, and the signal of a device at rest.
Rests(p, t) ==
    /\ DOMAIN t.devices = DOMAIN Baseline[p].devices
    /\ DOMAIN t.access_points = DOMAIN Baseline[p].access_points
    /\ \A a \in DOMAIN t.access_points :
           t.access_points[a].kind = Baseline[p].access_points[a].kind
    /\ \A d \in DOMAIN t.devices :
           /\ t.devices[d].connected_ap_id = Baseline[p].devices[d].connected_ap_id
           /\ t.devices[d].steer_eligible = Baseline[p].devices[d].steer_eligible
           /\ AtRest(p, d) => /\ t.devices[d].band = Baseline[p].devices[d].band
                              /\ t.devices[d].rssi = Baseline[p].devices[d].rssi

\* A pack leaves the devices at rest alone.
LEMMA StagedRests ==
    ASSUME NEW p \in Party, NEW t, IsTopology(t), Rests(p, t),
           NEW s \in Scenario, p \in Pack[s].parties
    PROVE  Rests(p, Staged(t, Pack[s]))
<1> DEFINE r == Staged(t, Pack[s])
<1>1. /\ DOMAIN r.access_points = DOMAIN t.access_points
      /\ DOMAIN r.devices = DOMAIN t.devices
      /\ \A a \in DOMAIN t.access_points : r.access_points[a].kind = t.access_points[a].kind
      /\ \A d \in DOMAIN t.devices :
             /\ r.devices[d].connected_ap_id = t.devices[d].connected_ap_id
             /\ r.devices[d].steer_eligible = t.devices[d].steer_eligible
             /\ d \notin DOMAIN Pack[s].devices => r.devices[d] = t.devices[d]
  BY StagedRows
<1>2. \A d : AtRest(p, d) => d \notin DOMAIN Pack[s].devices
  BY DEF AtRest
<1>. HIDE DEF r
<1>3. Rests(p, r)
  BY <1>1, <1>2 DEF Rests
<1>. QED
  BY <1>3 DEF r

\* What a verb writes of the devices: a reboot nothing, a steer one row, which is
\* eligible and on another band.
LEMMA ActionSteers ==
    ASSUME NEW t, IsTopology(t), NEW verb, NEW target, NEW band
    PROVE  LET r == DeviceAction(t, verb, target, band).topology
           IN  \A d \in DOMAIN t.devices :
                   \/ r.devices[d] = t.devices[d]
                   \/ /\ verb = "band-steer" /\ d = target
                      /\ t.devices[d].steer_eligible
                      /\ t.devices[d].band # SteerBand(band)
<1> DEFINE r == DeviceAction(t, verb, target, band).topology
<1>1. \/ r = t
      \/ verb = "band-steer" /\ r = BandSteer(t, target, band).topology
      \/ verb \in {"reboot-extender", "reboot-ap"}
             /\ r = RunVerb(t, verb, target, NoBand).topology
  BY DEF DeviceAction, RunVerb, Refused, Verbs
<1>2. ASSUME r = BandSteer(t, target, band).topology, r # t
      PROVE  /\ target \in DOMAIN t.devices /\ r = Steered(t, target, band)
             /\ t.devices[target].steer_eligible
             /\ t.devices[target].band # SteerBand(band)
  BY <1>2 DEF BandSteer, Refused, Accepted
<1>3. ASSUME verb \in {"reboot-extender", "reboot-ap"},
             r = RunVerb(t, verb, target, NoBand).topology, r # t
      PROVE  target \in DOMAIN t.access_points /\ \E quality : r = Rebooted(t, target, quality)
  <2>. HIDE DEF r
  <2>. QED
    BY <1>3, RebootVerbs
<1>. HIDE DEF r
<1>4. CASE r = t
  BY <1>4 DEF r
<1>5. CASE verb = "band-steer" /\ r = BandSteer(t, target, band).topology /\ r # t
  <2>1. \A e \in DOMAIN t.devices : e # target => r.devices[e] = t.devices[e]
    BY <1>2, <1>5, SteerWrites
  <2>. QED
    BY <1>2, <1>5, <2>1 DEF r
<1>6. CASE /\ verb \in {"reboot-extender", "reboot-ap"}
           /\ r = RunVerb(t, verb, target, NoBand).topology
           /\ r # t
  <2>1. r.devices = t.devices
    BY <1>3, <1>6, RebootWrites
  <2>. QED
    BY <2>1 DEF r
<1>. QED
  BY <1>1, <1>4, <1>5, <1>6

\* So does a verb, onto the target band or as some caller sends it.
LEMMA ActionRests ==
    ASSUME NEW p \in Party, NEW t, IsTopology(t), Rests(p, t),
           NEW verb, NEW target, NEW band,
           \/ SteerBand(band) = Config.steer_target_band
           \/ \E c \in Call : /\ c.party = p /\ c.verb = verb
                              /\ c.target = target /\ c.band = band
    PROVE  Rests(p, DeviceAction(t, verb, target, band).topology)
<1> DEFINE r == DeviceAction(t, verb, target, band).topology
<1>1. /\ DOMAIN r.devices = DOMAIN t.devices
      /\ DOMAIN r.access_points = DOMAIN t.access_points
      /\ \A a \in DOMAIN t.access_points : r.access_points[a].kind = t.access_points[a].kind
      /\ \A d \in DOMAIN t.devices :
             /\ r.devices[d].connected_ap_id = t.devices[d].connected_ap_id
             /\ r.devices[d].steer_eligible = t.devices[d].steer_eligible
  BY ActionKeepsColumns
<1>2. ASSUME NEW d \in DOMAIN t.devices, AtRest(p, d)
      PROVE  r.devices[d] = t.devices[d]
  <2>1. \/ r.devices[d] = t.devices[d]
        \/ /\ verb = "band-steer" /\ d = target
           /\ t.devices[d].steer_eligible
           /\ t.devices[d].band # SteerBand(band)
    BY ActionSteers
  <2>2. /\ t.devices[d].steer_eligible = Baseline[p].devices[d].steer_eligible
        /\ t.devices[d].band = Baseline[p].devices[d].band
    BY <1>2 DEF Rests
  <2>. HIDE DEF r
  <2>3. ASSUME verb = "band-steer", d = target, Baseline[p].devices[d].steer_eligible
        PROVE  SteerBand(band) = Baseline[p].devices[d].band
    BY <1>2, <2>3 DEF AtRest
  <2>. QED
    BY <2>1, <2>2, <2>3
<1>. HIDE DEF r
<1>3. Rests(p, r)
  BY <1>1, <1>2 DEF Rests
<1>. QED
  BY <1>3 DEF r

\* The level of a home in which nothing has changed that decides it.
LEMMA LevelRests ==
    ASSUME CoverageRests, NEW p \in Party, NEW t, IsTopology(t), Rests(p, t)
    PROVE  AssessCoverage(t).level = IF Extended(p) = {} THEN "good" ELSE "weak"
<1>0. IsTopology(Baseline[p])
  BY SystemType
<1>1. \A d \in DOMAIN t.devices :
          d \in Extended(p) <=> t.devices[d].connected_ap_id \in Extenders(t)
  BY <1>0 DEF Extended, Extenders, Rests, IsTopology
<1>2. CASE Extended(p) = {}
  <2>1. \A a \in Extenders(t) : OnAp(t, a) = {}
    BY <1>1, <1>2 DEF OnAp
  <2>2. ~CoverageIsWeak(t)
    BY <2>1 DEF CoverageIsWeak, ClusterHits, SingleWorstHits, EdgeOn
  <2>. QED
    BY <1>2, <2>2 DEF AssessCoverage
<1>3. CASE Extended(p) # {}
  <2>1. PICK d \in Extended(p) : /\ AtRest(p, d)
                                 /\ Baseline[p].devices[d].rssi < Config.single_worst_rssi_dbm
    BY <1>3 DEF CoverageRests
  <2> DEFINE a == t.devices[d].connected_ap_id
  <2>2. d \in DOMAIN t.devices /\ t.devices[d].rssi < Config.single_worst_rssi_dbm
    BY <2>1 DEF Rests, Extended
  <2>3. a \in Extenders(t) /\ d \in OnAp(t, a)
    BY <1>1, <2>1, <2>2 DEF OnAp
  <2>4. WorstRssi(t, OnAp(t, a)) < Config.single_worst_rssi_dbm
    <3>1. OnAp(t, a) \in SUBSET DOMAIN t.devices /\ OnAp(t, a) # {}
      BY <2>3 DEF OnAp
    <3>2. Config.single_worst_rssi_dbm \in Int
      BY ConfigType
    <3>. HIDE DEF a
    <3>. QED
      BY <2>2, <2>3, <3>1, <3>2, WeakestIsLeast
  <2>5. CoverageIsWeak(t)
    BY <2>3, <2>4 DEF CoverageIsWeak, SingleWorstHits
  <2>. QED
    BY <1>3, <2>5 DEF AssessCoverage
<1>. QED
  BY <1>2, <1>3

\* Homes are as seeded in what decides their coverage.
HomesRest == \A p \in Party : Rests(p, homes[p])

\* If what decides the coverage of a home is out of the demo's reach, no verb changes
\* its level, and no scenario does either: the upsell survives the self-heal.
THEOREM UpsellSurvives ==
    ASSUME CoverageRests
    PROVE  Spec => CoverageDurable
<1> DEFINE Kept == ~Operator => \A p \in Party :
                       AssessCoverage(homes'[p]).level = AssessCoverage(homes[p]).level
<1>1. Init => HomesRest
  BY DEF Init, HomesRest, Rests
<1>2. TypeOK /\ HomesRest /\ [Next]_vars => HomesRest'
  <2>. SUFFICES ASSUME TypeOK, HomesRest, [Next]_vars, NEW p \in Party
                PROVE  Rests(p, homes'[p])
    BY DEF HomesRest
  <2>1. /\ DOMAIN homes = Party /\ IsTopology(homes[p]) /\ Rests(p, homes[p])
        /\ IsTopology(Baseline[p]) /\ Rests(p, Baseline[p])
    BY SystemType DEF TypeOK, HomesRest, Rests
  <2>2. \A tenant : ResetHomes(tenant)[p] \in {homes[p], Baseline[p]}
    BY DEF ResetHomes
  <2>3. ASSUME NEW s \in Scenario, Apply(s)
        PROVE  Rests(p, homes'[p])
    <3>1. PICK t \in {homes[p], Baseline[p]} :
              homes'[p] = IF p \in Pack[s].parties THEN Staged(t, Pack[s]) ELSE t
      BY <2>2, <2>3 DEF Apply
    <3>. QED
      BY <2>1, <3>1, StagedRests
  <2>4. ASSUME NEW q \in Party, NEW verb, NEW target, NEW band,
               Perform(q, verb, target, band),
               \/ SteerBand(band) = Config.steer_target_band
               \/ \E c \in Call : /\ c.party = q /\ c.verb = verb
                                  /\ c.target = target /\ c.band = band
        PROVE  Rests(p, homes'[p])
    <3>1. homes' = [homes EXCEPT ![q] = DeviceAction(homes[q], verb, target, band).topology]
      BY <2>4 DEF Perform
    <3>2. CASE p = q
      <4>1. Rests(p, DeviceAction(homes[p], verb, target, band).topology)
        BY <2>1, <2>4, <3>2, ActionRests
      <4>. QED
        BY <2>1, <3>1, <3>2, <4>1
    <3>. QED
      BY <2>1, <3>1, <3>2
  <2>5. ASSUME NEW q \in Party, AgentActs(q)
        PROVE  Rests(p, homes'[p])
    <3>1. Perform(q, session[q].verb, session[q].target, NoBand)
      BY <2>5 DEF AgentActs
    <3>. QED
      BY <2>4, <3>1, NoBandSteersHome
  <2>6. ASSUME NEW c \in Call, OtherCall(c)
        PROVE  Rests(p, homes'[p])
    <3>1. c.party \in Party /\ Perform(c.party, c.verb, c.target, c.band)
      BY <2>6, SystemType DEF OtherCall
    <3>. QED
      BY <2>4, <3>1
  <2>7. ASSUME \/ \E tenant \in Tenant : Reset(tenant)
               \/ \E s \in Scenario : ApplyUnresolved(s)
               \/ homes' = homes
        PROVE  Rests(p, homes'[p])
    <3>1. homes'[p] \in {homes[p], Baseline[p]}
      BY <2>2, <2>7 DEF Reset, ApplyUnresolved
    <3>. QED
      BY <2>1, <3>1
  <2>. QED
    BY <2>3, <2>5, <2>6, <2>7 DEF Next, Operator, Diagnose, vars
<1>3. TypeOK /\ TypeOK' /\ HomesRest /\ HomesRest' /\ [Next]_vars => [Kept]_vars
  BY LevelRests DEF TypeOK, HomesRest
<1>. QED
  BY <1>1, <1>2, <1>3, TablesKept, PTL DEF Spec, CoverageDurable
=============================================================================
