------------------------ MODULE DeviceActionsProofs ------------------------
(****************************************************************************)
(* The verbs and the verdict on any home and under any configuration.       *)
(****************************************************************************)
EXTENDS DeviceActions, FiniteSetTheorems, TLAPS

\* Numbers bounded from below have a least one.
LEMMA LeastNumber ==
    ASSUME NEW S \in SUBSET Int, S # {}, NEW b \in Int, \A s \in S : b <= s
    PROVE  \E m \in S : \A s \in S : m <= s
<1> DEFINE T == {n \in Nat : n + b \in S}
<1>1. \A s \in S : s - b \in T
  <2>1. \A s \in S : s - b \in Nat /\ (s - b) + b = s
    OBVIOUS
  <2>. QED
    BY <2>1
<1>2. T \subseteq Nat /\ T # {}
  BY <1>1
<1> DEFINE Below == {0..n : n \in T}
           Smaller == StrictSubsetOrdering(Nat)
<1>3. PICK x \in Below : \A y \in Below : ~ (<<y, x>> \in Smaller)
  <2>1. IsWellFoundedOn(Smaller, FiniteSubsetsOf(Nat))
    BY FS_StrictSubsetOrderingWellFounded
  <2>2. Below \subseteq FiniteSubsetsOf(Nat) /\ Below # {}
    <3>1. \A n \in Nat : 0..n \in FiniteSubsetsOf(Nat)
      <4>1. \A n \in Nat : IsFiniteSet(0..n)
        BY FS_Interval
      <4>2. \A n \in Nat : 0..n \in SUBSET Nat
        OBVIOUS
      <4>. QED
        BY <4>1, <4>2 DEF FiniteSubsetsOf
    <3>. QED
      BY <1>2, <3>1
  <2>. HIDE DEF Below, Smaller
  <2>. QED
    BY <2>1, <2>2, WFMin
<1>4. PICK n \in T : \A k \in T : n <= k
  <2>1. PICK n \in T : x = 0..n
    BY <1>3
  <2>2. ASSUME NEW k \in T, k < n
        PROVE  FALSE
    <3>1. 0..k \in Below /\ 0..k \subseteq 0..n /\ n \in 0..n /\ n \notin 0..k
      BY <2>2
    <3>2. <<0..k, x>> \in Smaller
      BY <2>1, <3>1 DEF StrictSubsetOrdering
    <3>. QED
      BY <1>3, <3>1, <3>2
  <2>3. \A k \in T : n <= k
    <3>1. \A k \in T : k \in Nat /\ n \in Nat
      BY <1>2
    <3>. HIDE DEF T
    <3>. QED
      BY <2>2, <3>1
  <2>. QED
    BY <2>3
<1>5. n + b \in S /\ \A s \in S : n + b <= s
  <2>1. n \in Nat /\ n + b \in S
    BY <1>4
  <2>2. \A s \in S : n <= s - b
    <3>. HIDE DEF T
    <3>. QED
      BY <1>1, <1>4
  <2>3. \A s \in S : s \in Int
    OBVIOUS
  <2>. QED
    BY <2>1, <2>2, <2>3
<1>. QED
  BY <1>5

\* Python's min with a key: some row has the smallest, the first of equals.
LEMMA LeastByKey ==
    ASSUME NEW S \in SUBSET Nat, S # {}, NEW key \in [S -> PgInteger]
    PROVE  \E d \in S : \A e \in S : \/ key[d] < key[e]
                                     \/ key[d] = key[e] /\ d <= e
<1>1. PgLeast \in Int
  BY DEF PgLeast
<1>2. PgInteger \subseteq Int /\ \A n \in PgInteger : PgLeast <= n
  BY <1>1 DEF PgInteger
<1> DEFINE Keys == {key[d] : d \in S}
<1>3. PICK d0 \in S : \A e \in S : key[d0] <= key[e]
  <2>1. Keys \in SUBSET Int /\ Keys # {} /\ \A n \in Keys : PgLeast <= n
    BY <1>2
  <2>2. PICK m \in Keys : \A n \in Keys : m <= n
    <3>. HIDE DEF Keys
    <3>. QED
      BY <1>1, <2>1, LeastNumber
  <2>. QED
    BY <2>2
<1> DEFINE Least == {e \in S : key[e] = key[d0]}
<1>4. PICK d \in Least : \A e \in Least : d <= e
  <2>1. Least \subseteq S /\ d0 \in Least
    OBVIOUS
  <2>. HIDE DEF Least
  <2>2. Least \in SUBSET Int /\ Least # {} /\ \A e \in Least : 0 <= e
    <3>1. \A e \in S : e \in Int /\ 0 <= e
      OBVIOUS
    <3>. QED
      BY <2>1, <3>1
  <2>. QED
    BY <2>2, LeastNumber
<1>5. \A e \in S : key[d] < key[e] \/ (key[d] = key[e] /\ d <= e)
  <2>. SUFFICES ASSUME NEW e \in S
                PROVE  key[d] < key[e] \/ (key[d] = key[e] /\ d <= e)
    OBVIOUS
  <2>1. key[e] \in Int /\ key[d0] \in Int /\ key[d] = key[d0] /\ key[d0] <= key[e]
    BY <1>2, <1>3, <1>4
  <2>2. key[e] = key[d0] => d <= e
    BY <1>4
  <2>. QED
    BY <2>1, <2>2
<1>. QED
  BY <1>4, <1>5

\* The weakest of some devices is one of them.
LEMMA WeakestIsIn ==
    ASSUME NEW t, IsTopology(t), NEW S \in SUBSET DOMAIN t.devices, S # {}
    PROVE  Weakest(t, S) \in S
<1> DEFINE key == [d \in S |-> t.devices[d].rssi]
<1>1. S \in SUBSET Nat /\ key \in [S -> PgInteger]
  BY DEF IsTopology, DeviceRow
<1>2. \E d \in S : \A e \in S : key[d] < key[e] \/ (key[d] = key[e] /\ d <= e)
  <2>. HIDE DEF key
  <2>. QED
    BY <1>1, LeastByKey
<1>. QED
  BY <1>2 DEF Weakest

\* The weakest of some devices is below a bound exactly if one of them is.
LEMMA WeakestIsLeast ==
    ASSUME NEW t, IsTopology(t), NEW S \in SUBSET DOMAIN t.devices, S # {}
    PROVE  /\ Weakest(t, S) \in S
           /\ \A d \in S : t.devices[Weakest(t, S)].rssi <= t.devices[d].rssi
           /\ WorstRssi(t, S) \in PgInteger
           /\ \A n \in Int : WorstRssi(t, S) < n <=> \E d \in S : t.devices[d].rssi < n
<1> DEFINE key == [d \in S |-> t.devices[d].rssi]
           w == Weakest(t, S)
<1>1. S \in SUBSET Nat /\ key \in [S -> PgInteger]
  BY DEF IsTopology, DeviceRow
<1>2. \E d \in S : \A e \in S : key[d] < key[e] \/ (key[d] = key[e] /\ d <= e)
  <2>. HIDE DEF key
  <2>. QED
    BY <1>1, LeastByKey
<1>3. w \in S /\ \A e \in S : \/ t.devices[w].rssi < t.devices[e].rssi
                              \/ t.devices[w].rssi = t.devices[e].rssi /\ w <= e
  BY <1>2 DEF Weakest
<1>4. \A d \in S : t.devices[d].rssi \in PgInteger /\ t.devices[d].rssi \in Int
  BY <1>1 DEF IsTopology, DeviceRow, PgInteger
<1>. HIDE DEF w
<1>5. \A d \in S : t.devices[w].rssi <= t.devices[d].rssi
  BY <1>3, <1>4
<1>6. \A n \in Int : t.devices[w].rssi < n <=> \E d \in S : t.devices[d].rssi < n
  BY <1>3, <1>4, <1>5
<1>. QED
  BY <1>3, <1>4, <1>5, <1>6 DEF w, WorstRssi

\* The extender with the worst backhaul of some is one of them.
LEMMA WorstBackhaulIsIn ==
    ASSUME NEW t, IsTopology(t), NEW S \in SUBSET DOMAIN t.access_points, S # {}
    PROVE  WorstBackhaul(t, S) \in S
<1> DEFINE key == [a \in S |-> t.access_points[a].backhaul_quality]
<1>1. S \in SUBSET Nat /\ key \in [S -> PgInteger]
  BY DEF IsTopology, ApRow
<1>2. \E a \in S : \A b \in S : key[a] < key[b] \/ (key[a] = key[b] /\ a <= b)
  <2>. HIDE DEF key
  <2>. QED
    BY <1>1, LeastByKey
<1>. QED
  BY <1>2 DEF WorstBackhaul

\* What band-steer writes: the band and the signal of one device.
LEMMA SteeredRows ==
    ASSUME NEW t, IsTopology(t), NEW d \in DOMAIN t.devices, NEW band
    PROVE  Steered(t, d, band) =
               [gateway       |-> t.gateway,
                access_points |-> t.access_points,
                devices       |-> [t.devices EXCEPT ![d] =
                    [t.devices[d] EXCEPT !.band = SteerBand(band),
                                         !.rssi = SteeredRssi(t.devices[d].rssi)]]]
<1>1. t = [gateway |-> t.gateway, access_points |-> t.access_points, devices |-> t.devices]
  BY DEF IsTopology
<1>. QED
  BY <1>1 DEF Steered

\* What a reboot writes: the status and the backhaul of one access point.
LEMMA RebootedRows ==
    ASSUME NEW t, IsTopology(t), NEW a \in DOMAIN t.access_points, NEW quality
    PROVE  Rebooted(t, a, quality) =
               [gateway       |-> t.gateway,
                access_points |-> [t.access_points EXCEPT ![a] =
                    [t.access_points[a] EXCEPT !.status = "online",
                                               !.backhaul_quality = quality]],
                devices       |-> t.devices]
<1>1. t = [gateway |-> t.gateway, access_points |-> t.access_points, devices |-> t.devices]
  BY DEF IsTopology
<1>. QED
  BY <1>1 DEF Rebooted

\* A signal that is raised is one PostgreSQL can store.
LEMMA SteeredRssiType ==
    ASSUME NEW rssi \in PgInteger
    PROVE  SteeredRssi(rssi) \in PgInteger
<1>1. PgLeast \in Int
  BY DEF PgLeast
<1>. QED
  BY <1>1, ConfigType DEF SteeredRssi, PgInteger

\* A steer onto the target band takes the device off the stuck ones, and nothing
\* else; a steer onto any band there is leaves a home the tables allow.
LEMMA SteerHeals ==
    ASSUME NEW t, IsTopology(t), NEW d \in DOMAIN t.devices, NEW band
    PROVE  LET s == Steered(t, d, band)
           IN  /\ SteerBand(band) \in Bands => IsTopology(s)
               /\ s.gateway = t.gateway
               /\ UnhealthyExtenders(s) = UnhealthyExtenders(t)
               /\ SteerBand(band) = Config.steer_target_band =>
                      StuckDevices(s) = StuckDevices(t) \ {d}
<1> DEFINE s == Steered(t, d, band)
           row == [t.devices[d] EXCEPT !.band = SteerBand(band),
                                       !.rssi = SteeredRssi(t.devices[d].rssi)]
<1>1. /\ s = [gateway |-> t.gateway, access_points |-> t.access_points,
              devices |-> s.devices]
      /\ s.devices = [t.devices EXCEPT ![d] = row]
  <2>1. s = [gateway |-> t.gateway, access_points |-> t.access_points,
             devices |-> [t.devices EXCEPT ![d] = row]]
    BY SteeredRows
  <2>. HIDE DEF s, row
  <2>. QED
    BY <2>1
<1>2. /\ t.devices[d] \in DeviceRow
      /\ row.band = SteerBand(band) /\ row.rssi = SteeredRssi(t.devices[d].rssi)
      /\ row.connected_ap_id = t.devices[d].connected_ap_id
      /\ SteerBand(band) \in Bands => row \in DeviceRow
  <2>1. t.devices[d] \in DeviceRow
    BY DEF IsTopology
  <2>2. SteeredRssi(t.devices[d].rssi) \in PgInteger
    BY <2>1, SteeredRssiType DEF DeviceRow
  <2>. QED
    BY <2>1, <2>2 DEF DeviceRow
<1>. HIDE DEF s, row
<1>3. s.gateway = t.gateway /\ s.access_points = t.access_points
  BY <1>1
<1>4. ASSUME SteerBand(band) \in Bands
      PROVE  IsTopology(s)
  <2>1. s.devices \in [DOMAIN s.devices -> DeviceRow]
    <3>1. \A e \in DOMAIN s.devices : s.devices[e] \in DeviceRow
      BY <1>1, <1>2, <1>4 DEF IsTopology
    <3>. QED
      BY <1>1, <3>1
  <2>2. \A e \in DOMAIN s.devices :
            s.devices[e].connected_ap_id \in DOMAIN s.access_points
    BY <1>1, <1>2, <1>3 DEF IsTopology
  <2>3. s = [gateway |-> s.gateway, access_points |-> s.access_points,
             devices |-> s.devices]
    BY <1>1, <1>3
  <2>. QED
    BY <1>1, <1>3, <2>1, <2>2, <2>3 DEF IsTopology
<1>5. UnhealthyExtenders(s) = UnhealthyExtenders(t)
  BY <1>3 DEF UnhealthyExtenders, Extenders
<1>6. ASSUME SteerBand(band) = Config.steer_target_band
      PROVE  StuckDevices(s) = StuckDevices(t) \ {d}
  <2>1. \A a : BandsOn(s, a) = BandsOn(t, a)
    BY <1>3 DEF BandsOn
  <2>2. \A e \in DOMAIN t.devices \ {d} : e \in StuckDevices(s) <=> e \in StuckDevices(t)
    BY <1>1, <2>1 DEF StuckDevices
  <2>3. d \notin StuckDevices(s)
    BY <1>1, <1>2, <1>6 DEF StuckDevices
  <2>4. StuckDevices(s) \subseteq DOMAIN t.devices /\ StuckDevices(t) \subseteq DOMAIN t.devices
    BY <1>1 DEF StuckDevices
  <2>. QED
    BY <2>2, <2>3, <2>4
<1>. QED
  BY <1>3, <1>4, <1>5, <1>6 DEF s

\* A reboot takes the access point off the unhealthy extenders, and nothing else.
LEMMA RebootHeals ==
    ASSUME NEW t, IsTopology(t), NEW a \in DOMAIN t.access_points,
           NEW quality \in PgInteger, quality > Config.poor_backhaul_quality
    PROVE  LET s == Rebooted(t, a, quality)
           IN  /\ IsTopology(s)
               /\ s.gateway = t.gateway
               /\ StuckDevices(s) = StuckDevices(t)
               /\ UnhealthyExtenders(s) = UnhealthyExtenders(t) \ {a}
<1> DEFINE s == Rebooted(t, a, quality)
           row == [t.access_points[a] EXCEPT !.status = "online",
                                             !.backhaul_quality = quality]
<1>1. /\ s = [gateway |-> t.gateway, access_points |-> s.access_points,
              devices |-> t.devices]
      /\ s.access_points = [t.access_points EXCEPT ![a] = row]
  <2>1. s = [gateway |-> t.gateway,
             access_points |-> [t.access_points EXCEPT ![a] = row],
             devices |-> t.devices]
    BY RebootedRows
  <2>. HIDE DEF s, row
  <2>. QED
    BY <2>1
<1>2. /\ t.access_points[a] \in ApRow /\ row \in ApRow
      /\ row.status = "online" /\ row.backhaul_quality = quality
      /\ row.kind = t.access_points[a].kind /\ row.radios = t.access_points[a].radios
  <2>1. t.access_points[a] \in ApRow
    BY DEF IsTopology
  <2>. QED
    BY <2>1 DEF ApRow, ApStatuses
<1>. HIDE DEF s, row
<1>3. s.gateway = t.gateway /\ s.devices = t.devices
  BY <1>1
<1>4. IsTopology(s)
  <2>1. s.access_points \in [DOMAIN s.access_points -> ApRow]
    <3>1. \A b \in DOMAIN s.access_points : s.access_points[b] \in ApRow
      BY <1>1, <1>2 DEF IsTopology
    <3>. QED
      BY <1>1, <3>1
  <2>2. s = [gateway |-> s.gateway, access_points |-> s.access_points,
             devices |-> s.devices]
    BY <1>1, <1>3
  <2>. QED
    BY <1>1, <1>3, <2>1, <2>2 DEF IsTopology
<1>5. StuckDevices(s) = StuckDevices(t)
  <2>1. \A b : BandsOn(s, b) = BandsOn(t, b)
    BY <1>1, <1>2 DEF BandsOn
  <2>. QED
    BY <1>3, <2>1 DEF StuckDevices
<1>6. UnhealthyExtenders(s) = UnhealthyExtenders(t) \ {a}
  <2>1. Extenders(s) = Extenders(t)
    BY <1>1, <1>2 DEF Extenders
  <2>2. \A b \in DOMAIN t.access_points \ {a} :
            b \in UnhealthyExtenders(s) <=> b \in UnhealthyExtenders(t)
    BY <1>1, <2>1 DEF UnhealthyExtenders
  <2>3. a \notin UnhealthyExtenders(s)
    <3>1. ~ (quality <= Config.poor_backhaul_quality)
      BY ConfigType DEF PgInteger
    <3>. QED
      BY <1>1, <1>2, <3>1, ConfigHeals DEF UnhealthyExtenders
  <2>4. /\ UnhealthyExtenders(s) \subseteq DOMAIN t.access_points
        /\ UnhealthyExtenders(t) \subseteq DOMAIN t.access_points
    BY <2>1 DEF UnhealthyExtenders, Extenders
  <2>. QED
    BY <2>2, <2>3, <2>4
<1>. QED
  BY <1>3, <1>4, <1>5, <1>6 DEF s

\* The verdict names a detected fault, or none.
LEMMA ChosenIsDetected ==
    ASSUME NEW t
    PROVE  ChosenFault(t) \in DetectAll(t) \union {NoFault}
<1> DEFINE prec == Config.fault_precedence
           hits == {i \in DOMAIN prec : prec[i] \in DetectAll(t)}
<1>1. CASE hits = {}
  BY <1>1 DEF ChosenFault
<1>2. CASE hits # {}
  <2>1. hits \in SUBSET Int /\ \A i \in hits : 1 <= i
    BY ConfigType
  <2>2. \E i \in hits : \A j \in hits : i <= j
    <3>. HIDE DEF hits
    <3>. QED
      BY <1>2, <2>1, LeastNumber
  <2>3. (CHOOSE i \in hits : \A j \in hits : i <= j) \in hits
    <3>. HIDE DEF hits
    <3>. QED
      BY <2>2
  <2>4. ChosenFault(t) = prec[CHOOSE i \in hits : \A j \in hits : i <= j]
    BY <1>2 DEF ChosenFault
  <2>. QED
    BY <2>3, <2>4
<1>. QED
  BY <1>1, <1>2

\* The first of some places in the precedence.
LEMMA FirstPlace ==
    ASSUME NEW places \in SUBSET DOMAIN Config.fault_precedence, places # {}
    PROVE  LET first == CHOOSE i \in places : \A j \in places : i <= j
           IN  first \in places /\ \A j \in places : first <= j
<1>1. places \in SUBSET Int /\ 1 \in Int /\ \A i \in places : 1 <= i
  BY ConfigType
<1>2. \E i \in places : \A j \in places : i <= j
  BY <1>1, LeastNumber
<1>. QED
  BY <1>2

\* A fault that a detector finds is in the precedence, so the verdict names one.
LEMMA HealthyIsNoFault ==
    ASSUME NEW t
    PROVE  /\ ChosenFault(t) = NoFault <=> DetectAll(t) = {}
           /\ ChosenFault(t) # NoFault => ChosenFault(t) \in DetectAll(t)
<1> DEFINE prec == Config.fault_precedence
           hits == {i \in DOMAIN prec : prec[i] \in DetectAll(t)}
<1>1. ASSUME DetectAll(t) # {}
      PROVE  ChosenFault(t) \in DetectAll(t)
  <2>1. hits # {}
    BY <1>1, ConfigHeals DEF DetectAll
  <2>2. hits \in SUBSET Int /\ \A i \in hits : 1 <= i
    BY ConfigType
  <2>3. \E i \in hits : \A j \in hits : i <= j
    <3>. HIDE DEF hits
    <3>. QED
      BY <2>1, <2>2, LeastNumber
  <2>4. (CHOOSE i \in hits : \A j \in hits : i <= j) \in hits
    <3>. HIDE DEF hits
    <3>. QED
      BY <2>3
  <2>5. ChosenFault(t) = prec[CHOOSE i \in hits : \A j \in hits : i <= j]
    BY <2>1 DEF ChosenFault
  <2>. QED
    BY <2>4, <2>5
<1>2. NoFault \notin DetectAll(t)
  BY DEF NoFault, DetectAll, Detectors
<1>. QED
  BY <1>1, <1>2, ChosenIsDetected

\* It names a row for each fault.
LEMMA TargetIsFaulty ==
    ASSUME NEW t, IsTopology(t)
    PROVE  /\ StuckDevices(t) # {} => Target(t, "device_band_stuck") \in StuckDevices(t)
           /\ UnhealthyExtenders(t) # {} =>
                  Target(t, "extender_flapping") \in UnhealthyExtenders(t)
           /\ Target(t, ChosenFault(t)) \in Int
<1>1. ASSUME StuckDevices(t) # {}
      PROVE  Target(t, "device_band_stuck") \in StuckDevices(t)
  <2>1. StuckDevices(t) \in SUBSET DOMAIN t.devices
    BY DEF StuckDevices
  <2>. QED
    BY <1>1, <2>1, WeakestIsIn DEF Target
<1>2. ASSUME UnhealthyExtenders(t) # {}
      PROVE  Target(t, "extender_flapping") \in UnhealthyExtenders(t)
  <2>1. UnhealthyExtenders(t) \in SUBSET DOMAIN t.access_points
    BY DEF UnhealthyExtenders, Extenders
  <2>. QED
    BY <1>2, <2>1, WorstBackhaulIsIn DEF Target
<1>3. Target(t, ChosenFault(t)) \in Int
  <2>1. \A x \in StuckDevices(t) \union UnhealthyExtenders(t) : x \in Int
    BY DEF StuckDevices, UnhealthyExtenders, Extenders, IsTopology
  <2>2. CASE ChosenFault(t) = "wan_degraded"
    BY <2>2 DEF Target, GatewayId
  <2>3. CASE ChosenFault(t) = "device_band_stuck"
    BY <1>1, <2>1, <2>3, ChosenIsDetected DEF DetectAll, NoFault
  <2>4. CASE ChosenFault(t) = "extender_flapping"
    BY <1>2, <2>1, <2>4, ChosenIsDetected DEF DetectAll, NoFault
  <2>5. CASE ChosenFault(t) = NoFault
    BY <2>5 DEF Target, NoTarget, NoFault
  <2>. QED
    BY <2>2, <2>3, <2>4, <2>5, ChosenIsDetected DEF DetectAll, Detectors
<1>. QED
  BY <1>1, <1>2, <1>3

\* A reboot brings the backhaul above the threshold of the detector.
LEMMA RebootVerbs ==
    ASSUME NEW t, IsTopology(t), NEW target, NEW verb \in {"reboot-extender", "reboot-ap"}
    PROVE  LET o == RunVerb(t, verb, target, NoBand)
           IN  /\ o.ok => target \in DOMAIN t.access_points
               /\ o.ok => \E quality \in PgInteger :
                             /\ quality > Config.poor_backhaul_quality
                             /\ o.topology = Rebooted(t, target, quality)
               /\ ~o.ok => o.topology = t
               /\ target \in Extenders(t) => o.ok
<1> DEFINE healthy == Config.healthy_backhaul_quality
           was == t.access_points[target].backhaul_quality
<1>1. /\ healthy \in PgInteger /\ healthy > Config.poor_backhaul_quality
      /\ healthy \in Int /\ Config.poor_backhaul_quality \in Int
  BY ConfigType, ConfigHeals DEF PgInteger
<1>2. CASE verb = "reboot-extender"
  <2>1. RunVerb(t, verb, target, NoBand) = RebootExtender(t, target)
    BY <1>2 DEF RunVerb, Verbs
  <2>2. CASE target \in Extenders(t)
    BY <1>1, <2>1, <2>2 DEF RebootExtender, Accepted, Extenders
  <2>3. CASE target \notin Extenders(t)
    BY <2>1, <2>3 DEF RebootExtender, Refused, Extenders
  <2>. QED
    BY <2>2, <2>3
<1>3. CASE verb = "reboot-ap"
  <2>1. CASE target \notin DOMAIN t.access_points
    BY <1>3, <2>1 DEF RunVerb, RebootAp, Refused, Extenders, Verbs
  <2>2. CASE target \in DOMAIN t.access_points
    <3>1. was \in PgInteger /\ was \in Int
      BY <2>2 DEF IsTopology, ApRow, PgInteger
    <3> DEFINE quality == IF was >= healthy THEN was ELSE healthy
    <3>2. quality \in PgInteger /\ quality > Config.poor_backhaul_quality
      BY <1>1, <3>1
    <3>3. RunVerb(t, verb, target, NoBand) = Accepted(Rebooted(t, target, quality))
      BY <1>3, <2>2 DEF RunVerb, RebootAp, Verbs
    <3>. HIDE DEF quality
    <3>. QED
      BY <2>2, <3>2, <3>3 DEF Accepted
  <2>. QED
    BY <2>1, <2>2
<1>. QED
  BY <1>2, <1>3

\* The rows after a steer: one device has another band and signal.
LEMMA SteerWrites ==
    ASSUME NEW t, IsTopology(t), NEW d \in DOMAIN t.devices, NEW band
    PROVE  LET s == Steered(t, d, band)
           IN  /\ s.gateway = t.gateway /\ s.access_points = t.access_points
               /\ DOMAIN s.devices = DOMAIN t.devices
               /\ \A e \in DOMAIN t.devices : e # d => s.devices[e] = t.devices[e]
               /\ s.devices[d].band = SteerBand(band)
               /\ s.devices[d].rssi = SteeredRssi(t.devices[d].rssi)
               /\ s.devices[d].connected_ap_id = t.devices[d].connected_ap_id
               /\ s.devices[d].steer_eligible = t.devices[d].steer_eligible
<1> DEFINE s == Steered(t, d, band)
           row == [t.devices[d] EXCEPT !.band = SteerBand(band),
                                       !.rssi = SteeredRssi(t.devices[d].rssi)]
<1>1. s = [gateway |-> t.gateway, access_points |-> t.access_points,
           devices |-> [t.devices EXCEPT ![d] = row]]
  BY SteeredRows
<1>2. t.devices[d] \in DeviceRow
  BY DEF IsTopology
<1>3. /\ row.band = SteerBand(band) /\ row.rssi = SteeredRssi(t.devices[d].rssi)
      /\ row.connected_ap_id = t.devices[d].connected_ap_id
      /\ row.steer_eligible = t.devices[d].steer_eligible
  BY <1>2 DEF DeviceRow
<1>. HIDE DEF s, row
<1>4. /\ s.gateway = t.gateway /\ s.access_points = t.access_points
      /\ s.devices = [t.devices EXCEPT ![d] = row]
  BY <1>1
<1>5. /\ DOMAIN s.devices = DOMAIN t.devices /\ s.devices[d] = row
      /\ \A e \in DOMAIN t.devices : e # d => s.devices[e] = t.devices[e]
  BY <1>4
<1>. QED
  BY <1>3, <1>4, <1>5 DEF s

\* The rows after a reboot: one access point has another status and backhaul.
LEMMA RebootWrites ==
    ASSUME NEW t, IsTopology(t), NEW a \in DOMAIN t.access_points, NEW quality
    PROVE  LET s == Rebooted(t, a, quality)
           IN  /\ s.gateway = t.gateway /\ s.devices = t.devices
               /\ DOMAIN s.access_points = DOMAIN t.access_points
               /\ \A b \in DOMAIN t.access_points : b # a =>
                      s.access_points[b] = t.access_points[b]
               /\ s.access_points[a].status = "online"
               /\ s.access_points[a].backhaul_quality = quality
               /\ s.access_points[a].kind = t.access_points[a].kind
               /\ s.access_points[a].radios = t.access_points[a].radios
<1> DEFINE s == Rebooted(t, a, quality)
           row == [t.access_points[a] EXCEPT !.status = "online",
                                             !.backhaul_quality = quality]
<1>1. s = [gateway |-> t.gateway, access_points |-> [t.access_points EXCEPT ![a] = row],
           devices |-> t.devices]
  BY RebootedRows
<1>2. t.access_points[a] \in ApRow
  BY DEF IsTopology
<1>3. /\ row.status = "online" /\ row.backhaul_quality = quality
      /\ row.kind = t.access_points[a].kind /\ row.radios = t.access_points[a].radios
  BY <1>2 DEF ApRow
<1>. HIDE DEF s, row
<1>4. /\ s.gateway = t.gateway /\ s.devices = t.devices
      /\ s.access_points = [t.access_points EXCEPT ![a] = row]
  BY <1>1
<1>5. /\ DOMAIN s.access_points = DOMAIN t.access_points /\ s.access_points[a] = row
      /\ \A b \in DOMAIN t.access_points : b # a => s.access_points[b] = t.access_points[b]
  BY <1>4
<1>. QED
  BY <1>3, <1>4, <1>5 DEF s

\* No verb adds or removes a row, or writes a column other than band, signal,
\* status and backhaul.
LEMMA ActionKeepsColumns ==
    ASSUME NEW t, IsTopology(t), NEW verb, NEW target, NEW band
    PROVE  LET r == DeviceAction(t, verb, target, band).topology
           IN  /\ DOMAIN r.devices = DOMAIN t.devices
               /\ DOMAIN r.access_points = DOMAIN t.access_points
               /\ \A a \in DOMAIN t.access_points :
                      /\ r.access_points[a].kind = t.access_points[a].kind
                      /\ r.access_points[a].radios = t.access_points[a].radios
               /\ \A d \in DOMAIN t.devices :
                      /\ r.devices[d].connected_ap_id = t.devices[d].connected_ap_id
                      /\ r.devices[d].steer_eligible = t.devices[d].steer_eligible
<1> DEFINE r == DeviceAction(t, verb, target, band).topology
<1>1. \/ r = t
      \/ r = BandSteer(t, target, band).topology
      \/ verb \in {"reboot-extender", "reboot-ap"}
             /\ r = RunVerb(t, verb, target, NoBand).topology
  BY DEF DeviceAction, RunVerb, Refused, Verbs
<1>2. \/ r = t
      \/ target \in DOMAIN t.devices /\ r = Steered(t, target, band)
      \/ target \in DOMAIN t.access_points /\ \E quality : r = Rebooted(t, target, quality)
  <2>1. ASSUME r = BandSteer(t, target, band).topology, r # t
        PROVE  target \in DOMAIN t.devices /\ r = Steered(t, target, band)
    BY <2>1 DEF BandSteer, Refused, Accepted
  <2>2. ASSUME NEW v \in {"reboot-extender", "reboot-ap"},
               r = RunVerb(t, v, target, NoBand).topology, r # t
        PROVE  target \in DOMAIN t.access_points /\ \E quality : r = Rebooted(t, target, quality)
    <3>. HIDE DEF r
    <3>. QED
      BY <2>2, RebootVerbs
  <2>. HIDE DEF r
  <2>. QED
    BY <1>1, <2>1, <2>2
<1>. HIDE DEF r
<1>3. CASE r = t
  BY <1>3 DEF r
<1>4. CASE target \in DOMAIN t.devices /\ r = Steered(t, target, band)
  <2>1. /\ r.access_points = t.access_points /\ DOMAIN r.devices = DOMAIN t.devices
        /\ \A e \in DOMAIN t.devices : e # target => r.devices[e] = t.devices[e]
        /\ r.devices[target].connected_ap_id = t.devices[target].connected_ap_id
        /\ r.devices[target].steer_eligible = t.devices[target].steer_eligible
    BY <1>4, SteerWrites
  <2>. QED
    BY <2>1 DEF r
<1>5. CASE target \in DOMAIN t.access_points /\ \E quality : r = Rebooted(t, target, quality)
  <2>1. PICK quality : r = Rebooted(t, target, quality)
    BY <1>5
  <2>2. /\ r.devices = t.devices /\ DOMAIN r.access_points = DOMAIN t.access_points
        /\ \A a \in DOMAIN t.access_points : a # target => r.access_points[a] = t.access_points[a]
        /\ r.access_points[target].kind = t.access_points[target].kind
        /\ r.access_points[target].radios = t.access_points[target].radios
    BY <1>5, <2>1, RebootWrites
  <2>. QED
    BY <2>2 DEF r
<1>. QED
  BY <1>2, <1>3, <1>4, <1>5

\* No verb makes a healthy row faulty, provided it steers onto the target band;
\* whatever it is sent, it leaves a home the tables allow, and the gateway alone.
LEMMA ActionHeals ==
    ASSUME NEW t, IsTopology(t), NEW verb, NEW target, NEW band
    PROVE  LET r == DeviceAction(t, verb, target, band).topology
           IN  /\ IsTopology(r)
               /\ r.gateway = t.gateway
               /\ UnhealthyExtenders(r) \subseteq UnhealthyExtenders(t)
               /\ SteerBand(band) = Config.steer_target_band =>
                      StuckDevices(r) \subseteq StuckDevices(t)
<1> DEFINE r == DeviceAction(t, verb, target, band).topology
<1>1. \/ r = t
      \/ verb = "band-steer" /\ r = BandSteer(t, target, band).topology
      \/ verb \in {"reboot-extender", "reboot-ap"}
             /\ r = RunVerb(t, verb, target, NoBand).topology
  BY DEF DeviceAction, RunVerb, Refused, Verbs
<1>. HIDE DEF r
<1>2. ASSUME r = BandSteer(t, target, band).topology, r # t
      PROVE  /\ IsTopology(r) /\ r.gateway = t.gateway
             /\ UnhealthyExtenders(r) \subseteq UnhealthyExtenders(t)
             /\ SteerBand(band) = Config.steer_target_band =>
                      StuckDevices(r) \subseteq StuckDevices(t)
  <2>1. /\ target \in DOMAIN t.devices
        /\ SteerBand(band) \in BandsOn(t, t.devices[target].connected_ap_id)
        /\ r = Steered(t, target, band)
    BY <1>2 DEF BandSteer, Refused, Accepted
  <2>2. SteerBand(band) \in Bands
    BY <2>1 DEF BandsOn, IsTopology, ApRow
  <2>. QED
    BY <2>1, <2>2, SteerHeals
<1>3. ASSUME NEW v \in {"reboot-extender", "reboot-ap"},
             r = RunVerb(t, v, target, NoBand).topology, r # t
      PROVE  /\ IsTopology(r) /\ r.gateway = t.gateway
             /\ UnhealthyExtenders(r) \subseteq UnhealthyExtenders(t)
             /\ StuckDevices(r) \subseteq StuckDevices(t)
  <2>1. /\ target \in DOMAIN t.access_points
        /\ \E quality \in PgInteger : /\ quality > Config.poor_backhaul_quality
                                       /\ r = Rebooted(t, target, quality)
    BY <1>3, RebootVerbs
  <2>. QED
    BY <2>1, RebootHeals
<1>4. /\ IsTopology(r) /\ r.gateway = t.gateway
      /\ UnhealthyExtenders(r) \subseteq UnhealthyExtenders(t)
      /\ SteerBand(band) = Config.steer_target_band =>
             StuckDevices(r) \subseteq StuckDevices(t)
  <2>1. CASE r = t
    BY <2>1
  <2>2. CASE r # t
    BY <1>1, <1>2, <1>3, <2>2
  <2>. QED
    BY <2>1, <2>2
<1>. QED
  BY <1>4 DEF r

\* Fewer faulty rows and the same gateway: no new fault type.
LEMMA FewerFaults ==
    ASSUME NEW t, NEW r, r.gateway = t.gateway,
           StuckDevices(r) \subseteq StuckDevices(t),
           UnhealthyExtenders(r) \subseteq UnhealthyExtenders(t)
    PROVE  DetectAll(r) \subseteq DetectAll(t)
BY DEF DetectAll, WanDegraded

\* The verb a verdict recommends accepts its target and mends it.
LEMMA RemedyWorks ==
    ASSUME NEW t, IsTopology(t), Recommended(ChosenFault(t)) \in Verbs
    PROVE  LET target == Target(t, ChosenFault(t))
               reply  == DeviceAction(t, Recommended(ChosenFault(t)), target, NoBand)
               r      == reply.topology
           IN  /\ reply.ok
               /\ target \notin StuckDevices(r) \union UnhealthyExtenders(r)
               /\ StuckDevices(r) \union UnhealthyExtenders(r)
                      \subseteq (StuckDevices(t) \union UnhealthyExtenders(t)) \ {target}
<1> DEFINE f == ChosenFault(t)
           target == Target(t, f)
           reply == DeviceAction(t, Recommended(f), target, NoBand)
           r == reply.topology
<1>1. /\ StuckDevices(t) \subseteq DOMAIN t.devices
      /\ UnhealthyExtenders(t) \subseteq DOMAIN t.access_points
      /\ DOMAIN t.devices \intersect DOMAIN t.access_points = {}
  BY DEF StuckDevices, UnhealthyExtenders, Extenders, IsTopology
<1>2. CASE f = "device_band_stuck"
  <2>1. Recommended(f) = "band-steer"
    BY <1>2, ConfigActs
  <2>2. target \in StuckDevices(t)
    BY <1>2, ChosenIsDetected, TargetIsFaulty DEF DetectAll, NoFault
  <2>3. SteerBand(NoBand) = Config.steer_target_band
    BY DEF SteerBand
  <2>4. /\ target \in DOMAIN t.devices /\ t.devices[target].steer_eligible
        /\ t.devices[target].band # SteerBand(NoBand)
        /\ SteerBand(NoBand) \in BandsOn(t, t.devices[target].connected_ap_id)
    BY <2>2, <2>3 DEF StuckDevices
  <2>. HIDE DEF f, target
  <2>5. ~IsEmpty(t)
    BY <2>4 DEF IsEmpty
  <2>6. reply.ok /\ r = Steered(t, target, NoBand)
    BY <2>1, <2>4, <2>5 DEF DeviceAction, RunVerb, BandSteer, Accepted, Verbs
  <2>7. /\ StuckDevices(r) = StuckDevices(t) \ {target}
        /\ UnhealthyExtenders(r) = UnhealthyExtenders(t)
    BY <2>3, <2>4, <2>6, SteerHeals
  <2>. HIDE DEF r, reply
  <2>8. target \notin UnhealthyExtenders(t)
    BY <1>1, <2>4
  <2>9. /\ reply.ok
        /\ target \notin StuckDevices(r) \union UnhealthyExtenders(r)
        /\ StuckDevices(r) \union UnhealthyExtenders(r)
               \subseteq (StuckDevices(t) \union UnhealthyExtenders(t)) \ {target}
    BY <2>6, <2>7, <2>8
  <2>. QED
    BY <2>9 DEF f, target, r, reply
<1>3. CASE f = "extender_flapping"
  <2>1. Recommended(f) \in {"reboot-extender", "reboot-ap"}
    BY <1>3, ConfigActs
  <2>2. target \in UnhealthyExtenders(t) /\ target \in Extenders(t)
    <3>1. target \in UnhealthyExtenders(t)
      BY <1>3, ChosenIsDetected, TargetIsFaulty DEF DetectAll, NoFault
    <3>. QED
      BY <3>1 DEF UnhealthyExtenders
  <2>. HIDE DEF f, target
  <2>3. ~IsEmpty(t)
    BY <2>2 DEF IsEmpty, Extenders
  <2>4. /\ reply.ok = RunVerb(t, Recommended(f), target, NoBand).ok
        /\ r = RunVerb(t, Recommended(f), target, NoBand).topology
    BY <2>3 DEF DeviceAction
  <2>5. /\ reply.ok
        /\ target \in DOMAIN t.access_points
        /\ \E quality \in PgInteger : /\ quality > Config.poor_backhaul_quality
                                       /\ r = Rebooted(t, target, quality)
    BY <2>1, <2>2, <2>4, RebootVerbs
  <2>6. /\ StuckDevices(r) = StuckDevices(t)
        /\ UnhealthyExtenders(r) = UnhealthyExtenders(t) \ {target}
    BY <2>5, RebootHeals
  <2>. HIDE DEF r, reply
  <2>7. target \notin StuckDevices(t)
    BY <1>1, <2>5
  <2>8. /\ reply.ok
        /\ target \notin StuckDevices(r) \union UnhealthyExtenders(r)
        /\ StuckDevices(r) \union UnhealthyExtenders(r)
               \subseteq (StuckDevices(t) \union UnhealthyExtenders(t)) \ {target}
    BY <2>5, <2>6, <2>7
  <2>. QED
    BY <2>8 DEF f, target, r, reply
<1>4. f \in {"device_band_stuck", "extender_flapping"}
  BY ChosenIsDetected, ConfigActs DEF DetectAll, Detectors
<1>. QED
  BY <1>2, <1>3, <1>4
=============================================================================
