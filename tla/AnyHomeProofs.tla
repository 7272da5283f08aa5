---------------------------- MODULE AnyHomeProofs ----------------------------
(****************************************************************************)
(* Every home a pack could seed, any number of verbs: what AnyHome checks   *)
(* over a few thousand homes, for all of them and under any configuration.  *)
(****************************************************************************)
EXTENDS AnyHome, DeviceActionsProofs

\* The home is a topology and the verbs so far are paid for by rows mended.
HomeInv == TypeOK /\ EachStepMendsOne

\* Finitely many rows, so finitely many faulty ones.
LEMMA FaultyIsFinite ==
    ASSUME NEW t, IsTopology(t)
    PROVE  IsFiniteSet(Faulty(t)) /\ Cardinality(Faulty(t)) \in Nat
<1>1. /\ IsFiniteSet(DOMAIN t.devices) /\ IsFiniteSet(DOMAIN t.access_points)
      /\ StuckDevices(t) \subseteq DOMAIN t.devices
      /\ UnhealthyExtenders(t) \subseteq DOMAIN t.access_points
  BY DEF IsTopology, StuckDevices, UnhealthyExtenders, Extenders
<1>2. IsFiniteSet(StuckDevices(t)) /\ IsFiniteSet(UnhealthyExtenders(t))
  BY <1>1, FS_Subset
<1>3. IsFiniteSet(Faulty(t))
  BY <1>2, FS_Union DEF Faulty
<1>. QED
  BY <1>3, FS_CardinalityType

\* A verb the verdict recommends removes its target from the faulty rows.
LEMMA VerdictMends ==
    ASSUME NEW t, IsTopology(t), Recommended(ChosenFault(t)) \in Verbs
    PROVE  LET target == Target(t, ChosenFault(t))
               r == DeviceAction(t, Recommended(ChosenFault(t)), target, NoBand).topology
           IN  /\ IsTopology(r)
               /\ Cardinality(Faulty(r)) + 1 <= Cardinality(Faulty(t))
<1> DEFINE f == ChosenFault(t)
           target == Target(t, f)
           r == DeviceAction(t, Recommended(f), target, NoBand).topology
<1>1. IsTopology(r)
  BY ActionHeals
<1>2. Faulty(r) \subseteq Faulty(t) \ {target}
  BY RemedyWorks DEF Faulty
<1>3. target \in Faulty(t)
  <2>1. f \in {"device_band_stuck", "extender_flapping"}
    BY ChosenIsDetected, ConfigActs DEF DetectAll, Detectors
  <2>2. f \in DetectAll(t)
    BY <2>1, ChosenIsDetected DEF NoFault
  <2>3. CASE f = "device_band_stuck"
    <3>1. StuckDevices(t) # {}
      BY <2>2, <2>3 DEF DetectAll
    <3>. QED
      BY <2>3, <3>1, TargetIsFaulty DEF Faulty
  <2>4. CASE f = "extender_flapping"
    <3>1. UnhealthyExtenders(t) # {}
      BY <2>2, <2>4 DEF DetectAll
    <3>. QED
      BY <2>4, <3>1, TargetIsFaulty DEF Faulty
  <2>. QED
    BY <2>1, <2>3, <2>4
<1>. HIDE DEF r, target
<1>4. /\ IsFiniteSet(Faulty(t) \ {target})
      /\ Cardinality(Faulty(t) \ {target}) = Cardinality(Faulty(t)) - 1
  BY <1>3, FaultyIsFinite, FS_RemoveElement
<1>5. Cardinality(Faulty(r)) <= Cardinality(Faulty(t) \ {target})
  BY <1>2, <1>4, FS_Subset
<1>6. Cardinality(Faulty(t)) \in Nat /\ Cardinality(Faulty(r)) \in Nat
  BY <1>1, FaultyIsFinite
<1>. QED
  BY <1>1, <1>4, <1>5, <1>6 DEF r, target

\* What a step does: it runs the verb that the verdict of this home names.
LEMMA StepRunsVerdict ==
    ASSUME Next
    PROVE  /\ Recommended(ChosenFault(home)) \in Verbs
           /\ home' = DeviceAction(home, Recommended(ChosenFault(home)),
                                   Target(home, ChosenFault(home)), NoBand).topology
           /\ steps < MaxSteps /\ steps' = steps + 1 /\ start' = start
<1>1. PICK v \in {BuildVerdict(home)} :
          /\ v.recommended_action \in Verbs
          /\ steps < MaxSteps
          /\ home' = DeviceAction(home, v.recommended_action, v.primary_target, NoBand).topology
          /\ steps' = steps + 1
          /\ UNCHANGED start
  BY DEF Next, FollowVerdict
<1>2. v = BuildVerdict(home)
  OBVIOUS
<1>3. /\ BuildVerdict(home).recommended_action = Recommended(ChosenFault(home))
      /\ BuildVerdict(home).primary_target = Target(home, ChosenFault(home))
  BY DEF BuildVerdict
<1>. QED
  BY <1>1, <1>2, <1>3

LEMMA InitHome == Init => HomeInv
<1>. SUFFICES ASSUME Init PROVE HomeInv
  OBVIOUS
<1>1. IsTopology(home) /\ start = home /\ steps = 0
  BY HomesAreTopologies DEF Init
<1>2. Cardinality(Faulty(home)) \in Nat
  BY <1>1, FaultyIsFinite
<1>. QED
  BY <1>1, <1>2, HomesAreTopologies DEF HomeInv, TypeOK, EachStepMendsOne

LEMMA StepHome == HomeInv /\ [Next]_vars => HomeInv'
<1>. SUFFICES ASSUME HomeInv, [Next]_vars PROVE HomeInv'
  OBVIOUS
<1>1. CASE Next
  <2> DEFINE was == Cardinality(Faulty(home))
             is  == Cardinality(Faulty(home'))
             atFirst == Cardinality(Faulty(start))
  <2>1. IsTopology(start) /\ IsTopology(home) /\ steps \in 0..MaxSteps
    BY DEF HomeInv, TypeOK
  <2>2. IsTopology(home') /\ is + 1 <= was
    BY <1>1, <2>1, StepRunsVerdict, VerdictMends
  <2>3. was \in Nat /\ is \in Nat /\ atFirst \in Nat
    BY <2>1, <2>2, FaultyIsFinite
  <2>4. steps + was <= atFirst
    BY DEF HomeInv, EachStepMendsOne
  <2>5. start' = start /\ steps' = steps + 1 /\ steps' \in 0..MaxSteps
    BY <1>1, <2>1, StepRunsVerdict, HomesAreTopologies
  <2>6. steps' + is <= atFirst
    <3>. HIDE DEF was, is, atFirst
    <3>. QED
      BY <2>1, <2>2, <2>3, <2>4, <2>5
  <2>7. TypeOK'
    BY <2>1, <2>2, <2>5 DEF TypeOK
  <2>8. EachStepMendsOne'
    BY <2>5, <2>6 DEF EachStepMendsOne
  <2>. QED
    BY <2>7, <2>8 DEF HomeInv
<1>2. CASE UNCHANGED vars
  BY <1>2 DEF vars, HomeInv, TypeOK, EachStepMendsOne
<1>. QED
  BY <1>1, <1>2

THEOREM HomeInvariance == Spec => []HomeInv
<1>. QED
  BY InitHome, StepHome, PTL DEF Spec

\* Following the verdict keeps a home that the tables' constraints allow.
THEOREM HomeTypes == Spec => []TypeOK
<1>1. HomeInv => TypeOK
  BY DEF HomeInv
<1>. QED
  BY <1>1, HomeInvariance, PTL

\* No home needs more verbs than it had faulty rows: every recommended verb mends
\* one row and breaks none, for every home and every configuration.
THEOREM VerbsAreBounded == Spec => []EachStepMendsOne
<1>1. HomeInv => EachStepMendsOne
  BY DEF HomeInv
<1>. QED
  BY <1>1, HomeInvariance, PTL

----------------------------------------------------------------------------
\* The phrase of a device says weak and slow exactly if both thresholds say so.
LEMMA WeakAndSlow ==
    ASSUME NEW band, NEW rssi
    PROVE  StatusSummary(band, rssi) = "weak signal on the slower band" <=>
               rssi <= Config.poor_rssi_dbm /\ band # Config.steer_target_band
<1> DEFINE weak == rssi <= Config.poor_rssi_dbm
           slow == band # Config.steer_target_band
<1>1. CASE weak /\ slow
  BY <1>1, Zenon DEF StatusSummary
<1>2. CASE weak /\ ~slow
  <2>1. StatusSummary(band, rssi) = "weak signal"
    BY <1>2, Zenon DEF StatusSummary
  <2>. QED
    BY <1>2, <2>1
<1>3. CASE ~weak /\ slow
  <2>1. StatusSummary(band, rssi) = "connected on the slower band"
    BY <1>3, Zenon DEF StatusSummary
  <2>. QED
    BY <1>3, <2>1
<1>4. CASE ~weak /\ ~slow
  <2>1. StatusSummary(band, rssi) = "good signal on the faster band"
    BY <1>4, Zenon DEF StatusSummary
  <2>. QED
    BY <1>4, <2>1
<1>. QED
  BY <1>1, <1>2, <1>3, <1>4

LEMMA PhraseAgrees == TypeOK => SpeechAgreesWithVerdict
<1>. SUFFICES ASSUME TypeOK PROVE SpeechAgreesWithVerdict
  OBVIOUS
<1> DEFINE phrase(d) == StatusSummary(home.devices[d].band, home.devices[d].rssi)
           verdict == BuildVerdict(home)
           weakSlow == "weak signal on the slower band"
<1>1. IsTopology(home)
  BY DEF TypeOK
<1>2. /\ verdict.fault_type = ChosenFault(home)
      /\ verdict.primary_target = Target(home, ChosenFault(home))
  BY DEF BuildVerdict
<1>3. ASSUME verdict.fault_type = "device_band_stuck"
      PROVE  phrase(verdict.primary_target) = weakSlow
  <2>1. StuckDevices(home) # {}
    BY <1>2, <1>3, ChosenIsDetected DEF DetectAll, NoFault
  <2>2. verdict.primary_target \in StuckDevices(home)
    BY <1>1, <1>2, <1>3, <2>1, TargetIsFaulty
  <2>. QED
    BY <2>2, WeakAndSlow DEF StuckDevices
<1>4. ASSUME NEW d \in DOMAIN home.devices,
             phrase(d) = weakSlow,
             home.devices[d].steer_eligible,
             Config.steer_target_band \in BandsOn(home, home.devices[d].connected_ap_id)
      PROVE  verdict.fault_type # NoFault
  <2>1. d \in StuckDevices(home)
    BY <1>4, WeakAndSlow DEF StuckDevices
  <2>2. DetectAll(home) # {}
    BY <2>1 DEF DetectAll, Detectors
  <2>. QED
    BY <1>2, <2>2, HealthyIsNoFault
<1>. QED
  BY <1>3, <1>4 DEF SpeechAgreesWithVerdict

\* What the agent says of a device never disagrees with the verdict: the stuck device
\* it names sounds weak and slow, and one that sounds so and could be steered is
\* never in a home reported healthy.
THEOREM SpeechIsTheVerdict == Spec => []SpeechAgreesWithVerdict
<1>. QED
  BY HomeTypes, PhraseAgrees, PTL

----------------------------------------------------------------------------
\* A finite set has a subset of every size up to its own.
LEMMA SubsetOfSize ==
    ASSUME NEW S, IsFiniteSet(S), NEW n \in Nat, n <= Cardinality(S)
    PROVE  \E T \in SUBSET S : Cardinality(T) = n
<1> DEFINE Large == {T \in SUBSET S : Cardinality(T) >= n}
           Smaller == StrictSubsetOrdering(S)
<1>1. \A T \in SUBSET S : IsFiniteSet(T) /\ Cardinality(T) \in Nat
  BY FS_Subset, FS_CardinalityType
<1>2. Large \subseteq FiniteSubsetsOf(S) /\ S \in Large
  <2>1. Cardinality(S) >= n
    BY <1>1
  <2>. QED
    BY <1>1, <2>1 DEF FiniteSubsetsOf
<1>3. PICK T \in Large : \A U \in Large : ~ (<<U, T>> \in Smaller)
  <2>1. IsWellFoundedOn(Smaller, FiniteSubsetsOf(S))
    BY FS_StrictSubsetOrderingWellFounded
  <2>. HIDE DEF Large, Smaller
  <2>. QED
    BY <1>2, <2>1, WFMin
<1>4. ASSUME Cardinality(T) # n
      PROVE  FALSE
  <2>1. T \in SUBSET S /\ Cardinality(T) \in Nat /\ Cardinality(T) > n
    BY <1>1, <1>3, <1>4
  <2>2. T # {}
    BY <2>1, FS_EmptySet
  <2>3. PICK x \in T : TRUE
    BY <2>2
  <2>4. Cardinality(T \ {x}) = Cardinality(T) - 1
    BY <1>1, <2>1, <2>3, FS_RemoveElement
  <2>5. T \ {x} \in Large
    BY <2>1, <2>4
  <2>6. <<T \ {x}, T>> \in Smaller
    <3>1. T \ {x} \subseteq T /\ x \in T /\ T \ {x} \in SUBSET S /\ T \in SUBSET S
      BY <2>1, <2>3
    <3>. QED
      BY <3>1 DEF StrictSubsetOrdering
  <2>. QED
    BY <1>3, <2>5, <2>6
<1>. QED
  BY <1>3, <1>4

\* The devices of an access point, and those of them at the edge, are rows.
LEMMA DevicesAreRows ==
    ASSUME NEW t, IsTopology(t), NEW a
    PROVE  /\ EdgeOn(t, a) \subseteq OnAp(t, a) /\ OnAp(t, a) \subseteq DOMAIN t.devices
           /\ IsFiniteSet(EdgeOn(t, a)) /\ IsFiniteSet(OnAp(t, a))
           /\ Cardinality(EdgeOn(t, a)) \in Nat
           /\ Cardinality(EdgeOn(t, a)) <= Cardinality(DOMAIN t.devices)
           /\ Cardinality(EdgeOn(t, a)) = 0 <=> EdgeOn(t, a) = {}
           /\ Cardinality(DOMAIN t.devices) \in Nat
<1>1. EdgeOn(t, a) \subseteq OnAp(t, a) /\ OnAp(t, a) \subseteq DOMAIN t.devices
  BY DEF EdgeOn, OnAp
<1>2. IsFiniteSet(DOMAIN t.devices)
  BY DEF IsTopology
<1>. QED
  BY <1>1, <1>2, FS_Subset, FS_CardinalityType, FS_EmptySet

\* Python's max and min over dictionaries: the first of the best, by a first and a
\* second key, in the order in which the extenders' devices come.
LEMMA FirstOfTheBest ==
    ASSUME NEW t, IsTopology(t), NEW A, A # {},
           NEW first \in [A -> Int], NEW second \in [A -> Int],
           NEW b \in Int, \A a \in A : b <= first[a] /\ b <= second[a],
           \A a \in A : OnAp(t, a) # {}
    PROVE  \E a \in A : \A c \in A :
               \/ first[a] < first[c]
               \/ first[a] = first[c] /\ second[a] < second[c]
               \/ first[a] = first[c] /\ second[a] = second[c] /\ SeenBefore(t, a, c)
<1>1. PICK m \in A : \A c \in A : first[m] <= first[c]
  <2> DEFINE Keys == {first[a] : a \in A}
  <2>1. Keys \in SUBSET Int /\ Keys # {} /\ \A k \in Keys : b <= k
    OBVIOUS
  <2>2. PICK k \in Keys : \A l \in Keys : k <= l
    <3>. HIDE DEF Keys
    <3>. QED
      BY <2>1, LeastNumber
  <2>. QED
    BY <2>2
<1> DEFINE A1 == {a \in A : first[a] = first[m]}
<1>2. PICK m2 \in A1 : \A c \in A1 : second[m2] <= second[c]
  <2> DEFINE Keys == {second[a] : a \in A1}
  <2>1. Keys \in SUBSET Int /\ Keys # {} /\ \A k \in Keys : b <= k
    OBVIOUS
  <2>2. PICK k \in Keys : \A l \in Keys : k <= l
    <3>. HIDE DEF Keys
    <3>. QED
      BY <2>1, LeastNumber
  <2>. QED
    BY <2>2
<1> DEFINE A2 == {a \in A1 : second[a] = second[m2]}
           D == UNION {OnAp(t, a) : a \in A2}
<1>3. D \in SUBSET Int /\ D # {} /\ \A d \in D : 0 <= d
  <2>1. DOMAIN t.devices \subseteq Nat
    BY DEF IsTopology
  <2>2. \A a \in A2 : OnAp(t, a) \subseteq Nat
    BY <2>1, DevicesAreRows
  <2>3. m2 \in A2 /\ OnAp(t, m2) # {}
    BY <1>2
  <2>4. D \subseteq Nat /\ D # {}
    <3>. HIDE DEF A2
    <3>. QED
      BY <2>2, <2>3
  <2>. HIDE DEF D
  <2>. QED
    BY <2>4
<1>4. PICK d \in D : \A e \in D : d <= e
  <2>. HIDE DEF D
  <2>. QED
    BY <1>3, LeastNumber
<1>5. PICK a \in A2 : d \in OnAp(t, a)
  BY <1>4
<1>6. \A c \in A2 : SeenBefore(t, a, c)
  <2>. HIDE DEF A2
  <2>. QED
    BY <1>4, <1>5 DEF SeenBefore
<1>7. ASSUME NEW c \in A
      PROVE  \/ first[a] < first[c]
             \/ first[a] = first[c] /\ second[a] < second[c]
             \/ first[a] = first[c] /\ second[a] = second[c] /\ SeenBefore(t, a, c)
  <2>1. a \in A /\ first[a] = first[m] /\ second[a] = second[m2]
    BY <1>5
  <2>2. first[a] \in Int /\ first[c] \in Int /\ second[a] \in Int /\ second[c] \in Int
    BY <2>1
  <2>3. first[a] <= first[c]
    BY <1>1, <2>1
  <2>4. first[a] = first[c] => second[a] <= second[c]
    BY <1>2, <2>1
  <2>5. first[a] = first[c] /\ second[a] = second[c] => SeenBefore(t, a, c)
    BY <1>6, <2>1
  <2>. QED
    BY <2>2, <2>3, <2>4, <2>5
<1>. QED
  BY <1>5, <1>7

\* The readout of a weak home names an extender that carries a device.
LEMMA WorstAreaIsHit ==
    ASSUME NEW t, IsTopology(t), CoverageIsWeak(t)
    PROVE  WorstArea(t) \in Extenders(t) /\ OnAp(t, WorstArea(t)) # {}
<1> DEFINE hits == ClusterHits(t)
           singles == SingleWorstHits(t)
           size(a) == Cardinality(EdgeOn(t, a))
           edgeRssi(a) == WorstRssi(t, EdgeOn(t, a))
           rssi(a) == WorstRssi(t, OnAp(t, a))
           devices == Cardinality(DOMAIN t.devices)
           b == IF -devices <= PgLeast THEN -devices ELSE PgLeast
<1>1. PgLeast \in Int /\ PgInteger \subseteq Int /\ \A n \in PgInteger : PgLeast <= n
  <2>1. PgLeast \in Int
    BY DEF PgLeast
  <2>. QED
    BY <2>1 DEF PgInteger
<1>2. devices \in Nat
  BY DevicesAreRows
<1>3. b \in Int /\ b <= -devices /\ b <= PgLeast
  BY <1>1, <1>2
<1>4. CASE hits # {}
  <2>1. \A a \in hits : /\ a \in Extenders(t) /\ EdgeOn(t, a) # {} /\ OnAp(t, a) # {}
                        /\ size(a) \in Nat /\ size(a) <= devices
                        /\ edgeRssi(a) \in PgInteger
    <3>1. \A a \in hits : a \in Extenders(t) /\ EdgeOn(t, a) # {}
      BY DEF ClusterHits
    <3>. QED
      BY <3>1, DevicesAreRows, WeakestIsLeast
  <2> DEFINE first == [a \in hits |-> -size(a)]
             second == [a \in hits |-> edgeRssi(a)]
  <2>2. first \in [hits -> Int] /\ second \in [hits -> Int]
    <3>1. \A a \in hits : size(a) \in Nat /\ edgeRssi(a) \in Int
      BY <1>1, <2>1
    <3>2. \A k \in Nat : -k \in Int
      OBVIOUS
    <3>. HIDE DEF hits, size, edgeRssi
    <3>. QED
      BY <3>1, <3>2
  <2>3. \A a \in hits : b <= first[a] /\ b <= second[a]
    <3>. SUFFICES ASSUME NEW a \in hits PROVE b <= -size(a) /\ b <= edgeRssi(a)
      OBVIOUS
    <3>1. size(a) \in Nat /\ size(a) <= devices /\ PgLeast <= edgeRssi(a) /\ edgeRssi(a) \in Int
      BY <1>1, <2>1
    <3>. HIDE DEF b, devices, size, edgeRssi
    <3>. QED
      BY <1>1, <1>2, <1>3, <3>1
  <2>4. \E a \in hits : \A c \in hits :
               \/ first[a] < first[c]
               \/ first[a] = first[c] /\ second[a] < second[c]
               \/ first[a] = first[c] /\ second[a] = second[c] /\ SeenBefore(t, a, c)
    <3>. HIDE DEF first, second, b, hits
    <3>. QED
      BY <1>3, <1>4, <2>1, <2>2, <2>3, FirstOfTheBest
  <2>5. \E a \in hits : \A c \in hits :
               \/ size(a) > size(c)
               \/ size(a) = size(c) /\ edgeRssi(a) < edgeRssi(c)
               \/ size(a) = size(c) /\ edgeRssi(a) = edgeRssi(c) /\ SeenBefore(t, a, c)
    <3>1. \A a, c \in hits : /\ first[a] < first[c] <=> size(a) > size(c)
                             /\ first[a] = first[c] <=> size(a) = size(c)
                             /\ second[a] = edgeRssi(a)
      <4>. HIDE DEF size
      <4>. QED
        BY <2>1
    <3>. HIDE DEF first, second, hits, size, edgeRssi
    <3>. QED
      BY <2>4, <3>1
  <2>6. WorstArea(t) \in hits
    <3>1. WorstArea(t) =
              CHOOSE a \in hits : \A c \in hits :
                 \/ size(a) > size(c)
                 \/ size(a) = size(c) /\ edgeRssi(a) < edgeRssi(c)
                 \/ size(a) = size(c) /\ edgeRssi(a) = edgeRssi(c) /\ SeenBefore(t, a, c)
      BY <1>4, Zenon DEF WorstArea
    <3>. HIDE DEF hits, size, edgeRssi
    <3>. QED
      BY <2>5, <3>1
  <2>. QED
    BY <2>1, <2>6
<1>5. CASE hits = {}
  <2>1. singles # {}
    BY <1>5 DEF CoverageIsWeak
  <2>2. \A a \in singles : /\ a \in Extenders(t) /\ OnAp(t, a) # {}
                           /\ rssi(a) \in PgInteger
    <3>1. \A a \in singles : a \in Extenders(t) /\ OnAp(t, a) # {}
      BY DEF SingleWorstHits
    <3>. QED
      BY <3>1, DevicesAreRows, WeakestIsLeast
  <2> DEFINE key == [a \in singles |-> rssi(a)]
  <2>3. key \in [singles -> Int] /\ \A a \in singles : b <= key[a]
    <3>1. \A a \in singles : rssi(a) \in Int /\ PgLeast <= rssi(a)
      BY <1>1, <2>2
    <3>. HIDE DEF b, rssi, singles
    <3>. QED
      BY <1>1, <1>3, <3>1
  <2>4. \E a \in singles : \A c \in singles :
               \/ key[a] < key[c]
               \/ key[a] = key[c] /\ key[a] < key[c]
               \/ key[a] = key[c] /\ key[a] = key[c] /\ SeenBefore(t, a, c)
    <3>. HIDE DEF key, b, singles
    <3>. QED
      BY <1>3, <2>1, <2>2, <2>3, FirstOfTheBest
  <2>5. \E a \in singles : \A c \in singles :
               \/ rssi(a) < rssi(c)
               \/ rssi(a) = rssi(c) /\ SeenBefore(t, a, c)
    <3>1. \A a \in singles : key[a] = rssi(a)
      OBVIOUS
    <3>. HIDE DEF key, singles, rssi
    <3>. QED
      BY <2>4, <3>1
  <2>6. WorstArea(t) \in singles
    <3>1. WorstArea(t) =
              CHOOSE a \in singles : \A c \in singles :
                 \/ rssi(a) < rssi(c)
                 \/ rssi(a) = rssi(c) /\ SeenBefore(t, a, c)
      BY <1>5, Zenon DEF WorstArea
    <3>. HIDE DEF singles, rssi
    <3>. QED
      BY <2>5, <3>1
  <2>. QED
    BY <2>2, <2>6
<1>. QED
  BY <1>4, <1>5

\* The readout against the rule its comments state, where a cluster counts one
\* device at least.
LEMMA CoverageRule ==
    ASSUME ClustersCount
    PROVE  TypeOK => CoverageMatchesItsRule
<1>. SUFFICES ASSUME TypeOK PROVE CoverageMatchesItsRule
  OBVIOUS
<1> DEFINE far(d) == home.devices[d].rssi < Config.single_worst_rssi_dbm
           n == Config.min_cluster_size
           c == AssessCoverage(home)
           ruled == \E a \in Extenders(home) :
                       \/ \E d \in OnAp(home, a) : far(d)
                       \/ \E S \in SUBSET EdgeOn(home, a) : S # {} /\ Cardinality(S) = n
<1>1. IsTopology(home)
  BY DEF TypeOK
<1>2. n \in Nat
  BY ConfigType DEF ClustersCount
<1>3. c.level = "weak" <=> CoverageIsWeak(home)
  BY DEF AssessCoverage
<1>4. ASSUME NEW a
      PROVE  (OnAp(home, a) # {} /\ WorstRssi(home, OnAp(home, a)) < Config.single_worst_rssi_dbm)
                 <=> \E d \in OnAp(home, a) : far(d)
  <2>1. OnAp(home, a) \subseteq DOMAIN home.devices
    BY <1>1, DevicesAreRows
  <2>. QED
    BY <1>1, <2>1, ConfigType, WeakestIsLeast
<1>5. ASSUME NEW a
      PROVE  (EdgeOn(home, a) # {} /\ Cardinality(EdgeOn(home, a)) >= n)
                 <=> \E S \in SUBSET EdgeOn(home, a) : S # {} /\ Cardinality(S) = n
  <2>1. IsFiniteSet(EdgeOn(home, a)) /\ Cardinality(EdgeOn(home, a)) \in Nat
    BY <1>1, DevicesAreRows
  <2>2. ASSUME Cardinality(EdgeOn(home, a)) >= n
        PROVE  \E S \in SUBSET EdgeOn(home, a) : S # {} /\ Cardinality(S) = n
    <3>1. PICK S \in SUBSET EdgeOn(home, a) : Cardinality(S) = n
      <4>1. n <= Cardinality(EdgeOn(home, a))
        BY <1>2, <2>1, <2>2
      <4>. QED
        BY <1>2, <2>1, <4>1, SubsetOfSize
    <3>2. S # {}
      BY <3>1, FS_EmptySet DEF ClustersCount
    <3>. QED
      BY <3>1, <3>2
  <2>3. ASSUME NEW S \in SUBSET EdgeOn(home, a), S # {}, Cardinality(S) = n
        PROVE  EdgeOn(home, a) # {} /\ Cardinality(EdgeOn(home, a)) >= n
    <3>1. n <= Cardinality(EdgeOn(home, a))
      BY <2>1, <2>3, FS_Subset
    <3>. QED
      BY <1>2, <2>1, <2>3, <3>1
  <2>. QED
    BY <2>2, <2>3
<1>6. CoverageIsWeak(home) <=> ruled
  BY <1>4, <1>5 DEF CoverageIsWeak, ClusterHits, SingleWorstHits
<1>7. ASSUME CoverageIsWeak(home)
      PROVE  /\ c.device_count >= 1
             /\ c.worst_area \in Extenders(home)
             /\ OnAp(home, c.worst_area) # {}
  <2> DEFINE edge == UNION {EdgeOn(home, a) : a \in Extenders(home)}
             singles == SingleWorstHits(home)
  <2>1. /\ c.worst_area = WorstArea(home)
        /\ c.device_count = IF edge # {} THEN Cardinality(edge) ELSE Cardinality(singles)
    BY <1>7, Zenon DEF AssessCoverage
  <2>2. edge # {} \/ singles # {}
    BY <1>7 DEF CoverageIsWeak, ClusterHits
  <2>3. IsFiniteSet(edge) /\ IsFiniteSet(singles)
    <3>1. /\ edge \subseteq DOMAIN home.devices
          /\ singles \subseteq DOMAIN home.access_points
      BY DEF EdgeOn, OnAp, SingleWorstHits, Extenders
    <3>. QED
      BY <1>1, <3>1, FS_Subset DEF IsTopology
  <2>4. \A S : IsFiniteSet(S) /\ S # {} => Cardinality(S) >= 1
    <3>1. \A S : IsFiniteSet(S) /\ S # {} => Cardinality(S) \in Nat /\ Cardinality(S) # 0
      BY FS_CardinalityType, FS_EmptySet
    <3>2. \A k \in Nat : k # 0 => k >= 1
      OBVIOUS
    <3>. QED
      BY <3>1, <3>2
  <2>5. c.device_count >= 1
    <3>. HIDE DEF c, edge, singles
    <3>. QED
      BY <2>1, <2>2, <2>3, <2>4
  <2>. QED
    BY <1>1, <1>7, <2>1, <2>5, WorstAreaIsHit
<1>. QED
  BY <1>3, <1>6, <1>7 DEF CoverageMatchesItsRule

\* What net-status says of the coverage is what the rule says, in every home, and it
\* names an extender that carries a device, whatever ties there are.
THEOREM CoverageIsItsRule ==
    ASSUME ClustersCount
    PROVE  Spec => []CoverageMatchesItsRule
<1>. QED
  BY HomeTypes, CoverageRule, PTL

----------------------------------------------------------------------------
\* The weakest of some devices is weaker than each other one.
LEMMA WeakestLeads ==
    ASSUME NEW t, IsTopology(t), NEW S \in SUBSET DOMAIN t.devices, S # {}
    PROVE  /\ Weakest(t, S) \in S
           /\ \A e \in S : e # Weakest(t, S) => Weaker(t, Weakest(t, S), e)
<1> DEFINE key == [d \in S |-> t.devices[d].rssi]
           w == Weakest(t, S)
<1>1. S \in SUBSET Nat /\ key \in [S -> PgInteger]
  BY DEF IsTopology, DeviceRow
<1>2. \E d \in S : \A e \in S : key[d] < key[e] \/ (key[d] = key[e] /\ d <= e)
  <2>. HIDE DEF key
  <2>. QED
    BY <1>1, LeastByKey
<1>3. w \in S /\ \A e \in S : \/ t.devices[w].rssi < t.devices[e].rssi
                              \/ t.devices[w].rssi = t.devices[e].rssi /\ w <= e
  BY <1>2 DEF Weakest
<1>. HIDE DEF w
<1>4. \A e \in S : e # w => Weaker(t, w, e)
  BY <1>1, <1>3 DEF Weaker
<1>. QED
  BY <1>3, <1>4 DEF w

\* The devices can be put in order, the weakest first.
LEMMA WeakestFirstExists ==
    ASSUME NEW t, IsTopology(t)
    PROVE  \E order \in [1..Cardinality(DOMAIN t.devices) -> DOMAIN t.devices] :
               \A i, j \in DOMAIN order : i < j => Weaker(t, order[i], order[j])
<1> DEFINE D == DOMAIN t.devices
           Orders(S) == {o \in [1..Cardinality(S) -> S] :
                            \A i, j \in 1..Cardinality(S) : i < j => Weaker(t, o[i], o[j])}
           Unordered == {S \in FiniteSubsetsOf(D) : Orders(S) = {}}
           Smaller == StrictSubsetOrdering(D)
<1>1. IsFiniteSet(D)
  BY DEF IsTopology
<1>2. ASSUME NEW S \in Unordered, \A R \in Unordered : ~ (<<R, S>> \in Smaller)
      PROVE  FALSE
  <2>1. S \in SUBSET D /\ IsFiniteSet(S) /\ Orders(S) = {}
    <3>1. S \in FiniteSubsetsOf(D) /\ Orders(S) = {}
      BY <1>2
    <3>. HIDE DEF Orders
    <3>. QED
      BY <3>1 DEF FiniteSubsetsOf
  <2>2. CASE S = {}
    <3>1. Cardinality(S) = 0 /\ 1..Cardinality(S) = {}
      BY <2>2, FS_EmptySet
    <3>2. [i \in {} |-> i] \in Orders(S)
      BY <3>1
    <3>. QED
      BY <2>1, <3>2
  <2>3. CASE S # {}
    <3> DEFINE m == Weakest(t, S)
               R == S \ {m}
               n == Cardinality(S)
    <3>1. m \in S /\ \A e \in R : Weaker(t, m, e)
      BY <2>1, <2>3, WeakestLeads
    <3>. HIDE DEF m
    <3>2. IsFiniteSet(R) /\ Cardinality(R) = n - 1 /\ n \in Nat /\ n # 0
      BY <2>1, <2>3, <3>1, FS_RemoveElement, FS_CardinalityType, FS_EmptySet
    <3>3. <<R, S>> \in Smaller /\ R \in FiniteSubsetsOf(D)
      <4>1. R \subseteq S /\ m \in S /\ m \notin R /\ R \in SUBSET D
        BY <2>1, <3>1
      <4>. HIDE DEF R
      <4>. QED
        BY <2>1, <3>2, <4>1 DEF StrictSubsetOrdering, FiniteSubsetsOf
    <3>4. Orders(R) # {}
      <4>. HIDE DEF Orders, R, Smaller
      <4>. QED
        BY <1>2, <3>3
    <3>5. PICK o \in [1..(n - 1) -> R] :
              \A i, j \in 1..(n - 1) : i < j => Weaker(t, o[i], o[j])
      BY <3>2, <3>4
    <3> DEFINE p == [i \in 1..n |-> IF i = 1 THEN m ELSE o[i - 1]]
    <3>. HIDE DEF n
    <3>6. \A i \in 1..n : i # 1 => i - 1 \in 1..(n - 1) /\ o[i - 1] \in R
      <4>1. \A i \in 1..n : i # 1 => i - 1 \in 1..(n - 1)
        BY <3>2
      <4>. QED
        BY <3>5, <4>1
    <3>7. p \in [1..n -> S]
      <4>. HIDE DEF R
      <4>1. R \subseteq S
        BY DEF R
      <4>. QED
        BY <3>1, <3>6, <4>1
    <3>8. ASSUME NEW i \in 1..n, NEW j \in 1..n, i < j
          PROVE  Weaker(t, p[i], p[j])
      <4>. HIDE DEF R
      <4>1. j # 1 /\ p[j] = o[j - 1] /\ j - 1 \in 1..(n - 1) /\ o[j - 1] \in R
        BY <3>6, <3>8
      <4>2. CASE i = 1
        BY <3>1, <4>1, <4>2
      <4>3. CASE i # 1
        <5>1. p[i] = o[i - 1] /\ i - 1 \in 1..(n - 1) /\ i - 1 < j - 1
          BY <3>6, <3>8, <4>3
        <5>. QED
          BY <3>5, <4>1, <5>1
      <4>. QED
        BY <4>2, <4>3
    <3>9. p \in Orders(S)
      <4>. HIDE DEF p
      <4>. QED
        BY <3>7, <3>8 DEF n
    <3>. QED
      BY <2>1, <3>9
  <2>. QED
    BY <2>2, <2>3
<1>3. Unordered = {}
  <2>1. IsWellFoundedOn(Smaller, FiniteSubsetsOf(D))
    BY FS_StrictSubsetOrderingWellFounded
  <2>2. Unordered \subseteq FiniteSubsetsOf(D)
    OBVIOUS
  <2>. HIDE DEF Unordered, Smaller
  <2>. QED
    BY <1>2, <2>1, <2>2, WFMin
<1>4. Orders(D) # {}
  <2>1. D \in FiniteSubsetsOf(D)
    BY <1>1 DEF FiniteSubsetsOf
  <2>. HIDE DEF Orders, D
  <2>. QED
    BY <1>3, <2>1
<1>. QED
  BY <1>4

\* The list names every device, the weakest of all first.
LEMMA ListIsSorted ==
    ASSUME NEW t, IsTopology(t)
    PROVE  LET list == DescribeDevices(t)
           IN  /\ DOMAIN t.devices = {list[i].device_id : i \in DOMAIN list}
               /\ list # <<>> =>
                      /\ DOMAIN t.devices # {}
                      /\ list[1].rssi = t.devices[Weakest(t, DOMAIN t.devices)].rssi
                      /\ list[1].band = t.devices[Weakest(t, DOMAIN t.devices)].band
<1> DEFINE D == DOMAIN t.devices
           n == Cardinality(D)
           order == WeakestFirst(t)
           list == DescribeDevices(t)
<1>1. /\ order \in [1..n -> D]
      /\ \A i, j \in 1..n : i < j => Weaker(t, order[i], order[j])
  <2>1. /\ order \in [1..n -> D]
        /\ \A i, j \in DOMAIN order : i < j => Weaker(t, order[i], order[j])
    BY WeakestFirstExists DEF WeakestFirst
  <2>. HIDE DEF order
  <2>. QED
    BY <2>1
<1>. HIDE DEF order
<1>2. IsFiniteSet(D) /\ n \in Nat /\ D \subseteq Nat /\ \A d \in D : t.devices[d].rssi \in Int
  <2>1. IsFiniteSet(D) /\ D \subseteq Nat /\ \A d \in D : t.devices[d].rssi \in Int
    BY DEF IsTopology, DeviceRow, PgInteger
  <2>. QED
    BY <2>1, FS_CardinalityType
<1>3. \A d, e \in D : Weaker(t, d, e) => d # e /\ ~ Weaker(t, e, d)
  BY <1>2 DEF Weaker
<1>4. order \in Surjection(1..n, D)
  <2>1. order \in Injection(1..n, D)
    <3>1. ASSUME NEW i \in 1..n, NEW j \in 1..n, order[i] = order[j]
          PROVE  i = j
      <4>. HIDE DEF D, n
      <4>1. ~ (i < j) /\ ~ (j < i)
        BY <1>1, <1>3, <3>1
      <4>. QED
        BY <1>2, <4>1
    <3>. HIDE DEF n, D
    <3>. QED
      BY <1>1, <3>1 DEF Injection, IsInjective
  <2>2. IsFiniteSet(1..n) /\ Cardinality(1..n) = n
    BY <1>2, FS_Interval
  <2>. QED
    BY <1>2, <2>1, <2>2, FS_Injection
<1>5. \A d \in D : \E i \in 1..n : order[i] = d
  BY <1>4 DEF Surjection
<1>6. /\ DOMAIN list = 1..n
      /\ \A i \in 1..n : /\ list[i].device_id = order[i]
                         /\ list[i].rssi = t.devices[order[i]].rssi
                         /\ list[i].band = t.devices[order[i]].band
  BY <1>1 DEF DescribeDevices, order
<1>. HIDE DEF list
<1>7. D = {list[i].device_id : i \in DOMAIN list}
  <2>. HIDE DEF D, n
  <2>. QED
    BY <1>1, <1>5, <1>6
<1>8. ASSUME list # <<>>
      PROVE  D # {} /\ order[1] = Weakest(t, D) /\ 1 \in 1..n
  <2>1. n # 0
    <3>1. n = 0 => list = <<>>
      <4>1. n = 0 => 1..n = {}
        OBVIOUS
      <4>2. list = [i \in 1..n |->
            [device_id      |-> order[i],
             band           |-> t.devices[order[i]].band,
             rssi           |-> t.devices[order[i]].rssi,
             ap             |-> t.devices[order[i]].connected_ap_id,
             steer_eligible |-> t.devices[order[i]].steer_eligible,
             status_summary |-> StatusSummary(t.devices[order[i]].band,
                                              t.devices[order[i]].rssi)]]
        BY <1>1 DEF list, DescribeDevices, order
      <4>3. \A f : DOMAIN f = {} /\ (f = [i \in DOMAIN f |-> f[i]]) => f = <<>>
        OBVIOUS
      <4>. QED
        BY <1>6, <4>1, <4>2, <4>3
    <3>. QED
      BY <1>8, <3>1
  <2>2. 1 \in 1..n
    BY <1>2, <2>1
  <2>3. order[1] \in D
    BY <1>1, <2>2
  <2>4. /\ Weakest(t, D) \in D
        /\ \A e \in D : e # Weakest(t, D) => Weaker(t, Weakest(t, D), e)
    BY <2>3, WeakestLeads
  <2>5. PICK k \in 1..n : order[k] = Weakest(t, D)
    BY <1>5, <2>4
  <2>6. CASE k # 1
    <3>1. Weaker(t, order[1], order[k])
      <4>1. 1 < k
        BY <1>2, <2>6
      <4>. QED
        BY <1>1, <2>2, <4>1
    <3>. QED
      BY <1>3, <2>3, <2>4, <2>5, <3>1
  <2>. QED
    BY <2>2, <2>3, <2>5, <2>6
<1>9. list # <<>> =>
          /\ D # {}
          /\ list[1].rssi = t.devices[Weakest(t, D)].rssi
          /\ list[1].band = t.devices[Weakest(t, D)].band
  BY <1>6, <1>8
<1>. QED
  BY <1>7, <1>9 DEF list

----------------------------------------------------------------------------
\* What a recommended verb does: it steers a stuck device onto the target band, or
\* reboots an unhealthy extender to a healthy backhaul or better.
LEMMA VerdictEffect ==
    ASSUME NEW t, IsTopology(t), Recommended(ChosenFault(t)) \in Verbs
    PROVE  LET r == DeviceAction(t, Recommended(ChosenFault(t)),
                                 Target(t, ChosenFault(t)), NoBand).topology
           IN  \/ \E d \in StuckDevices(t) : r = Steered(t, d, NoBand)
               \/ \E a \in UnhealthyExtenders(t) : \E quality \in PgInteger :
                      /\ quality >= Config.healthy_backhaul_quality
                      /\ r = Rebooted(t, a, quality)
<1> DEFINE f == ChosenFault(t)
           target == Target(t, f)
           r == DeviceAction(t, Recommended(f), target, NoBand).topology
           healthy == Config.healthy_backhaul_quality
<1>1. CASE f = "device_band_stuck"
  <2>1. Recommended(f) = "band-steer"
    BY <1>1, ConfigActs
  <2>2. target \in StuckDevices(t)
    BY <1>1, ChosenIsDetected, TargetIsFaulty DEF DetectAll, NoFault
  <2>3. /\ target \in DOMAIN t.devices /\ t.devices[target].steer_eligible
        /\ t.devices[target].band # SteerBand(NoBand)
        /\ SteerBand(NoBand) \in BandsOn(t, t.devices[target].connected_ap_id)
    BY <2>2 DEF StuckDevices, SteerBand
  <2>. HIDE DEF f, target
  <2>4. ~IsEmpty(t)
    BY <2>3 DEF IsEmpty
  <2>5. r = Steered(t, target, NoBand)
    BY <2>1, <2>3, <2>4 DEF DeviceAction, RunVerb, BandSteer, Accepted, Verbs
  <2>6. \E d \in StuckDevices(t) : r = Steered(t, d, NoBand)
    BY <2>2, <2>5
  <2>. QED
    BY <2>6 DEF f, target, r
<1>2. CASE f = "extender_flapping"
  <2>1. Recommended(f) \in {"reboot-extender", "reboot-ap"}
    BY <1>2, ConfigActs
  <2>2. target \in UnhealthyExtenders(t) /\ target \in Extenders(t)
    <3>1. target \in UnhealthyExtenders(t)
      BY <1>2, ChosenIsDetected, TargetIsFaulty DEF DetectAll, NoFault
    <3>. QED
      BY <3>1 DEF UnhealthyExtenders
  <2>. HIDE DEF f, target
  <2>3. ~IsEmpty(t) /\ target \in DOMAIN t.access_points
    BY <2>2 DEF IsEmpty, Extenders
  <2>4. r = RunVerb(t, Recommended(f), target, NoBand).topology
    BY <2>3 DEF DeviceAction
  <2> DEFINE was == t.access_points[target].backhaul_quality
             quality == IF was >= healthy THEN was ELSE healthy
  <2>5. healthy \in PgInteger /\ healthy \in Int /\ was \in PgInteger /\ was \in Int
    BY <2>3, ConfigType DEF IsTopology, ApRow, PgInteger
  <2>6. \E q \in PgInteger : q >= healthy /\ r = Rebooted(t, target, q)
    <3>1. CASE Recommended(f) = "reboot-extender"
      <4>1. r = Rebooted(t, target, healthy)
        BY <2>2, <2>4, <3>1 DEF RunVerb, RebootExtender, Accepted, Verbs, Extenders
      <4>2. healthy >= healthy
        BY <2>5
      <4>. QED
        BY <2>5, <4>1, <4>2
    <3>2. CASE Recommended(f) = "reboot-ap"
      <4>1. r = Rebooted(t, target, quality)
        BY <2>3, <2>4, <3>2 DEF RunVerb, RebootAp, Accepted, Verbs
      <4>2. quality \in PgInteger /\ quality >= healthy
        BY <2>5
      <4>. HIDE DEF quality
      <4>. QED
        BY <4>1, <4>2
    <3>. QED
      BY <2>1, <3>1, <3>2
  <2>7. \E a \in UnhealthyExtenders(t) : \E q \in PgInteger :
            q >= healthy /\ r = Rebooted(t, a, q)
    BY <2>2, <2>6
  <2>. QED
    BY <2>7 DEF f, target, r
<1>3. f \in {"device_band_stuck", "extender_flapping"}
  BY ChosenIsDetected, ConfigActs DEF DetectAll, Detectors
<1>. QED
  BY <1>1, <1>2, <1>3

\* A fault that still fires and was chosen before is chosen again, if none is new.
LEMMA StillChosen ==
    ASSUME NEW t, NEW r, DetectAll(r) \subseteq DetectAll(t),
           ChosenFault(t) \in DetectAll(r)
    PROVE  ChosenFault(r) = ChosenFault(t)
<1> DEFINE prec == Config.fault_precedence
           hits(x) == {i \in DOMAIN prec : prec[i] \in DetectAll(x)}
           first(x) == CHOOSE i \in hits(x) : \A j \in hits(x) : i <= j
<1>1. hits(r) \subseteq hits(t) /\ hits(t) # {}
  <2>1. \E i \in DOMAIN prec : prec[i] = ChosenFault(t)
    BY ConfigHeals DEF DetectAll
  <2>. QED
    BY <2>1
<1>2. hits(t) \in SUBSET Int /\ hits(r) \in SUBSET Int /\ \A i \in hits(t) : 1 <= i
  BY ConfigType
<1>3. first(t) \in hits(t) /\ \A j \in hits(t) : first(t) <= j
  <2>1. \E i \in hits(t) : \A j \in hits(t) : i <= j
    <3> DEFINE S == hits(t)
    <3>1. S \in SUBSET Int /\ S # {} /\ 1 \in Int /\ \A i \in S : 1 <= i
      BY <1>1, <1>2
    <3>. HIDE DEF S
    <3>2. \E i \in S : \A j \in S : i <= j
      BY <3>1, LeastNumber
    <3>. QED
      BY <3>2 DEF S
  <2>. HIDE DEF hits
  <2>. QED
    BY <2>1
<1>4. ChosenFault(t) = prec[first(t)]
  BY <1>1, Zenon DEF ChosenFault
<1>5. first(t) \in hits(r) /\ \A j \in hits(r) : first(t) <= j
  <2>1. first(t) \in hits(r)
    BY <1>3, <1>4
  <2>. HIDE DEF hits, first
  <2>. QED
    BY <1>1, <1>3, <2>1
<1>6. first(r) = first(t)
  <2>1. first(r) \in hits(r) /\ \A j \in hits(r) : first(r) <= j
    <3>. HIDE DEF hits
    <3>1. \E i \in hits(r) : \A j \in hits(r) : i <= j
      BY <1>5
    <3>. QED
      BY <3>1
  <2>2. first(r) <= first(t) /\ first(t) <= first(r) /\ first(r) \in Int /\ first(t) \in Int
    <3>. HIDE DEF hits, first
    <3>. QED
      BY <1>2, <1>5, <2>1
  <2>. HIDE DEF first
  <2>. QED
    BY <2>2
<1>7. ChosenFault(r) = prec[first(r)]
  <2>1. hits(r) # {}
    <3>. HIDE DEF hits
    <3>. QED
      BY <1>5
  <2>. QED
    BY <2>1, Zenon DEF ChosenFault
<1>. QED
  <2>. HIDE DEF first
  <2>. QED
    BY <1>4, <1>6, <1>7

\* The verb's answer about the fault is the one net-status gives next.
LEMMA ConfirmedByStatus ==
    ASSUME NEW t, IsTopology(t)
    PROVE  FixIsConfirmed(t)
<1> DEFINE f == ChosenFault(t)
           done == DeviceAction(t, Recommended(f), Target(t, f), NoBand)
           r == done.topology
<1>. SUFFICES ASSUME Recommended(f) \in Verbs
              PROVE  done.fault_cleared <=> NetStatus(r).fault_type # f
  <2>1. /\ BuildVerdict(t).fault_type = f
        /\ BuildVerdict(t).recommended_action = Recommended(f)
        /\ BuildVerdict(t).primary_target = Target(t, f)
    BY DEF BuildVerdict
  <2>. QED
    BY <2>1, Zenon DEF FixIsConfirmed
<1>1. f # NoFault /\ f \in DetectAll(t)
  BY ConfigActs, HealthyIsNoFault
<1>2. /\ r.gateway = t.gateway /\ done.ok
      /\ DetectAll(r) \subseteq DetectAll(t)
  <2>1. /\ r.gateway = t.gateway
        /\ UnhealthyExtenders(r) \subseteq UnhealthyExtenders(t)
        /\ StuckDevices(r) \subseteq StuckDevices(t)
    <3>1. SteerBand(NoBand) = Config.steer_target_band
      BY DEF SteerBand
    <3>. QED
      BY <3>1, ActionHeals
  <2>2. done.ok
    BY RemedyWorks
  <2>. HIDE DEF r
  <2>. QED
    BY <2>1, <2>2, FewerFaults
<1>3. done.fault_cleared <=> f \notin DetectAll(r)
  BY <1>1, <1>2 DEF DeviceAction
<1>4. ~ IsEmpty(r)
  <2>1. CASE \E d \in StuckDevices(t) : r = Steered(t, d, NoBand)
    <3>1. PICK d \in StuckDevices(t) : r = Steered(t, d, NoBand)
      BY <2>1
    <3>2. d \in DOMAIN t.devices
      BY DEF StuckDevices
    <3>3. DOMAIN r.devices = DOMAIN t.devices
      <4>. HIDE DEF r
      <4>. QED
        BY <3>1, <3>2, SteerWrites
    <3>. QED
      BY <3>2, <3>3 DEF IsEmpty
  <2>2. CASE \E a \in UnhealthyExtenders(t) : \E q \in PgInteger : r = Rebooted(t, a, q)
    <3>1. PICK a \in UnhealthyExtenders(t) : \E q \in PgInteger : r = Rebooted(t, a, q)
      BY <2>2
    <3>2. a \in DOMAIN t.access_points
      BY DEF UnhealthyExtenders, Extenders
    <3>3. DOMAIN r.access_points = DOMAIN t.access_points
      <4>. HIDE DEF r
      <4>. QED
        BY <3>1, <3>2, RebootWrites
    <3>. QED
      BY <3>2, <3>3 DEF IsEmpty
  <2>. QED
    BY <2>1, <2>2, VerdictEffect
<1>5. NetStatus(r).fault_type = ChosenFault(r)
  <2>. HIDE DEF r
  <2>. QED
    BY <1>4 DEF NetStatus, BuildVerdict
<1>. HIDE DEF done, r
<1>. QED
  BY <1>1, <1>2, <1>3, <1>5, ChosenIsDetected, StillChosen

\* The fields that two answers share have one value.
LEMMA SharedFields ==
    ASSUME NEW t, ~ IsEmpty(t)
    PROVE  LET v == BuildVerdict(t)
               s == NetStatus(t)
               a == SubscriberState(t)
           IN  /\ \A f \in DOMAIN s \intersect DOMAIN a : s[f] = a[f]
               /\ \A f \in DOMAIN s \intersect DOMAIN v : s[f] = v[f]
<1> DEFINE v == BuildVerdict(t)
           s == NetStatus(t)
           a == SubscriberState(t)
<1>1. v = [fault_type          |-> ChosenFault(t),
           primary_target      |-> Target(t, ChosenFault(t)),
           primary_target_kind |-> TargetKind(ChosenFault(t)),
           recommended_action  |-> Recommended(ChosenFault(t)),
           wan_ok              |-> WanOk(t),
           worst_device_band   |-> WorstBand(t),
           worst_device_rssi   |-> WorstSignal(t),
           extender_status     |-> ExtenderStatus(t)]
  BY DEF BuildVerdict, WorstBand, WorstSignal
<1>2. a = [has_network        |-> TRUE,
           healthy            |-> v.fault_type = NoFault,
           fault_type         |-> v.fault_type,
           recommended_action |-> v.recommended_action,
           wan_status         |-> WanStatus(t),
           extender_status    |-> v.extender_status,
           worst_device_band  |-> WorstBand(t),
           worst_device_rssi  |-> WorstSignal(t)]
  BY DEF SubscriberState
<1>3. \E n1, n2, n3, n4, c1, c2, c3 :
          s = [found                  |-> TRUE,
               healthy                |-> v.fault_type = NoFault,
               fault_type             |-> v.fault_type,
               wan_ok                 |-> v.wan_ok,
               wan_status             |-> WanStatus(t),
               ap_total               |-> n1,
               ap_online              |-> n2,
               extender_status        |-> v.extender_status,
               device_total           |-> n3,
               devices_on_target_band |-> n4,
               worst_device_band      |-> WorstBand(t),
               worst_device_rssi      |-> WorstSignal(t),
               coverage               |-> c1,
               coverage_device_count  |-> c2,
               coverage_worst_area    |-> c3]
  BY DEF NetStatus
<1>. HIDE DEF v, s, a
<1>4. \A f \in DOMAIN s \intersect DOMAIN a : s[f] = a[f]
  BY <1>2, <1>3
<1>5. \A f \in DOMAIN s \intersect DOMAIN v : s[f] = v[f]
  BY <1>1, <1>3
<1>. QED
  BY <1>4, <1>5 DEF v, s, a

\* With no extender down, the worst status of the extenders is online.
LEMMA HealthyExtenders ==
    ASSUME NEW t, IsTopology(t), DetectAll(t) = {}, DownIsWatched
    PROVE  /\ ExtenderStatus(t) \in {"none", "online"}
           /\ \A a \in Extenders(t) : t.access_points[a].status = "online"
           /\ t.gateway # NoGateway => WanOk(t)
<1>1. \A a \in Extenders(t) : t.access_points[a].status = "online"
  <2>1. \A a \in Extenders(t) : /\ t.access_points[a].status \in ApStatuses
                                /\ t.access_points[a].status \notin Config.flapping_ap_statuses
    <3>1. UnhealthyExtenders(t) = {}
      BY DEF DetectAll, Detectors
    <3>. QED
      BY <3>1 DEF UnhealthyExtenders, Extenders, IsTopology, ApRow
  <2>. QED
    BY <2>1 DEF DownIsWatched
<1>2. ExtenderStatus(t) \in {"none", "online"}
  <2> DEFINE statuses == {t.access_points[a].status : a \in Extenders(t)}
  <2>1. CASE statuses = {}
    BY <2>1 DEF ExtenderStatus
  <2>2. CASE statuses # {}
    <3>1. statuses = {"online"}
      BY <1>1, <2>2
    <3>2. ExtenderStatus(t) =
              CHOOSE s \in statuses : \A r \in statuses : ApSeverity[s] >= ApSeverity[r]
      BY <2>2, Zenon DEF ExtenderStatus
    <3>3. \E s \in statuses : \A r \in statuses : ApSeverity[s] >= ApSeverity[r]
      BY <3>1 DEF ApSeverity
    <3>. HIDE DEF statuses
    <3>. QED
      BY <3>1, <3>2, <3>3
  <2>. QED
    BY <2>1, <2>2
<1>3. t.gateway # NoGateway => WanOk(t)
  BY DEF DetectAll, Detectors, WanDegraded, WanOk
<1>. QED
  BY <1>1, <1>2, <1>3

\* With every extender online, only other access points can be missing.
LEMMA OnlineCount ==
    ASSUME NEW t, IsTopology(t),
           \A a \in Extenders(t) : t.access_points[a].status = "online"
    PROVE  LET up == {a \in DOMAIN t.access_points : t.access_points[a].status = "online"}
           IN  Cardinality(DOMAIN t.access_points) - Cardinality(up) <=
                   Cardinality(DOMAIN t.access_points \ Extenders(t))
<1> DEFINE aps == DOMAIN t.access_points
           up == {a \in aps : t.access_points[a].status = "online"}
<1>1. IsFiniteSet(aps) /\ up \subseteq aps /\ Extenders(t) \subseteq up
  BY DEF IsTopology, Extenders
<1>. HIDE DEF aps, up
<1>2. /\ IsFiniteSet(up) /\ IsFiniteSet(aps \ up) /\ IsFiniteSet(aps \ Extenders(t))
      /\ Cardinality(aps \ up) = Cardinality(aps) - Cardinality(up)
  <2>1. /\ IsFiniteSet(aps \ up)
        /\ Cardinality(aps \ up) = Cardinality(aps) - Cardinality(aps \intersect up)
    BY <1>1, FS_Difference
  <2>2. aps \intersect up = up
    BY <1>1
  <2>. QED
    BY <1>1, <2>1, <2>2, FS_Subset, FS_Difference
<1>3. Cardinality(aps \ up) <= Cardinality(aps \ Extenders(t))
  <2>1. aps \ up \subseteq aps \ Extenders(t)
    BY <1>1
  <2>. QED
    BY <1>2, <2>1, FS_Subset
<1>. QED
  BY <1>2, <1>3 DEF aps, up

LEMMA OneStory ==
    ASSUME DownIsWatched
    PROVE  TypeOK => ViewsAgree
<1>. SUFFICES ASSUME TypeOK PROVE ViewsAgree
  OBVIOUS
<1> DEFINE v    == BuildVerdict(home)
           s    == NetStatus(home)
           a    == SubscriberState(home)
           list == DescribeDevices(home)
<1>1. IsTopology(home)
  BY DEF TypeOK
<1>. SUFFICES ASSUME s.found
              PROVE  /\ FixIsConfirmed(home)
                     /\ s.healthy <=> DetectAll(home) = {}
                     /\ a.has_network /\ \A f \in DOMAIN s \intersect DOMAIN a : s[f] = a[f]
                     /\ \A f \in DOMAIN s \intersect DOMAIN v : s[f] = v[f]
                     /\ s.healthy =>
                            /\ s.wan_ok \/ s.wan_status = ""
                            /\ s.extender_status \in {"none", "online"}
                            /\ s.ap_total - s.ap_online <=
                                   Cardinality(DOMAIN home.access_points \ Extenders(home))
                            /\ a.recommended_action \notin Verbs
                     /\ v.fault_type = "device_band_stuck" =>
                            /\ s.devices_on_target_band < s.device_total
                            /\ v.primary_target \in {list[i].device_id : i \in DOMAIN list}
                     /\ v.primary_target_kind = "ap" => v.primary_target \in Extenders(home)
                     /\ list # <<>> => /\ list[1].rssi = s.worst_device_rssi
                                       /\ list[1].band = s.worst_device_band
  BY Zenon DEF ViewsAgree
<1>2. ~ IsEmpty(home)
  BY DEF NetStatus, NotFound
<1>3. /\ v.fault_type = ChosenFault(home)
      /\ v.primary_target = Target(home, ChosenFault(home))
      /\ v.primary_target_kind = TargetKind(ChosenFault(home))
      /\ v.recommended_action = Recommended(ChosenFault(home))
      /\ v.wan_ok = WanOk(home)
      /\ v.extender_status = ExtenderStatus(home)
  BY DEF BuildVerdict
<1>4. /\ s.healthy = (v.fault_type = NoFault)
      /\ s.wan_ok = v.wan_ok /\ s.wan_status = WanStatus(home)
      /\ s.extender_status = v.extender_status
      /\ s.ap_total = Cardinality(DOMAIN home.access_points)
      /\ s.ap_online = Cardinality({x \in DOMAIN home.access_points :
                                        home.access_points[x].status = "online"})
      /\ s.device_total = Cardinality(DOMAIN home.devices)
      /\ s.devices_on_target_band =
             Cardinality({d \in DOMAIN home.devices :
                              home.devices[d].band = Config.steer_target_band})
      /\ s.worst_device_band = WorstBand(home) /\ s.worst_device_rssi = WorstSignal(home)
  BY <1>2 DEF NetStatus
<1>5. a.has_network /\ a.recommended_action = v.recommended_action
  BY <1>2 DEF SubscriberState
<1>. HIDE DEF v, s, a, list
<1>6. FixIsConfirmed(home)
  BY <1>1, ConfirmedByStatus
<1>7. s.healthy <=> DetectAll(home) = {}
  BY <1>3, <1>4, HealthyIsNoFault
<1>8. /\ \A f \in DOMAIN s \intersect DOMAIN a : s[f] = a[f]
      /\ \A f \in DOMAIN s \intersect DOMAIN v : s[f] = v[f]
  BY <1>2, SharedFields DEF s, a, v
<1>9. ASSUME s.healthy
      PROVE  /\ s.wan_ok \/ s.wan_status = ""
             /\ s.extender_status \in {"none", "online"}
             /\ s.ap_total - s.ap_online <=
                    Cardinality(DOMAIN home.access_points \ Extenders(home))
             /\ a.recommended_action \notin Verbs
  <2>1. DetectAll(home) = {}
    BY <1>7, <1>9
  <2>2. /\ ExtenderStatus(home) \in {"none", "online"}
        /\ \A x \in Extenders(home) : home.access_points[x].status = "online"
        /\ home.gateway # NoGateway => WanOk(home)
    BY <1>1, <2>1, HealthyExtenders
  <2>3. s.wan_ok \/ s.wan_status = ""
    BY <1>3, <1>4, <2>2 DEF WanStatus
  <2>4. s.ap_total - s.ap_online <=
            Cardinality(DOMAIN home.access_points \ Extenders(home))
    BY <1>1, <1>4, <2>2, OnlineCount
  <2>5. a.recommended_action \notin Verbs
    BY <1>3, <1>4, <1>5, <1>9, ConfigActs
  <2>. QED
    BY <1>3, <1>4, <2>2, <2>3, <2>4, <2>5
<1>10. ASSUME v.fault_type = "device_band_stuck"
       PROVE  /\ s.devices_on_target_band < s.device_total
              /\ v.primary_target \in {list[i].device_id : i \in DOMAIN list}
  <2> DEFINE on == {d \in DOMAIN home.devices : home.devices[d].band = Config.steer_target_band}
  <2>1. v.primary_target \in StuckDevices(home)
    <3>1. StuckDevices(home) # {}
      BY <1>3, <1>10, ChosenIsDetected DEF DetectAll, NoFault
    <3>. QED
      BY <1>1, <1>3, <1>10, <3>1, TargetIsFaulty
  <2>2. /\ v.primary_target \in DOMAIN home.devices /\ v.primary_target \notin on
        /\ on \subseteq DOMAIN home.devices
    BY <2>1 DEF StuckDevices
  <2>. HIDE DEF on
  <2>3. /\ IsFiniteSet(DOMAIN home.devices)
        /\ Cardinality(on) \in Nat /\ Cardinality(DOMAIN home.devices) \in Nat
        /\ Cardinality(on) < Cardinality(DOMAIN home.devices)
    <3>1. IsFiniteSet(DOMAIN home.devices)
      BY <1>1 DEF IsTopology
    <3>2. /\ IsFiniteSet(on) /\ Cardinality(on) <= Cardinality(DOMAIN home.devices)
          /\ Cardinality(DOMAIN home.devices) = Cardinality(on) => on = DOMAIN home.devices
      BY <2>2, <3>1, FS_Subset
    <3>3. Cardinality(on) \in Nat /\ Cardinality(DOMAIN home.devices) \in Nat
      BY <3>1, <3>2, FS_CardinalityType
    <3>4. on # DOMAIN home.devices
      BY <2>2
    <3>. QED
      BY <3>1, <3>2, <3>3, <3>4
  <2>4. s.devices_on_target_band < s.device_total
    BY <1>4, <2>3 DEF on
  <2>5. DOMAIN home.devices = {list[i].device_id : i \in DOMAIN list}
    BY <1>1, ListIsSorted DEF list
  <2>. QED
    BY <2>2, <2>4, <2>5
<1>11. ASSUME v.primary_target_kind = "ap"
       PROVE  v.primary_target \in Extenders(home)
  <2>1. ChosenFault(home) = "extender_flapping"
    <3>1. CASE ChosenFault(home) = "wan_degraded"
      BY <1>3, <1>11, <3>1, Zenon DEF TargetKind
    <3>2. CASE ChosenFault(home) = "device_band_stuck"
      BY <1>3, <1>11, <3>2, Zenon DEF TargetKind
    <3>3. CASE ChosenFault(home) = NoFault
      BY <1>3, <1>11, <3>3 DEF TargetKind, NoFault
    <3>. QED
      BY <3>1, <3>2, <3>3, ChosenIsDetected DEF DetectAll, Detectors
  <2>2. UnhealthyExtenders(home) # {}
    BY <2>1, ChosenIsDetected DEF DetectAll, NoFault
  <2>. QED
    BY <1>1, <1>3, <2>1, <2>2, TargetIsFaulty DEF UnhealthyExtenders
<1>12. list # <<>> => /\ list[1].rssi = s.worst_device_rssi
                      /\ list[1].band = s.worst_device_band
  <2>1. list # <<>> =>
           /\ DOMAIN home.devices # {}
           /\ list[1].rssi = home.devices[Weakest(home, DOMAIN home.devices)].rssi
           /\ list[1].band = home.devices[Weakest(home, DOMAIN home.devices)].band
    BY <1>1, ListIsSorted DEF list
  <2>. QED
    BY <1>4, <2>1 DEF WorstBand, WorstSignal
<1>. QED
  BY <1>5, <1>6, <1>7, <1>8, <1>9, <1>10, <1>11, <1>12, Zenon

\* The verdict, net-status, the device list and the operator's table tell one story
\* of every home, and a verb says that its fault is cleared exactly if net-status
\* would; where the pack watches every status an operator calls down.
THEOREM EveryViewAgrees ==
    ASSUME DownIsWatched
    PROVE  Spec => []ViewsAgree
<1>. QED
  BY HomeTypes, OneStory, PTL

----------------------------------------------------------------------------
\* Weak coverage, row by row.
LEMMA WeakCoverage ==
    ASSUME NEW t, IsTopology(t)
    PROVE  CoverageIsWeak(t) <=>
               \E a \in Extenders(t) :
                   \/ \E d \in OnAp(t, a) : t.devices[d].rssi < Config.single_worst_rssi_dbm
                   \/ /\ EdgeOn(t, a) # {}
                      /\ Cardinality(EdgeOn(t, a)) >= Config.min_cluster_size
<1>1. ASSUME NEW a
      PROVE  (OnAp(t, a) # {} /\ WorstRssi(t, OnAp(t, a)) < Config.single_worst_rssi_dbm)
                 <=> \E d \in OnAp(t, a) : t.devices[d].rssi < Config.single_worst_rssi_dbm
  <2>1. OnAp(t, a) \subseteq DOMAIN t.devices
    BY DevicesAreRows
  <2>. QED
    BY <2>1, ConfigType, WeakestIsLeast
<1>. QED
  BY <1>1 DEF CoverageIsWeak, ClusterHits, SingleWorstHits

\* A steer of a stuck device lowers no signal and puts no device at the edge.
LEMMA SteerLowersNothing ==
    ASSUME NEW t, IsTopology(t), NEW d \in StuckDevices(t), SteerMends
    PROVE  LET s == Steered(t, d, NoBand)
           IN  /\ IsTopology(s) /\ s.access_points = t.access_points
               /\ DOMAIN s.devices = DOMAIN t.devices
               /\ \A e \in DOMAIN t.devices :
                      /\ s.devices[e].connected_ap_id = t.devices[e].connected_ap_id
                      /\ t.devices[e].rssi <= s.devices[e].rssi
                      /\ IsEdge(s.devices[e]) => IsEdge(t.devices[e])
<1> DEFINE s == Steered(t, d, NoBand)
<1>1. /\ d \in DOMAIN t.devices /\ t.devices[d].rssi <= Config.poor_rssi_dbm
      /\ t.devices[d].band # Config.steer_target_band
  BY DEF StuckDevices
<1>2. /\ s.access_points = t.access_points /\ DOMAIN s.devices = DOMAIN t.devices
      /\ \A e \in DOMAIN t.devices : e # d => s.devices[e] = t.devices[e]
      /\ s.devices[d].rssi = SteeredRssi(t.devices[d].rssi)
      /\ s.devices[d].connected_ap_id = t.devices[d].connected_ap_id
  BY <1>1, SteerWrites
<1>3. IsTopology(s)
  <2>1. SteerBand(NoBand) \in Bands
    BY ConfigType DEF SteerBand
  <2>. QED
    BY <1>1, <2>1, SteerHeals
<1>. HIDE DEF s
<1>4. \A e \in DOMAIN t.devices : t.devices[e].rssi \in Int
  BY DEF IsTopology, DeviceRow, PgInteger
<1>5. t.devices[d].rssi <= s.devices[d].rssi
  <2> DEFINE rssi == t.devices[d].rssi
             gain == Config.steer_rssi_gain_db
             ceiling == Config.steer_rssi_ceiling_dbm
             poor == Config.poor_rssi_dbm
  <2>1. rssi \in Int /\ gain \in Nat /\ ceiling \in Int /\ poor \in Int
    BY <1>1, <1>4, ConfigType DEF PgInteger
  <2>2. SteeredRssi(rssi) = IF rssi + gain <= ceiling THEN rssi + gain ELSE ceiling
    BY DEF SteeredRssi
  <2>3. rssi <= poor /\ poor <= ceiling
    BY <1>1 DEF SteerMends
  <2>. HIDE DEF rssi, gain, ceiling, poor
  <2>4. rssi <= SteeredRssi(rssi)
    BY <2>1, <2>2, <2>3
  <2>. QED
    BY <1>2, <2>4 DEF rssi
<1>6. IsEdge(t.devices[d])
  <2>1. t.devices[d].rssi < Config.edge_rssi_24ghz_dbm
    BY <1>1, <1>4, ConfigType DEF SteerMends
  <2>. QED
    BY <1>1, <2>1 DEF IsEdge
<1>7. \A e \in DOMAIN t.devices :
          /\ s.devices[e].connected_ap_id = t.devices[e].connected_ap_id
          /\ t.devices[e].rssi <= s.devices[e].rssi
          /\ IsEdge(s.devices[e]) => IsEdge(t.devices[e])
  <2>. SUFFICES ASSUME NEW e \in DOMAIN t.devices
                PROVE  /\ s.devices[e].connected_ap_id = t.devices[e].connected_ap_id
                       /\ t.devices[e].rssi <= s.devices[e].rssi
                       /\ IsEdge(s.devices[e]) => IsEdge(t.devices[e])
    OBVIOUS
  <2>1. CASE e = d
    BY <1>2, <1>5, <1>6, <2>1
  <2>2. CASE e # d
    BY <1>2, <1>4, <2>2
  <2>. QED
    BY <2>1, <2>2
<1>. QED
  BY <1>2, <1>3, <1>7 DEF s

\* The rules, one by one.
LEMMA RulesHold ==
    ASSUME NEW t, NEW value
    PROVE  /\ Holds("coverage_is_weak", TRUE, t) <=> CoverageIsWeak(t)
           /\ Holds("device_on_extender_rssi_at_or_below", value, t) <=>
                  \E d \in DevicesOnExtenders(t) : t.devices[d].rssi <= value
           /\ Holds("any_device_rssi_at_or_below", value, t) <=>
                  \E d \in DOMAIN t.devices : t.devices[d].rssi <= value
           /\ Holds("extender_backhaul_at_or_below", value, t) <=>
                  \E a \in Extenders(t) : t.access_points[a].backhaul_quality <= value
           /\ Holds("extender_status_in", value, t) <=>
                  \E a \in Extenders(t) : t.access_points[a].status \in value
           /\ Holds("min_extenders", value, t) <=> (Cardinality(Extenders(t)) >= value)
           /\ Holds("min_devices", value, t) <=> (Cardinality(DOMAIN t.devices) >= value)
<1>1. CoverageIsWeak(t) \in BOOLEAN
  BY DEF CoverageIsWeak
<1>2. Holds("coverage_is_weak", TRUE, t) <=> CoverageIsWeak(t)
  BY <1>1, Zenon DEF Holds
<1>. QED
  BY <1>2, Zenon DEF Holds

\* After a steer, no rule about something bad holds that did not.
LEMMA SteerOpensNothing ==
    ASSUME NEW t, IsTopology(t), NEW d \in StuckDevices(t), SteerMends, OffersNameBadness,
           NEW i \in DOMAIN Catalogue, IsEligible(Catalogue[i], Steered(t, d, NoBand))
    PROVE  IsEligible(Catalogue[i], t)
<1> DEFINE s == Steered(t, d, NoBand)
           rules == Catalogue[i].eligibility
<1>1. /\ IsTopology(s) /\ s.access_points = t.access_points
      /\ DOMAIN s.devices = DOMAIN t.devices
      /\ \A e \in DOMAIN t.devices :
             /\ s.devices[e].connected_ap_id = t.devices[e].connected_ap_id
             /\ t.devices[e].rssi <= s.devices[e].rssi
             /\ IsEdge(s.devices[e]) => IsEdge(t.devices[e])
  BY SteerLowersNothing
<1>2. \A rule \in DOMAIN rules : Holds(rule, rules[rule], s)
  BY DEF IsEligible
<1>. HIDE DEF s
<1>3. \A e \in DOMAIN t.devices : t.devices[e].rssi \in Int /\ s.devices[e].rssi \in Int
  BY <1>1 DEF IsTopology, DeviceRow, PgInteger
<1>4. Extenders(s) = Extenders(t) /\ DevicesOnExtenders(s) = DevicesOnExtenders(t)
  <2>1. Extenders(s) = Extenders(t)
    BY <1>1 DEF Extenders
  <2>. QED
    BY <1>1, <2>1 DEF DevicesOnExtenders
<1>5. \A a : OnAp(s, a) = OnAp(t, a) /\ EdgeOn(s, a) \subseteq EdgeOn(t, a)
  <2>1. \A a : OnAp(s, a) = OnAp(t, a)
    BY <1>1 DEF OnAp
  <2>. QED
    BY <1>1, <2>1 DEF EdgeOn, OnAp
<1>6. ASSUME CoverageIsWeak(s)
      PROVE  CoverageIsWeak(t)
  <2>1. PICK a \in Extenders(s) :
            \/ \E e \in OnAp(s, a) : s.devices[e].rssi < Config.single_worst_rssi_dbm
            \/ /\ EdgeOn(s, a) # {}
               /\ Cardinality(EdgeOn(s, a)) >= Config.min_cluster_size
    BY <1>1, <1>6, WeakCoverage
  <2>2. CASE \E e \in OnAp(s, a) : s.devices[e].rssi < Config.single_worst_rssi_dbm
    <3>1. PICK e \in OnAp(s, a) : s.devices[e].rssi < Config.single_worst_rssi_dbm
      BY <2>2
    <3>2. e \in OnAp(t, a) /\ e \in DOMAIN t.devices
      BY <1>5 DEF OnAp
    <3>3. t.devices[e].rssi < Config.single_worst_rssi_dbm
      BY <1>1, <1>3, <3>1, <3>2, ConfigType
    <3>. QED
      BY <1>4, <3>2, <3>3, WeakCoverage
  <2>3. CASE /\ EdgeOn(s, a) # {}
             /\ Cardinality(EdgeOn(s, a)) >= Config.min_cluster_size
    <3>1. /\ IsFiniteSet(EdgeOn(t, a)) /\ Cardinality(EdgeOn(t, a)) \in Nat
          /\ Cardinality(EdgeOn(s, a)) \in Nat
      BY <1>1, DevicesAreRows
    <3>2. Cardinality(EdgeOn(s, a)) <= Cardinality(EdgeOn(t, a))
      BY <1>5, <3>1, FS_Subset
    <3>3. EdgeOn(t, a) # {} /\ Cardinality(EdgeOn(t, a)) >= Config.min_cluster_size
      BY <1>5, <2>3, <3>1, <3>2, ConfigType
    <3>. QED
      BY <1>4, <3>3, WeakCoverage
  <2>. QED
    BY <2>1, <2>2, <2>3
<1>7. ASSUME NEW rule \in DOMAIN rules, NEW value, value = rules[rule]
      PROVE  Holds(rule, value, t)
  <2>1. /\ rule \in Rules /\ Holds(rule, value, s)
        /\ rule = "coverage_is_weak" => value = TRUE
        /\ rule \in {"device_on_extender_rssi_at_or_below",
                     "any_device_rssi_at_or_below"} => value \in Int
    BY <1>2, <1>7 DEF OffersNameBadness
  <2>2. CASE rule = "coverage_is_weak"
    <3>1. value = TRUE
      BY <2>1, <2>2
    <3>2. CoverageIsWeak(s)
      BY <2>1, <2>2, <3>1, RulesHold, Zenon
    <3>. QED
      BY <1>6, <2>2, <3>1, <3>2, RulesHold, Zenon
  <2>3. CASE rule = "device_on_extender_rssi_at_or_below"
    <3>1. PICK e \in DevicesOnExtenders(s) : s.devices[e].rssi <= value
      BY <2>1, <2>3, RulesHold, Zenon
    <3>2. e \in DevicesOnExtenders(t) /\ e \in DOMAIN t.devices
      BY <1>4 DEF DevicesOnExtenders
    <3>3. t.devices[e].rssi <= value
      BY <1>1, <1>3, <2>1, <2>3, <3>1, <3>2
    <3>. QED
      BY <2>3, <3>2, <3>3, RulesHold, Zenon
  <2>4. CASE rule = "any_device_rssi_at_or_below"
    <3>1. PICK e \in DOMAIN s.devices : s.devices[e].rssi <= value
      BY <2>1, <2>4, RulesHold, Zenon
    <3>2. e \in DOMAIN t.devices /\ t.devices[e].rssi <= value
      BY <1>1, <1>3, <2>1, <2>4, <3>1
    <3>. QED
      BY <2>4, <3>2, RulesHold, Zenon
  <2>5. CASE rule = "extender_backhaul_at_or_below"
    <3>1. \E a \in Extenders(s) : s.access_points[a].backhaul_quality <= value
      BY <2>1, <2>5, RulesHold, Zenon
    <3>2. \E a \in Extenders(t) : t.access_points[a].backhaul_quality <= value
      BY <1>1, <1>4, <3>1
    <3>. QED
      BY <2>5, <3>2, RulesHold, Zenon
  <2>6. CASE rule = "extender_status_in"
    <3>1. \E a \in Extenders(s) : s.access_points[a].status \in value
      BY <2>1, <2>6, RulesHold, Zenon
    <3>2. \E a \in Extenders(t) : t.access_points[a].status \in value
      BY <1>1, <1>4, <3>1
    <3>. QED
      BY <2>6, <3>2, RulesHold, Zenon
  <2>7. CASE rule = "min_extenders"
    BY <1>4, <2>1, <2>7, RulesHold, Zenon
  <2>8. CASE rule = "min_devices"
    BY <1>1, <2>1, <2>8, RulesHold, Zenon
  <2>. QED
    BY <2>1, <2>2, <2>3, <2>4, <2>5, <2>6, <2>7, <2>8 DEF Rules
<1>. QED
  BY <1>7 DEF IsEligible

\* Nor after a reboot to a healthy backhaul.
LEMMA RebootOpensNothing ==
    ASSUME NEW t, IsTopology(t), NEW a \in UnhealthyExtenders(t), NEW quality \in PgInteger,
           quality >= Config.healthy_backhaul_quality, OffersNameBadness,
           NEW i \in DOMAIN Catalogue, IsEligible(Catalogue[i], Rebooted(t, a, quality))
    PROVE  IsEligible(Catalogue[i], t)
<1> DEFINE s == Rebooted(t, a, quality)
           rules == Catalogue[i].eligibility
<1>1. a \in DOMAIN t.access_points
  BY DEF UnhealthyExtenders, Extenders
<1>2. /\ s.devices = t.devices /\ DOMAIN s.access_points = DOMAIN t.access_points
      /\ \A b \in DOMAIN t.access_points : b # a => s.access_points[b] = t.access_points[b]
      /\ s.access_points[a].status = "online"
      /\ s.access_points[a].backhaul_quality = quality
      /\ s.access_points[a].kind = t.access_points[a].kind
  BY <1>1, RebootWrites
<1>3. \A rule \in DOMAIN rules : Holds(rule, rules[rule], s)
  BY DEF IsEligible
<1>. HIDE DEF s
<1>4. Extenders(s) = Extenders(t) /\ DevicesOnExtenders(s) = DevicesOnExtenders(t)
  <2>1. Extenders(s) = Extenders(t)
    BY <1>2 DEF Extenders
  <2>. QED
    BY <1>2, <2>1 DEF DevicesOnExtenders
<1>5. CoverageIsWeak(s) => CoverageIsWeak(t)
  <2>1. \A b : OnAp(s, b) = OnAp(t, b) /\ EdgeOn(s, b) = EdgeOn(t, b)
    <3>1. \A b : OnAp(s, b) = OnAp(t, b)
      BY <1>2 DEF OnAp
    <3>. QED
      BY <1>2, <3>1 DEF EdgeOn
  <2>2. \A S : WorstRssi(s, S) = WorstRssi(t, S)
    BY <1>2 DEF WorstRssi, Weakest
  <2>. QED
    BY <1>4, <2>1, <2>2 DEF CoverageIsWeak, ClusterHits, SingleWorstHits
<1>6. quality \in Int /\ Config.healthy_backhaul_quality \in Int
  BY ConfigType DEF PgInteger
<1>7. ASSUME NEW rule \in DOMAIN rules, NEW value, value = rules[rule]
      PROVE  Holds(rule, value, t)
  <2>1. /\ rule \in Rules /\ Holds(rule, value, s)
        /\ rule = "coverage_is_weak" => value = TRUE
        /\ rule = "extender_backhaul_at_or_below" =>
               value \in Int /\ value < Config.healthy_backhaul_quality
        /\ rule = "extender_status_in" => "online" \notin value
    BY <1>3, <1>7 DEF OffersNameBadness
  <2>2. CASE rule = "coverage_is_weak"
    <3>1. value = TRUE
      BY <2>1, <2>2
    <3>2. CoverageIsWeak(s)
      BY <2>1, <2>2, <3>1, RulesHold, Zenon
    <3>. QED
      BY <1>5, <2>2, <3>1, <3>2, RulesHold, Zenon
  <2>3. CASE rule = "device_on_extender_rssi_at_or_below"
    <3>1. \E e \in DevicesOnExtenders(s) : s.devices[e].rssi <= value
      BY <2>1, <2>3, RulesHold, Zenon
    <3>2. \E e \in DevicesOnExtenders(t) : t.devices[e].rssi <= value
      BY <1>2, <1>4, <3>1
    <3>. QED
      BY <2>3, <3>2, RulesHold, Zenon
  <2>4. CASE rule = "any_device_rssi_at_or_below"
    <3>1. \E e \in DOMAIN s.devices : s.devices[e].rssi <= value
      BY <2>1, <2>4, RulesHold, Zenon
    <3>2. \E e \in DOMAIN t.devices : t.devices[e].rssi <= value
      BY <1>2, <3>1
    <3>. QED
      BY <2>4, <3>2, RulesHold, Zenon
  <2>5. CASE rule = "extender_backhaul_at_or_below"
    <3>1. PICK b \in Extenders(s) : s.access_points[b].backhaul_quality <= value
      BY <2>1, <2>5, RulesHold, Zenon
    <3>2. b # a
      BY <1>2, <1>6, <2>1, <2>5, <3>1
    <3>3. b \in Extenders(t) /\ t.access_points[b].backhaul_quality <= value
      BY <1>2, <1>4, <3>1, <3>2 DEF Extenders
    <3>. QED
      BY <2>5, <3>3, RulesHold, Zenon
  <2>6. CASE rule = "extender_status_in"
    <3>1. PICK b \in Extenders(s) : s.access_points[b].status \in value
      BY <2>1, <2>6, RulesHold, Zenon
    <3>2. b # a
      BY <1>2, <2>1, <2>6, <3>1
    <3>3. b \in Extenders(t) /\ t.access_points[b].status \in value
      BY <1>2, <1>4, <3>1, <3>2 DEF Extenders
    <3>. QED
      BY <2>6, <3>3, RulesHold, Zenon
  <2>7. CASE rule = "min_extenders"
    BY <1>4, <2>1, <2>7, RulesHold, Zenon
  <2>8. CASE rule = "min_devices"
    BY <1>2, <2>1, <2>8, RulesHold, Zenon
  <2>. QED
    BY <2>1, <2>2, <2>3, <2>4, <2>5, <2>6, <2>7, <2>8 DEF Rules
<1>. QED
  BY <1>7 DEF IsEligible

\* The best offer of a home is the first that is eligible.
LEMMA FirstEligible ==
    ASSUME NEW t, OffersNameBadness
    PROVE  LET fits == {i \in DOMAIN Catalogue : IsEligible(Catalogue[i], t)}
           IN  /\ fits # {} => \E i \in fits : /\ \A j \in fits : i <= j
                                               /\ BestOffer(Catalogue, t) = Catalogue[i].offer_id
               /\ BestOffer(Catalogue, t) # NoOffer <=> fits # {}
<1> DEFINE fits == {i \in DOMAIN Catalogue : IsEligible(Catalogue[i], t)}
<1>1. fits \in SUBSET Int /\ \A i \in fits : 1 <= i
  <2>1. DOMAIN Catalogue \subseteq Nat \ {0}
    BY DEF OffersNameBadness
  <2>2. \A i \in Nat \ {0} : i \in Int /\ 1 <= i
    OBVIOUS
  <2>. QED
    BY <2>1, <2>2
<1>2. ASSUME fits # {}
      PROVE  \E i \in fits : /\ \A j \in fits : i <= j
                             /\ BestOffer(Catalogue, t) = Catalogue[i].offer_id
  <2> DEFINE least == CHOOSE i \in fits : \A j \in fits : i <= j
  <2>1. BestOffer(Catalogue, t) = Catalogue[least].offer_id
    BY <1>2, Zenon DEF BestOffer
  <2>. HIDE DEF fits
  <2>2. \E i \in fits : \A j \in fits : i <= j
    BY <1>1, <1>2, LeastNumber
  <2>3. least \in fits /\ \A j \in fits : least <= j
    BY <2>2
  <2>. QED
    BY <2>1, <2>3
<1>3. fits = {} => BestOffer(Catalogue, t) = NoOffer
  BY Zenon DEF BestOffer
<1>4. fits # {} => BestOffer(Catalogue, t) # NoOffer
  <2>1. \A i \in fits : Catalogue[i].offer_id # NoOffer
    BY DEF OffersNameBadness
  <2>. HIDE DEF fits
  <2>. QED
    BY <1>2, <2>1
<1>. QED
  BY <1>2, <1>3, <1>4

LEMMA StepOpensNoOffer ==
    ASSUME TypeOK, Next, OffersNameBadness, SteerMends
    PROVE  LET before == OffersAnswer(Catalogue, home)
               after  == OffersAnswer(Catalogue, home')
           IN  after.eligible =>
                   /\ before.eligible
                   /\ \E i, j \in DOMAIN Catalogue :
                          /\ i <= j
                          /\ Catalogue[i].offer_id = before.offer_id
                          /\ Catalogue[j].offer_id = after.offer_id
<1> DEFINE fits(t) == {i \in DOMAIN Catalogue : IsEligible(Catalogue[i], t)}
           f == ChosenFault(home)
           r == DeviceAction(home, Recommended(f), Target(home, f), NoBand).topology
           before == OffersAnswer(Catalogue, home)
           after  == OffersAnswer(Catalogue, r)
<1>1. IsTopology(home) /\ Recommended(f) \in Verbs /\ home' = r
  BY StepRunsVerdict DEF TypeOK
<1>2. \/ \E d \in StuckDevices(home) : r = Steered(home, d, NoBand)
      \/ \E a \in UnhealthyExtenders(home) : \E quality \in PgInteger :
             /\ quality >= Config.healthy_backhaul_quality
             /\ r = Rebooted(home, a, quality)
  BY <1>1, VerdictEffect
<1>. HIDE DEF f, r
<1>3. fits(r) \subseteq fits(home)
  BY <1>1, <1>2, SteerOpensNothing, RebootOpensNothing
<1>4. ~ IsEmpty(home)
  BY <1>2 DEF IsEmpty, StuckDevices, UnhealthyExtenders, Extenders
<1>5. ASSUME after.eligible
      PROVE  /\ before.eligible
             /\ \E i, j \in DOMAIN Catalogue :
                    /\ i <= j
                    /\ Catalogue[i].offer_id = before.offer_id
                    /\ Catalogue[j].offer_id = after.offer_id
  <2>1. /\ before.eligible <=> BestOffer(Catalogue, home) # NoOffer
        /\ before.offer_id = BestOffer(Catalogue, home)
    BY <1>4 DEF OffersAnswer
  <2>2. BestOffer(Catalogue, r) # NoOffer /\ after.offer_id = BestOffer(Catalogue, r)
    BY <1>5 DEF OffersAnswer
  <2>. HIDE DEF before, after
  <2>3. fits(r) # {} /\ fits(home) # {}
    BY <1>3, <2>2, FirstEligible
  <2>4. PICK j \in fits(r) : BestOffer(Catalogue, r) = Catalogue[j].offer_id
    BY <2>3, FirstEligible
  <2>5. PICK i \in fits(home) : /\ \A k \in fits(home) : i <= k
                                /\ BestOffer(Catalogue, home) = Catalogue[i].offer_id
    BY <2>3, FirstEligible
  <2>6. before.eligible
    BY <2>1, <2>3, FirstEligible
  <2>. QED
    BY <1>3, <2>1, <2>2, <2>4, <2>5, <2>6
<1>. QED
  BY <1>1, <1>5 DEF before, after

\* Mending a home opens no offer that is for a home where something is bad: after any
\* verb the verdict recommends, the customer hears of the offer of before or of one
\* that the pack ranks lower, whatever the home and the catalogue.
THEOREM HealingSellsNothing ==
    ASSUME OffersNameBadness, SteerMends
    PROVE  Spec => HealingOpensNoOffer
<1>1. TypeOK /\ [Next]_vars =>
          [LET before == OffersAnswer(Catalogue, home)
               after  == OffersAnswer(Catalogue, home')
           IN  after.eligible =>
                   /\ before.eligible
                   /\ \E i, j \in DOMAIN Catalogue :
                          /\ i <= j
                          /\ Catalogue[i].offer_id = before.offer_id
                          /\ Catalogue[j].offer_id = after.offer_id]_vars
  BY StepOpensNoOffer
<1>. QED
  BY <1>1, HomeTypes, PTL DEF Spec, HealingOpensNoOffer
=============================================================================
