---------------------------- MODULE ContactProofs ----------------------------
(****************************************************************************)
(* Who is calling and over which channel, for any tenants, packs, texts and *)
(* workers: what Contact keeps through every edit, seed, reset and crash.   *)
(****************************************************************************)
EXTENDS Contact, SequenceTheorems, FiniteSetTheorems, TLAPS

\* Each table is kept per tenant, each request per worker.
ShapeInv ==
    /\ DOMAIN homes = Tenant
    /\ DOMAIN request = Worker
    /\ spine = [t \in Tenant |-> Rows(seeded[t])]

\* The clock only grows: an event is younger than those on record when its
\* request came in, and no older than the clock.
ClockInv ==
    /\ \A e \in events : e.at <= tick /\ \A a \in e.after : a < e.at
    /\ \A w \in Worker : pc[w] = "record" =>
           request[w].at <= tick /\ \A a \in request[w].after : a < request[w].at

\* An interaction names its channel.
ChannelInv ==
    /\ \A e \in events : e.kind = "interaction" => e.channel # ""
    /\ \A w \in Worker : pc[w] = "record" /\ request[w].kind = "interaction" =>
           request[w].channel # ""

\* A reset deletes events of its own tenant only.  What it adds to the homes and
\* drops from them is, whatever else commits meanwhile, what still separates them
\* from the pack on file; so of two resets of a tenant neither has any of it.
ResetInv ==
    \A w \in Worker : pc[w] = "reset" =>
        /\ \A e \in doomed[w] : e.tenant = request[w].tenant
        /\ request[w].adds = Added(request[w].tenant)
        /\ request[w].drops = Dropped(request[w].tenant)
        /\ \A v \in Worker \ {w} :
               pc[v] = "reset" /\ request[v].tenant = request[w].tenant =>
                   request[w].adds \union request[w].drops = {}

ContactInv ==
    /\ TypeOK
    /\ ShapeInv
    /\ ClockInv
    /\ ChannelInv
    /\ ResetInv

-----------------------------------------------------------------------------
USE ContactAssumption
(* Seeding *)

\* Merging a pack's rows onto old ones and pruning the others leaves the pack's.
LEMMA KeptMerged ==
    ASSUME NEW old, NEW new, new = [k \in DOMAIN new |-> new[k]]
    PROVE  Kept(Merged(old, new), DOMAIN new) = new
<1>. DEFINE all == Merged(old, new)
<1>1. /\ DOMAIN all = DOMAIN old \union DOMAIN new
      /\ \A k \in DOMAIN new : all[k] = new[k]
  BY DEF Merged
<1>2. Kept(all, DOMAIN new) = [k \in DOMAIN new |-> new[k]]
  <2>. HIDE DEF all
  <2>. QED
    BY <1>1 DEF Kept
<1>. QED
  BY <1>2

\* What a pack describes: the foreign keys and the unique constraint hold.
LEMMA RowsType ==
    ASSUME NEW p \in Pack
    PROVE  /\ p.tenant \in Tenant
           /\ Rows(p).parties = 0..(p.count - 1) /\ Rows(p).parties \subseteq Nat
           /\ IsFiniteSet(Rows(p).parties)
           /\ DOMAIN Rows(p).identities \subseteq Rows(p).parties \X IdTypes
           /\ DOMAIN Rows(p).factors \subseteq Rows(p).parties \X FactorType
           /\ DOMAIN Rows(p).contacts \subseteq Rows(p).parties \X ContactChannel
           /\ \A j, k \in DOMAIN Rows(p).identities :
                  j[2] = k[2] /\ Rows(p).identities[j] = Rows(p).identities[k] => j = k
<1>. DEFINE index == 0..(p.count - 1)
<1>1. IsPack(p) /\ IsUsable(p)
  OBVIOUS
<1>2. p.tenant \in Tenant /\ p.count \in Nat /\ p.id_types \subseteq IdTypes
  BY <1>1 DEF IsPack
<1>3. p.factor_type \in FactorType /\ p.channels \subseteq ContactChannel
  BY <1>1 DEF IsPack
<1>4. index \subseteq Nat /\ IsFiniteSet(index)
  BY <1>2, FS_Interval
<1>5. /\ Rows(p).parties = index
      /\ Rows(p).identities = [k \in index \X p.id_types |-> p.values[k[1]][k[2]]]
      /\ DOMAIN Rows(p).factors = index \X {p.factor_type}
      /\ DOMAIN Rows(p).contacts = index \X p.channels
  BY DEF Rows
<1>6. ASSUME NEW j \in index \X p.id_types, NEW k \in index \X p.id_types,
             j[2] = k[2], p.values[j[1]][j[2]] = p.values[k[1]][k[2]]
      PROVE  j = k
  <2>1. j[1] = k[1]
    BY <1>1, <1>6 DEF IsUsable
  <2>. QED
    BY <1>6, <2>1
<1>. QED
  BY <1>2, <1>3, <1>4, <1>5, <1>6

\* seed_tenant leaves the rows of the pack and nothing else.
LEMMA SeedRows ==
    ASSUME NEW t \in Tenant, ContactInv, Seed(t)
    PROVE  /\ spine' = [u \in Tenant |-> Rows(seeded'[u])]
           /\ \A u \in Tenant \ {t} : spine'[u] = spine[u]
           /\ spine'[t] = Rows(disk[t])
<1>. DEFINE p   == disk[t]
            old == spine[t]
            new == Rows(p)
            all == [country    |-> new.country,
                    parties    |-> old.parties \union new.parties,
                    identities |-> Merged(old.identities, new.identities),
                    factors    |-> Merged(old.factors, new.factors),
                    contacts   |-> Merged(old.contacts, new.contacts)]
<1>1. spine' = [spine EXCEPT ![t] = Pruned(all, new)] /\ seeded' = [seeded EXCEPT ![t] = p]
  BY DEF Seed
<1>2. Pruned(all, new) = new
  <2>1. /\ new.identities = [k \in DOMAIN new.identities |-> new.identities[k]]
        /\ new.factors = [k \in DOMAIN new.factors |-> new.factors[k]]
        /\ new.contacts = [k \in DOMAIN new.contacts |-> new.contacts[k]]
    BY DEF Rows
  <2>2. /\ Kept(Merged(old.identities, new.identities), DOMAIN new.identities) = new.identities
        /\ Kept(Merged(old.factors, new.factors), DOMAIN new.factors) = new.factors
        /\ Kept(Merged(old.contacts, new.contacts), DOMAIN new.contacts) = new.contacts
    BY <2>1, KeptMerged
  <2>3. new = [country |-> new.country, parties |-> new.parties, identities |-> new.identities,
               factors |-> new.factors, contacts |-> new.contacts]
    BY DEF Rows
  <2>4. Pruned(all, new) = [country    |-> new.country,
                            parties    |-> new.parties,
                            identities |-> Kept(Merged(old.identities, new.identities), DOMAIN new.identities),
                            factors    |-> Kept(Merged(old.factors, new.factors), DOMAIN new.factors),
                            contacts   |-> Kept(Merged(old.contacts, new.contacts), DOMAIN new.contacts)]
    BY DEF Pruned
  <2>. HIDE DEF new
  <2>. QED
    BY <2>2, <2>3, <2>4
<1>3. spine = [u \in Tenant |-> Rows(seeded[u])] /\ seeded \in [Tenant -> Pack]
  BY DEF ContactInv, ShapeInv, TypeOK
<1>. HIDE DEF new, all
<1>4. spine' = [u \in Tenant |-> IF u = t THEN new ELSE spine[u]]
  BY <1>1, <1>2, <1>3
<1>5. \A u \in Tenant : seeded'[u] = IF u = t THEN p ELSE seeded[u]
  BY <1>1, <1>3
<1>. QED
  BY <1>3, <1>4, <1>5 DEF new

\* The tables of every tenant hold what its last pack describes, so they are well
\* typed whenever the packs are.
LEMMA SpineType ==
    ASSUME seeded \in [Tenant -> Pack], spine = [t \in Tenant |-> Rows(seeded[t])],
           NEW t \in Tenant
    PROVE  /\ spine[t] = Rows(seeded[t]) /\ seeded[t] \in Pack
           /\ spine[t].parties \subseteq Nat
           /\ IsFiniteSet(spine[t].parties)
           /\ DOMAIN spine[t].identities \subseteq spine[t].parties \X IdTypes
           /\ DOMAIN spine[t].factors \subseteq spine[t].parties \X FactorType
           /\ DOMAIN spine[t].contacts \subseteq spine[t].parties \X ContactChannel
           /\ \A j, k \in DOMAIN spine[t].identities :
                  j[2] = k[2] /\ spine[t].identities[j] = spine[t].identities[k] => j = k
BY RowsType

-----------------------------------------------------------------------------
(* Resolution *)

\* resolve_profile, by the number of identities that have the value.
LEMMA ResolveCount ==
    ASSUME ContactInv, NEW t \in Tenant, NEW value
    PROVE  LET rows == spine[t].identities
               hits == {k \in DOMAIN rows : rows[k] = value}
           IN  /\ Cardinality(hits) \in Nat
               /\ Cardinality(hits) = 0 => ResolveProfile(t, value) = Nobody
               /\ Cardinality(hits) > 1 => ResolveProfile(t, value) = Ambiguous
               /\ Cardinality(hits) = 1 =>
                      \E k \in hits : ResolveProfile(t, value) =
                          [found |-> TRUE, raises |-> FALSE, party |-> k[1], id_type |-> k[2],
                           value |-> value]
<1>. DEFINE rows == spine[t].identities
            hits == {k \in DOMAIN rows : rows[k] = value}
            k0   == CHOOSE k \in hits : TRUE
<1>1. DOMAIN rows \subseteq spine[t].parties \X IdTypes /\ IsFiniteSet(spine[t].parties)
  BY SpineType DEF ContactInv, ShapeInv, TypeOK
<1>2. IsFiniteSet(hits)
  <2>1. IsFiniteSet(IdTypes)
    <3>1. IsFiniteSet({"phone"}) /\ IsFiniteSet({"email"})
          /\ IsFiniteSet({"account_no"}) /\ IsFiniteSet({"msisdn"})
      BY FS_Singleton
    <3>2. IdTypes = ({"phone"} \union {"email"}) \union ({"account_no"} \union {"msisdn"})
      BY DEF IdTypes
    <3>. QED
      BY <3>1, <3>2, FS_Union
  <2>. HIDE DEF rows
  <2>2. IsFiniteSet(spine[t].parties \X IdTypes)
    BY <1>1, <2>1, FS_Product
  <2>3. hits \in SUBSET (spine[t].parties \X IdTypes)
    BY <1>1
  <2>. QED
    BY <2>2, <2>3, FS_Subset
<1>3. /\ Cardinality(hits) \in Nat
      /\ Cardinality(hits) = 0 <=> hits = {}
  BY <1>2, FS_CardinalityType, FS_EmptySet
<1>4. ASSUME Cardinality(hits) = 0
      PROVE  ResolveProfile(t, value) = Nobody
  <2>1. hits = {} /\ ~(Cardinality(hits) > 1) /\ Cardinality(hits) # 1
    BY <1>3, <1>4
  <2>. QED
    BY <2>1 DEF ResolveProfile
<1>5. ASSUME Cardinality(hits) > 1
      PROVE  ResolveProfile(t, value) = Ambiguous
  <2>1. hits # {} /\ Cardinality(hits) # 1
    BY <1>3, <1>5
  <2>. QED
    BY <1>5, <2>1 DEF ResolveProfile
<1>6. ASSUME Cardinality(hits) = 1
      PROVE  /\ k0 \in hits
             /\ ResolveProfile(t, value) =
                    [found |-> TRUE, raises |-> FALSE, party |-> k0[1], id_type |-> k0[2],
                     value |-> value]
  <2>1. hits # {} /\ ~(Cardinality(hits) > 1)
    BY <1>3, <1>6
  <2>. QED
    BY <1>6, <2>1 DEF ResolveProfile
<1>. QED
  BY <1>3, <1>4, <1>5, <1>6

\* Whoever is found has the identity that was found.
LEMMA ResolveHit ==
    ASSUME ContactInv, NEW t \in Tenant, NEW text, Resolve(t, text).found
    PROVE  \E k \in DOMAIN spine[t].identities :
               /\ k[1] \in spine[t].parties
               /\ Resolve(t, text) =
                      [found |-> TRUE, raises |-> FALSE, party |-> k[1], id_type |-> k[2],
                       value |-> spine[t].identities[k]]
<1>. DEFINE n    == NormalizeIdentifier(text, spine[t].country)
            rows == spine[t].identities
            hits == {k \in DOMAIN rows : rows[k] = n.value}
<1>1. ~Nobody.found /\ ~Ambiguous.found
  BY DEF Nobody, Ambiguous
<1>2. Resolve(t, text) = ResolveProfile(t, n.value)
  BY <1>1 DEF Resolve
<1>. HIDE DEF n
<1>3. /\ Cardinality(hits) \in Nat
      /\ Cardinality(hits) = 0 => ResolveProfile(t, n.value) = Nobody
      /\ Cardinality(hits) > 1 => ResolveProfile(t, n.value) = Ambiguous
      /\ Cardinality(hits) = 1 =>
             \E k \in hits : ResolveProfile(t, n.value) =
                 [found |-> TRUE, raises |-> FALSE, party |-> k[1], id_type |-> k[2],
                  value |-> n.value]
  BY ResolveCount
<1>4. Cardinality(hits) = 1
  <2>1. Cardinality(hits) \in Nat /\ Cardinality(hits) # 0 /\ ~(Cardinality(hits) > 1)
    BY <1>1, <1>2, <1>3
  <2>. QED
    BY <2>1
<1>5. PICK k \in hits : ResolveProfile(t, n.value) =
          [found |-> TRUE, raises |-> FALSE, party |-> k[1], id_type |-> k[2],
           value |-> n.value]
  BY <1>3, <1>4
<1>6. k \in DOMAIN rows /\ rows[k] = n.value
  BY <1>5
<1>7. k[1] \in spine[t].parties
  BY <1>6, SpineType DEF ContactInv, ShapeInv, TypeOK
<1>. QED
  BY <1>2, <1>5, <1>6, <1>7

-----------------------------------------------------------------------------
(* Homes *)

\* A pack assigns homes to parties of its own list, made of the rows there are.
LEMMA HomeRowsType ==
    ASSUME NEW p \in Pack, NEW parties
    PROVE  /\ HomeRows(p, parties) \subseteq parties \X HomeRow
           /\ \A row \in HomeRows(p, parties) : row[1] \in parties
           /\ \A more : \A row \in HomeRows(p, more) :
                  row[1] \in parties => row \in HomeRows(p, parties)
<1>1. \A i \in DOMAIN p.homes : p.homes[i] \subseteq HomeRow
  BY DEF IsPack
<1>. QED
  BY <1>1 DEF HomeRows

-----------------------------------------------------------------------------
(* Steps *)

\* Who is not served keeps its step, its request and its doomed events.
Others(w) ==
    \A v \in Worker \ {w} :
        pc'[v] = pc[v] /\ request'[v] = request[v] /\ doomed'[v] = doomed[v]

\* The initial states.
LEMMA InitContact == Init => ContactInv
<1>. SUFFICES ASSUME Init
              PROVE  ContactInv
  OBVIOUS
<1>1. ShapeInv
  BY DEF Init, ShapeInv
<1>2. \A t \in Tenant : homes[t] \subseteq spine[t].parties \X HomeRow
  <2>. SUFFICES ASSUME NEW t \in Tenant
                PROVE  homes[t] \subseteq spine[t].parties \X HomeRow
    OBVIOUS
  <2>1. spine[t].parties = 0..(FirstPack[t].count - 1)
    BY RowsType DEF Init
  <2>2. homes[t] = HomeRows(FirstPack[t], 0..(FirstPack[t].count - 1)) /\ FirstPack[t] \in Pack
    BY DEF Init
  <2>3. HomeRows(FirstPack[t], spine[t].parties) \subseteq spine[t].parties \X HomeRow
    BY <2>2, HomeRowsType
  <2>. QED
    BY <2>1, <2>2, <2>3
<1>3. seeded \in [Tenant -> Pack]
  BY DEF Init
<1>4. TypeOK
  BY <1>1, <1>2, <1>3, SpineType DEF Init, TypeOK, ShapeInv
<1>5. ClockInv /\ ChannelInv /\ ResetInv
  BY DEF Init, ClockInv, ChannelInv, ResetInv
<1>. QED
  BY <1>1, <1>4, <1>5 DEF ContactInv

\* An edit of a pack file, which waits for the resets at work on it.
LEMMA EditContact ==
    ASSUME ContactInv, NEW p \in Pack, Edit(p)
    PROVE  ContactInv'
<1>1. /\ p.tenant \in Tenant
      /\ \A w \in Worker : pc[w] = "reset" => request[w].tenant # p.tenant
      /\ \A t \in Tenant \ {p.tenant} : disk'[t] = disk[t]
      /\ disk' \in [Tenant -> Pack]
      /\ UNCHANGED <<spine, homes, events, pc, request, doomed, tick, seeded>>
  BY RowsType DEF Edit, Resetting, ContactInv, TypeOK
<1>2. TypeOK'
  BY <1>1 DEF ContactInv, TypeOK
<1>3. ShapeInv' /\ ClockInv' /\ ChannelInv'
  BY <1>1 DEF ContactInv, ShapeInv, ClockInv, ChannelInv
<1>4. \A t \in Tenant \ {p.tenant} : Added(t)' = Added(t) /\ Dropped(t)' = Dropped(t)
  BY <1>1 DEF Added, Dropped, Laid
<1>5. ResetInv'
  BY <1>1, <1>4 DEF ContactInv, ResetInv, TypeOK
<1>. QED
  BY <1>2, <1>3, <1>5 DEF ContactInv

\* A re-seed: it commits only where every reset of the tenant that is under way
\* found nothing to add or drop, and then there still is nothing.
LEMMA SeedContact ==
    ASSUME ContactInv, NEW t \in Tenant, Seed(t)
    PROVE  ContactInv'
<1>0. PICK p : p = disk[t]
  OBVIOUS
<1>1. p \in Pack /\ UNCHANGED <<disk, pc, request, doomed, tick>>
  BY <1>0 DEF Seed, ContactInv, TypeOK
<1>2. /\ spine' = [u \in Tenant |-> Rows(seeded'[u])]
      /\ \A u \in Tenant \ {t} : spine'[u] = spine[u]
      /\ spine'[t] = Rows(p)
  BY <1>0, SeedRows
<1>3. PICK parties : parties = Rows(p).parties
  OBVIOUS
<1>4. PICK laid : laid = IF p.networked THEN HomeRows(p, parties) ELSE {}
  OBVIOUS
<1>5. /\ homes' = [homes EXCEPT ![t] = laid]
      /\ events' = {e \in events : e.tenant = t => e.party \in parties}
      /\ seeded' = [seeded EXCEPT ![t] = p]
      /\ Unblocked(t, (homes[t] \ laid) \union (laid \ homes[t]), parties)
  BY <1>0, <1>3, <1>4 DEF Seed
<1>6. /\ homes'[t] = laid /\ DOMAIN homes' = Tenant
      /\ \A u \in Tenant \ {t} : homes'[u] = homes[u]
  BY <1>5 DEF ContactInv, ShapeInv
<1>7. ShapeInv'
  BY <1>1, <1>2, <1>6 DEF ContactInv, ShapeInv
<1>8. ClockInv' /\ ChannelInv'
  BY <1>1, <1>5 DEF ContactInv, ClockInv, ChannelInv
<1>9. TypeOK'
  <2>1. seeded' \in [Tenant -> Pack]
    BY <1>1, <1>5 DEF ContactInv, TypeOK
  <2>2. \A u \in Tenant :
           /\ DOMAIN spine'[u].identities \subseteq spine'[u].parties \X IdTypes
           /\ DOMAIN spine'[u].factors \subseteq spine'[u].parties \X FactorType
           /\ DOMAIN spine'[u].contacts \subseteq spine'[u].parties \X ContactChannel
           /\ \A j, k \in DOMAIN spine'[u].identities :
                  j[2] = k[2] /\ spine'[u].identities[j] = spine'[u].identities[k] => j = k
    BY <1>2, <2>1, RowsType
  <2>3. spine'[t].parties = parties
    BY <1>2, <1>3
  <2>4. \A e \in events' : e.party \in spine'[e.tenant].parties
    BY <1>2, <1>5, <2>3 DEF ContactInv, TypeOK, EventType
  <2>5. laid \subseteq parties \X HomeRow
    BY <1>1, <1>4, HomeRowsType
  <2>6. \A u \in Tenant : homes'[u] \subseteq spine'[u].parties \X HomeRow
    BY <1>2, <1>6, <2>3, <2>5 DEF ContactInv, TypeOK
  <2>. QED
    BY <1>1, <1>5, <2>1, <2>2, <2>4, <2>6 DEF ContactInv, TypeOK
<1>10. \A u \in Tenant \ {t} : Added(u)' = Added(u) /\ Dropped(u)' = Dropped(u)
  BY <1>1, <1>2, <1>6 DEF Added, Dropped, Laid
<1>11. Added(t)' = {} /\ Dropped(t)' = {}
  <2>1. spine'[t].parties \intersect 0..(p.count - 1) = parties
    BY <1>1, <1>2, <1>3, RowsType
  <2>2. p.networked => Laid(t)' = laid
    BY <1>0, <1>1, <1>4, <2>1 DEF Laid
  <2>. QED
    BY <1>0, <1>1, <1>6, <2>2 DEF Added, Dropped
<1>12. ASSUME NEW w \in Worker, pc[w] = "reset", request[w].tenant = t
       PROVE  request[w].adds = {} /\ request[w].drops = {}
  <2>1. request[w].adds = Added(t) /\ request[w].drops = Dropped(t)
    BY <1>12 DEF ContactInv, ResetInv
  <2>2. CASE p.networked
    <3>1. PICK here : here = spine[t].parties \intersect 0..(p.count - 1)
      OBVIOUS
    <3>2. parties = 0..(p.count - 1) /\ laid = HomeRows(p, parties)
      BY <1>1, <1>3, <1>4, <2>2, RowsType
    <3>3. /\ request[w].adds = HomeRows(p, here) \ homes[t]
          /\ request[w].drops = homes[t] \ HomeRows(p, here)
      BY <1>0, <2>1, <2>2, <3>1 DEF Added, Dropped, Laid
    <3>4. HomeRows(p, here) \subseteq laid
      BY <3>1, <3>2 DEF HomeRows
    <3>5. \A row \in homes[t] : row[1] \in spine[t].parties
      BY DEF ContactInv, TypeOK
    <3>6. \A row \in laid : row[1] \in parties
      BY <1>1, <3>2, HomeRowsType
    <3>7. \A row \in homes[t] \intersect laid : row[1] \in here
      BY <3>1, <3>2, <3>5, <3>6
    <3>8. \A row \in homes[t] \intersect laid : row \in HomeRows(p, here)
      BY <1>1, <3>2, <3>7, HomeRowsType
    <3>9. request[w].adds \union request[w].drops \subseteq (homes[t] \ laid) \union (laid \ homes[t])
      BY <3>3, <3>4, <3>8
    <3>10. (request[w].adds \union request[w].drops)
               \intersect ((homes[t] \ laid) \union (laid \ homes[t])) = {}
      BY <1>5, <1>12 DEF Unblocked, Resetting
    <3>. QED
      BY <3>9, <3>10
  <2>3. CASE ~p.networked
    BY <1>0, <2>1, <2>3 DEF Added, Dropped
  <2>. QED
    BY <2>2, <2>3
<1>13. ResetInv'
  <2>. SUFFICES ASSUME NEW w \in Worker, pc[w] = "reset"
                PROVE  /\ \A e \in doomed[w] : e.tenant = request[w].tenant
                       /\ request[w].adds = Added(request[w].tenant)'
                       /\ request[w].drops = Dropped(request[w].tenant)'
                       /\ \A v \in Worker \ {w} :
                              pc[v] = "reset" /\ request[v].tenant = request[w].tenant =>
                                  request[w].adds \union request[w].drops = {}
    BY <1>1 DEF ResetInv
  <2>1. request[w].tenant \in Tenant
    BY DEF ContactInv, TypeOK
  <2>2. request'[w] = request[w]
    BY <1>1
  <2>3. CASE request[w].tenant = t
    BY <1>11, <1>12, <2>2, <2>3 DEF ContactInv, ResetInv
  <2>4. CASE request[w].tenant # t
    BY <1>10, <2>1, <2>2, <2>4 DEF ContactInv, ResetInv
  <2>. QED
    BY <2>3, <2>4
<1>. QED
  BY <1>7, <1>8, <1>9, <1>13 DEF ContactInv

\* A step of one worker that leaves the tables alone keeps what is said of the
\* other workers and of the homes they are resetting.
LEMMA QuietContact ==
    ASSUME ContactInv, NEW w \in Worker, Others(w), DOMAIN request' = Worker,
           UNCHANGED <<disk, spine, homes, seeded>>,
           pc'[w] # "reset"
    PROVE  ShapeInv' /\ ResetInv'
<1>1. ShapeInv'
  BY DEF ContactInv, ShapeInv
<1>2. \A t : Added(t)' = Added(t) /\ Dropped(t)' = Dropped(t)
  BY DEF Added, Dropped, Laid
<1>3. ResetInv'
  BY <1>2 DEF ContactInv, ResetInv, Others
<1>. QED
  BY <1>1, <1>3

\* What is recorded: an interaction names its channel.
Recordable(kind, channel) ==
    /\ kind \in {"interaction", "csat"} /\ channel \in Channel \union {"csat"}
    /\ kind = "interaction" => channel # ""

\* The first statement of a recording request.
LEMMA BeginContact ==
    ASSUME ContactInv, NEW w \in Worker, NEW t \in Tenant, NEW text, NEW kind, NEW channel,
           Recordable(kind, channel), Begin(w, t, text, kind, channel)
    PROVE  ContactInv'
<1>1. PICK party \in spine[t].parties : party = Resolve(t, text).party
  <2>1. Resolve(t, text).found
    BY DEF Begin
  <2>. QED
    BY <2>1, ResolveHit
<1>2. PICK ages : ages = {e.at : e \in events}
  OBVIOUS
<1>3. PICK event : event = [tenant |-> t, party |-> party, kind |-> kind,
                            channel |-> channel, at |-> tick + 1, after |-> ages]
  OBVIOUS
<1>4. /\ tick < MaxTick /\ tick' = tick + 1
      /\ request' = [request EXCEPT ![w] = event]
      /\ pc' = [pc EXCEPT ![w] = "record"]
      /\ UNCHANGED <<disk, spine, homes, events, doomed, seeded>>
  BY <1>1, <1>2, <1>3 DEF Begin
<1>5. tick \in 0..MaxTick /\ tick' \in 1..MaxTick /\ tick \in Nat
  BY <1>4 DEF ContactInv, TypeOK
<1>6. ages \subseteq 1..MaxTick /\ \A a \in ages : a < tick + 1
  <2>1. \A e \in events : e.at \in 1..MaxTick /\ e.at <= tick
    BY DEF ContactInv, TypeOK, EventType, ClockInv
  <2>2. \A e \in events : e.at < tick + 1
    BY <1>5, <2>1
  <2>. QED
    BY <1>2, <2>1, <2>2
<1>7. party \in Nat
  BY SpineType DEF ContactInv, ShapeInv, TypeOK
<1>8. event \in EventType
  BY <1>3, <1>4, <1>5, <1>6, <1>7 DEF EventType, Recordable
<1>9. /\ pc'[w] = "record" /\ request'[w] = event /\ Others(w)
      /\ pc' \in [Worker -> {"idle", "record", "reset"}] /\ DOMAIN request' = Worker
  BY <1>4 DEF ContactInv, TypeOK, ShapeInv, Others
<1>10. TypeOK'
  BY <1>4, <1>5, <1>8, <1>9 DEF ContactInv, TypeOK, Others
<1>11. ShapeInv' /\ ResetInv'
  BY <1>4, <1>9, QuietContact
<1>12. ClockInv'
  <2>1. event.at = tick' /\ event.after = ages
    BY <1>3, <1>4
  <2>2. \A e \in events : e.at <= tick'
    <3>1. \A e \in events : e.at \in Int /\ e.at <= tick
      BY DEF ContactInv, TypeOK, EventType, ClockInv
    <3>. QED
      BY <1>4, <1>5, <3>1
  <2>3. \A v \in Worker : pc[v] = "record" => request[v].at <= tick'
    <3>1. \A v \in Worker : pc[v] = "record" => request[v].at \in Int /\ request[v].at <= tick
      BY DEF ContactInv, TypeOK, EventType, ClockInv
    <3>. QED
      BY <1>4, <1>5, <3>1
  <2>4. event.at <= tick'
    BY <1>5, <2>1
  <2>5. \A a \in event.after : a < event.at
    <3>1. \A a \in ages : a < tick'
      BY <1>4, <1>6
    <3>. QED
      BY <2>1, <3>1
  <2>. QED
    BY <1>4, <1>9, <2>2, <2>3, <2>4, <2>5 DEF ContactInv, ClockInv, Others
<1>13. ChannelInv'
  BY <1>3, <1>4, <1>9 DEF ContactInv, ChannelInv, Others, Recordable
<1>. QED
  BY <1>10, <1>11, <1>12, <1>13 DEF ContactInv

\* The end of a request: nothing is kept of it.
Idle(w) ==
    /\ pc' = [pc EXCEPT ![w] = "idle"]
    /\ request' = [request EXCEPT ![w] = NoRequest]
    /\ doomed' \in {doomed, [doomed EXCEPT ![w] = {}]}

LEMMA IdleType ==
    ASSUME ContactInv, NEW w \in Worker, Idle(w)
    PROVE  /\ pc'[w] = "idle" /\ request'[w] = NoRequest /\ Others(w)
           /\ pc' \in [Worker -> {"idle", "record", "reset"}] /\ DOMAIN request' = Worker
           /\ doomed' \in [Worker -> SUBSET EventType]
BY DEF ContactInv, TypeOK, ShapeInv, Idle, Others

\* A request that ends without writing, with an error or in a crash.
LEMMA IdleContact ==
    ASSUME ContactInv, NEW w \in Worker, Idle(w),
           UNCHANGED <<disk, spine, homes, events, tick, seeded>>
    PROVE  ContactInv'
<1>1. TypeOK'
  BY IdleType DEF ContactInv, TypeOK, Others
<1>2. ShapeInv' /\ ResetInv'
  BY IdleType, QuietContact
<1>3. ClockInv' /\ ChannelInv'
  BY IdleType DEF ContactInv, ClockInv, ChannelInv, Others
<1>. QED
  BY <1>1, <1>2, <1>3 DEF ContactInv

\* record_event and its commit.
LEMMA RecordContact ==
    ASSUME ContactInv, NEW w \in Worker, RecordEvent(w)
    PROVE  ContactInv'
<1>1. /\ pc[w] = "record" /\ Idle(w)
      /\ UNCHANGED <<disk, spine, homes, tick, seeded>>
  BY DEF RecordEvent, Idle
<1>2. CASE request[w].party \notin spine[request[w].tenant].parties
  BY <1>1, <1>2, IdleContact DEF RecordEvent
<1>3. CASE request[w].party \in spine[request[w].tenant].parties
  <2>1. events' = events \union {request[w]}
    BY <1>3 DEF RecordEvent
  <2>2. request[w] \in EventType
    BY <1>1 DEF ContactInv, TypeOK
  <2>3. TypeOK'
    BY <1>1, <1>3, <2>1, <2>2, IdleType DEF ContactInv, TypeOK, Others
  <2>4. ShapeInv' /\ ResetInv'
    BY <1>1, IdleType, QuietContact
  <2>5. ClockInv' /\ ChannelInv'
    BY <1>1, <2>1, IdleType DEF ContactInv, ClockInv, ChannelInv, Others
  <2>. QED
    BY <2>3, <2>4, <2>5 DEF ContactInv
<1>. QED
  BY <1>2, <1>3

\* The statements of a reset, which waits for the resets under way to have nothing
\* in common with it; since they all work towards one pack, that is nothing at all.
LEMMA ResetContact ==
    ASSUME ContactInv, NEW w \in Worker, NEW t \in Tenant, ResetHomes(w, t)
    PROVE  ContactInv'
<1>1. PICK adds, drops : adds = Added(t) /\ drops = Dropped(t)
  OBVIOUS
<1>2. /\ pc[w] = "idle"
      /\ pc' = [pc EXCEPT ![w] = "reset"]
      /\ request' = [request EXCEPT ![w] = ResetOf(t, adds, drops)]
      /\ doomed' = [doomed EXCEPT ![w] = Doomed(t)]
      /\ UNCHANGED <<disk, spine, homes, events, tick, seeded>>
  BY <1>1 DEF ResetHomes
<1>3. /\ pc'[w] = "reset" /\ Others(w) /\ DOMAIN request' = Worker
      /\ pc' \in [Worker -> {"idle", "record", "reset"}]
      /\ request'[w] = ResetOf(t, adds, drops) /\ doomed'[w] = Doomed(t)
      /\ doomed' \in [Worker -> SUBSET EventType]
  <2>1. Doomed(t) \subseteq EventType
    BY DEF ContactInv, TypeOK, Doomed
  <2>. QED
    BY <1>2, <2>1 DEF ContactInv, TypeOK, ShapeInv, Others
<1>4. /\ request'[w].tenant = t /\ request'[w].adds = adds /\ request'[w].drops = drops
  BY <1>3 DEF ResetOf
<1>5. adds \subseteq Nat \X HomeRow /\ drops \subseteq Nat \X HomeRow
  <2>1. spine[t].parties \subseteq Nat
    BY SpineType DEF ContactInv, ShapeInv, TypeOK
  <2>2. homes[t] \subseteq spine[t].parties \X HomeRow
    BY DEF ContactInv, TypeOK
  <2>3. disk[t] \in Pack
    BY DEF ContactInv, TypeOK
  <2>4. PICK here : here = spine[t].parties \intersect 0..(disk[t].count - 1)
    OBVIOUS
  <2>5. Laid(t) \subseteq here \X HomeRow
    BY <2>3, <2>4, HomeRowsType DEF Laid
  <2>. QED
    BY <1>1, <2>1, <2>2, <2>4, <2>5 DEF Added, Dropped
<1>6. TypeOK'
  BY <1>2, <1>3, <1>4, <1>5 DEF ContactInv, TypeOK, Others
<1>7. ShapeInv' /\ ClockInv' /\ ChannelInv'
  BY <1>2, <1>3 DEF ContactInv, ShapeInv, ClockInv, ChannelInv, Others
<1>8. \A u : Added(u)' = Added(u) /\ Dropped(u)' = Dropped(u)
  BY <1>2 DEF Added, Dropped, Laid
<1>9. ASSUME NEW v \in Worker \ {w}, pc[v] = "reset", request[v].tenant = t
      PROVE  adds \union drops = {} /\ request[v].adds \union request[v].drops = {}
  <2>1. request[v].adds = adds /\ request[v].drops = drops
    BY <1>1, <1>9 DEF ContactInv, ResetInv
  <2>2. Unblocked(t, adds \union drops, spine[t].parties)
    BY <1>1 DEF ResetHomes
  <2>3. (request[v].adds \union request[v].drops) \intersect (adds \union drops) = {}
    BY <1>9, <2>2 DEF Unblocked, Resetting
  <2>. QED
    BY <2>1, <2>3
<1>10. ResetInv'
  <2>1. \A e \in Doomed(t) : e.tenant = t
    BY DEF Doomed
  <2>2. /\ \A e \in doomed'[w] : e.tenant = request'[w].tenant
        /\ request'[w].adds = Added(request[w].tenant)'
        /\ request'[w].drops = Dropped(request[w].tenant)'
    BY <1>1, <1>3, <1>4, <1>8, <2>1
  <2>3. \A v \in Worker \ {w} : pc'[v] = "reset" =>
            /\ \A e \in doomed'[v] : e.tenant = request'[v].tenant
            /\ request'[v].adds = Added(request[v].tenant)'
            /\ request'[v].drops = Dropped(request[v].tenant)'
    BY <1>3, <1>8 DEF ContactInv, ResetInv, Others
  <2>4. \A u, v \in Worker : u # v /\ pc'[u] = "reset" /\ pc'[v] = "reset"
                                /\ request'[u].tenant = request'[v].tenant =>
            request'[v].adds \union request'[v].drops = {}
    <3>. SUFFICES ASSUME NEW u \in Worker, NEW v \in Worker, u # v,
                         pc'[u] = "reset", pc'[v] = "reset",
                         request'[u].tenant = request'[v].tenant
                  PROVE  request'[v].adds \union request'[v].drops = {}
      OBVIOUS
    <3>1. CASE u = w
      BY <1>3, <1>4, <1>9, <3>1 DEF Others
    <3>2. CASE v = w
      BY <1>3, <1>4, <1>9, <3>2 DEF Others
    <3>3. CASE u # w /\ v # w
      BY <1>3, <3>3 DEF ContactInv, ResetInv, Others
    <3>. QED
      BY <3>1, <3>2, <3>3
  <2>. QED
    BY <2>2, <2>3, <2>4 DEF ResetInv
<1>. QED
  BY <1>6, <1>7, <1>10 DEF ContactInv

\* A commit of reset: its tenant's homes are those the pack on file assigns.
LEMMA ResetCommits ==
    ASSUME ContactInv, NEW w \in Worker, NEW t \in Tenant, CommitReset(w),
           request[w].tenant = t
    PROVE  /\ \A u \in Tenant \ {t} : homes'[u] = homes[u]
           /\ DOMAIN homes' = Tenant
           /\ homes'[t] = IF disk[t].networked THEN Laid(t) ELSE homes[t]
<1>1. pc[w] = "reset" /\ request[w].adds = Added(t) /\ request[w].drops = Dropped(t)
  BY DEF CommitReset, ContactInv, ResetInv
<1>2. homes' = [homes EXCEPT ![t] = (homes[t] \union Added(t)) \ Dropped(t)]
  BY <1>1 DEF CommitReset
<1>3. (homes[t] \union Added(t)) \ Dropped(t) = IF disk[t].networked THEN Laid(t) ELSE homes[t]
  BY DEF Added, Dropped
<1>. QED
  BY <1>2, <1>3 DEF ContactInv, ShapeInv

LEMMA CommitContact ==
    ASSUME ContactInv, NEW w \in Worker, CommitReset(w)
    PROVE  ContactInv'
<1>0. PICK t \in Tenant : t = request[w].tenant
  BY DEF CommitReset, ContactInv, TypeOK
<1>1. /\ pc[w] = "reset" /\ Idle(w) /\ events' \subseteq events
      /\ UNCHANGED <<disk, spine, tick, seeded>>
  BY DEF CommitReset, Idle
<1>2. /\ \A u \in Tenant \ {t} : homes'[u] = homes[u]
      /\ DOMAIN homes' = Tenant
      /\ homes'[t] = IF disk[t].networked THEN Laid(t) ELSE homes[t]
  BY <1>0, ResetCommits
<1>3. /\ pc'[w] = "idle" /\ request'[w] = NoRequest /\ Others(w)
      /\ pc' \in [Worker -> {"idle", "record", "reset"}] /\ DOMAIN request' = Worker
      /\ doomed' \in [Worker -> SUBSET EventType]
  BY <1>1, IdleType
<1>4. \A u \in Tenant : homes'[u] \subseteq spine'[u].parties \X HomeRow
  <2>1. disk[t] \in Pack
    BY DEF ContactInv, TypeOK
  <2>2. PICK here : here = spine[t].parties \intersect 0..(disk[t].count - 1)
    OBVIOUS
  <2>3. Laid(t) \subseteq here \X HomeRow
    BY <2>1, <2>2, HomeRowsType DEF Laid
  <2>4. homes'[t] \subseteq spine[t].parties \X HomeRow
    BY <1>2, <2>2, <2>3 DEF ContactInv, TypeOK
  <2>. QED
    BY <1>1, <1>2, <2>4 DEF ContactInv, TypeOK
<1>5. TypeOK'
  BY <1>1, <1>3, <1>4 DEF ContactInv, TypeOK, Others
<1>6. ShapeInv' /\ ClockInv' /\ ChannelInv'
  BY <1>1, <1>2, <1>3 DEF ContactInv, ShapeInv, ClockInv, ChannelInv, Others
<1>7. \A u \in Tenant \ {t} : Added(u)' = Added(u) /\ Dropped(u)' = Dropped(u)
  BY <1>1, <1>2 DEF Added, Dropped, Laid
<1>8. ASSUME NEW v \in Worker \ {w}, pc[v] = "reset", request[v].tenant = t
      PROVE  Added(t)' = Added(t) /\ Dropped(t)' = Dropped(t)
  <2>1. Added(t) = {} /\ Dropped(t) = {}
    BY <1>0, <1>1, <1>8 DEF ContactInv, ResetInv
  <2>2. disk[t].networked => Laid(t) = homes[t]
    BY <2>1 DEF Added, Dropped
  <2>3. homes'[t] = homes[t]
    BY <1>2, <2>2
  <2>. QED
    BY <1>1, <2>3 DEF Added, Dropped, Laid
<1>9. ResetInv'
  <2>. SUFFICES ASSUME NEW v \in Worker \ {w}, pc[v] = "reset"
                PROVE  /\ \A e \in doomed[v] : e.tenant = request[v].tenant
                       /\ request[v].adds = Added(request[v].tenant)'
                       /\ request[v].drops = Dropped(request[v].tenant)'
                       /\ \A u \in Worker \ {v} :
                              pc[u] = "reset" /\ request[u].tenant = request[v].tenant =>
                                  request[v].adds \union request[v].drops = {}
    BY <1>3 DEF ResetInv, Others
  <2>1. request[v].tenant \in Tenant /\ request'[v] = request[v]
    BY <1>3 DEF ContactInv, TypeOK, Others
  <2>2. CASE request[v].tenant = t
    BY <1>8, <2>1, <2>2 DEF ContactInv, ResetInv
  <2>3. CASE request[v].tenant # t
    BY <1>7, <2>1, <2>3 DEF ContactInv, ResetInv
  <2>. QED
    BY <2>2, <2>3
<1>. QED
  BY <1>5, <1>6, <1>9 DEF ContactInv

-----------------------------------------------------------------------------
(* Theorems *)

LEMMA StepContact ==
    ASSUME ContactInv, [Next]_vars
    PROVE  ContactInv'
<1>1. CASE \E p \in Pack : Edit(p)
  BY <1>1, EditContact
<1>2. CASE \E t \in Tenant : Seed(t)
  BY <1>2, SeedContact
<1>3. ASSUME NEW w \in Worker, NEW t \in Tenant, NEW text,
             NEW c \in Channel, InteractionEvent(w, t, text, c)
      PROVE  ContactInv'
  <2>1. Recordable("interaction", c) /\ Begin(w, t, text, "interaction", c)
    BY <1>3 DEF InteractionEvent, Recordable
  <2>. QED
    BY <2>1, BeginContact
<1>4. ASSUME NEW w \in Worker, NEW t \in Tenant, NEW text, Csat(w, t, text)
      PROVE  ContactInv'
  <2>1. Begin(w, t, text, "csat", "csat")
    BY <1>4 DEF Csat
  <2>2. Recordable("csat", "csat")
    BY DEF Recordable
  <2>. QED
    BY <2>1, <2>2, BeginContact
<1>5. CASE \E w \in Worker : RecordEvent(w)
  BY <1>5, RecordContact
<1>6. CASE \E w \in Worker, t \in Tenant : ResetHomes(w, t)
  BY <1>6, ResetContact
<1>7. CASE \E w \in Worker : CommitReset(w)
  BY <1>7, CommitContact
<1>8. CASE \E w \in Worker : Crash(w)
  BY <1>8, IdleContact DEF Crash, Idle
<1>9. CASE UNCHANGED vars
  <2>1. \A t : Added(t)' = Added(t) /\ Dropped(t)' = Dropped(t)
    BY <1>9 DEF vars, Added, Dropped, Laid
  <2>2. TypeOK' /\ ShapeInv'
    BY <1>9 DEF vars, ContactInv, TypeOK, ShapeInv
  <2>3. ClockInv' /\ ChannelInv'
    BY <1>9 DEF vars, ContactInv, ClockInv, ChannelInv
  <2>4. ResetInv'
    BY <1>9, <2>1 DEF vars, ContactInv, ResetInv
  <2>. QED
    BY <2>2, <2>3, <2>4 DEF ContactInv
<1>. QED
  BY <1>1, <1>2, <1>3, <1>4, <1>5, <1>6, <1>7, <1>8, <1>9 DEF Next

THEOREM ContactInvariance == Spec => []ContactInv
BY InitContact, StepContact, PTL DEF Spec

\* The tables keep their types, their foreign keys and the uniqueness of a value.
THEOREM ContactTypes == Spec => []TypeOK
<1>1. ContactInv => TypeOK
  BY DEF ContactInv
<1>. QED
  BY ContactInvariance, <1>1, PTL

\* seed_tenant is authoritative: whatever was there, the spine holds the last pack.
THEOREM SeedIsAuthoritative == Spec => []SpineIsLastSeed
<1>1. ContactInv => SpineIsLastSeed
  BY SpineType DEF ContactInv, ShapeInv, TypeOK, SpineIsLastSeed
<1>. QED
  BY ContactInvariance, <1>1, PTL

\* check_factor: no factor of an earlier pack, and nobody else's, verifies a caller.
THEOREM FactorsAreThePacks == Spec => []OnlyPackFactorsVerify
<1>1. ContactInv => OnlyPackFactorsVerify
  <2>. SUFFICES ASSUME ContactInv, NEW t \in Tenant, NEW text \in Text,
                       NEW type \in FactorType, NEW factor \in Factor,
                       Verified(t, Resolve(t, text), type, factor)
                PROVE  /\ type = seeded[t].factor_type
                       /\ factor = seeded[t].factor[Resolve(t, text).party]
    BY DEF OnlyPackFactorsVerify
  <2>1. spine[t].factors = [k \in (0..(seeded[t].count - 1)) \X {seeded[t].factor_type} |->
                               seeded[t].factor[k[1]]]
    BY DEF ContactInv, ShapeInv, Rows
  <2>2. /\ <<Resolve(t, text).party, type>> \in DOMAIN spine[t].factors
        /\ spine[t].factors[<<Resolve(t, text).party, type>>] = factor
    BY DEF Verified
  <2>. QED
    BY <2>1, <2>2
<1>. QED
  BY ContactInvariance, <1>1, PTL

-----------------------------------------------------------------------------
(* Spellings *)

\* What follows a prefix, and the prefix before it.
LEMMA PrefixIsCut ==
    ASSUME NEW d \in Seq(0..9), NEW p \in Seq(0..9)
    PROVE  /\ StartsWith(d, p) => /\ Without(d, p) \in Seq(0..9)
                                  /\ Len(d) = Len(p) + Len(Without(d, p))
                                  /\ d = p \o Without(d, p)
           /\ StartsWith(p \o d, p)
           /\ Without(p \o d, p) = d
<1>1. ASSUME StartsWith(d, p)
      PROVE  /\ Without(d, p) \in Seq(0..9)
             /\ Len(d) = Len(p) + Len(Without(d, p))
             /\ d = p \o Without(d, p)
  <2>. DEFINE k == Len(p)
  <2>1. k \in Nat /\ Len(d) \in Nat /\ k <= Len(d) /\ SubSeq(d, 1, k) = p
    BY <1>1 DEF StartsWith
  <2>2. k \in 1 - 1 .. Len(d) /\ Len(d) \in k .. Len(d) /\ 1 \in 1 .. Len(d) + 1
    BY <2>1
  <2>3. SubSeq(d, 1, k) \o SubSeq(d, k + 1, Len(d)) = SubSeq(d, 1, Len(d))
    <3>. HIDE DEF k
    <3>. QED
      BY <2>2, ConcatAdjacentSubSeq
  <2>4. p \o Without(d, p) = d
    BY <2>1, <2>3, SubSeqFull DEF Without
  <2>5. Without(d, p) \in Seq(0..9)
    BY <2>1 DEF Without
  <2>. QED
    BY <2>4, <2>5, ConcatProperties
<1>2. /\ p \o d \in Seq(0..9)
      /\ Len(p \o d) = Len(p) + Len(d)
  BY ConcatProperties
<1>3. SubSeq(p \o d, 1, Len(p)) = p
  BY SubSeqOfConcat1, SubSeqFull
<1>4. SubSeq(p \o d, Len(p) + 1, Len(p) + Len(d)) = d
  BY SubSeqOfConcat2, SubSeqFull
<1>. QED
  BY <1>1, <1>2, <1>3, <1>4 DEF StartsWith, Without

\* Of two prefixes of a number one is a prefix of the other.
LEMMA PrefixesNest ==
    ASSUME NEW d \in Seq(0..9), NEW p \in Seq(0..9), NEW q \in Seq(0..9),
           StartsWith(d, p), StartsWith(d, q)
    PROVE  StartsWith(p, q) \/ StartsWith(q, p)
<1>1. /\ Len(d) \in Nat /\ Len(p) \in Nat /\ Len(q) \in Nat
      /\ \A i \in 1..Len(p) : p[i] = d[i]
      /\ \A i \in 1..Len(q) : q[i] = d[i]
      /\ Len(p) <= Len(d) /\ Len(q) <= Len(d)
  BY DEF StartsWith
<1>2. ASSUME NEW a \in Seq(0..9), NEW b \in Seq(0..9), Len(a) <= Len(b),
             \A i \in 1..Len(a) : a[i] = b[i]
      PROVE  StartsWith(b, a)
  <2>1. /\ SubSeq(b, 1, Len(a)) \in Seq(0..9)
        /\ Len(SubSeq(b, 1, Len(a))) = Len(a)
        /\ \A i \in 1..Len(a) : SubSeq(b, 1, Len(a))[i] = b[i]
    BY <1>2
  <2>. QED
    BY <1>2, <2>1, SeqEqual DEF StartsWith
<1>3. CASE Len(p) <= Len(q)
  BY <1>1, <1>2, <1>3
<1>4. CASE Len(q) <= Len(p)
  BY <1>1, <1>2, <1>4
<1>. QED
  BY <1>1, <1>3, <1>4

\* _to_e164 of a number without a plus: which digits become the number d.
LEMMA BareDigits ==
    ASSUME NEW c \in DOMAIN DialRules, RulesApart,
           NEW d \in Seq(0..9), NEW x \in Seq(0..9), PlausibleLength(d),
           FollowsPlan(d, DialRules[c])
    PROVE  LET rules    == DialRules[c]
               national == Without(d, rules.dial)
           IN  rules.dial \o National(x, rules) = d <=>
                   /\ StartsWith(d, rules.dial)
                   /\ x \in {d, national, rules.trunk \o national}
<1>. DEFINE rules == DialRules[c]
            dial  == rules.dial
            trunk == rules.trunk
            m     == Without(d, dial)
            nat   == National(x, rules)
<1>1. /\ dial \in Seq(0..9) /\ trunk \in Seq(0..9) /\ dial # <<>> /\ trunk # <<>>
      /\ Len(dial) \in 0..3 /\ Len(trunk) \in Nat /\ Len(x) \in Nat /\ Len(d) \in 8..15
      /\ dial # trunk => ~StartsWith(dial, trunk) /\ ~StartsWith(trunk, dial)
  <2>1. dial \in Seq(0..9) /\ trunk \in Seq(0..9) /\ dial # <<>> /\ trunk # <<>>
    BY RulesType
  <2>2. /\ Len(dial) <= 3
        /\ dial # trunk => ~StartsWith(dial, trunk) /\ ~StartsWith(trunk, dial)
    BY DEF RulesApart
  <2>3. Len(d) \in 8..15
    BY DEF PlausibleLength, MinDigits, MaxDigits
  <2>4. Len(dial) \in Nat /\ Len(trunk) \in Nat /\ Len(x) \in Nat
    <3>. HIDE DEF dial, trunk
    <3>. QED
      BY <2>1
  <2>5. \A n \in Nat : n <= 3 => n \in 0..3
    OBVIOUS
  <2>. QED
    BY <2>1, <2>2, <2>3, <2>4, <2>5
<1>2. /\ CarriesDialCode(x, rules) <=> StartsWith(x, dial) /\ Len(x) > Len(dial) + 4
      /\ CarriesDialCode(x, rules) => nat = Without(x, dial)
      /\ ~CarriesDialCode(x, rules) /\ StartsWith(x, trunk) => nat = Without(x, trunk)
      /\ ~CarriesDialCode(x, rules) /\ ~StartsWith(x, trunk) => nat = x
  BY DEF CarriesDialCode, National
<1>3. /\ nat \in Seq(0..9)
      /\ StartsWith(x, dial) => x = dial \o Without(x, dial)
      /\ StartsWith(x, trunk) => x = trunk \o Without(x, trunk)
  BY <1>1, <1>2, PrefixIsCut
<1>4. ASSUME dial \o nat = d
      PROVE  StartsWith(d, dial) /\ x \in {d, m, trunk \o m}
  <2>1. StartsWith(d, dial) /\ m = nat
    BY <1>1, <1>3, <1>4, PrefixIsCut
  <2>. QED
    BY <1>2, <1>3, <1>4, <2>1
<1>5. ASSUME StartsWith(d, dial), x \in {d, m, trunk \o m}
      PROVE  dial \o nat = d
  <2>1. /\ m \in Seq(0..9) /\ d = dial \o m /\ Len(d) = Len(dial) + Len(m)
    BY <1>1, <1>5, PrefixIsCut
  <2>2. ~CarriesDialCode(m, rules) /\ ~StartsWith(m, trunk)
    BY <1>5 DEF FollowsPlan
  <2>3. Len(m) \in Nat /\ Len(m) > 4 /\ Len(d) > Len(dial) + 4
    <3>. HIDE DEF m, dial
    <3>1. Len(m) \in Nat /\ Len(d) = Len(dial) + Len(m)
      BY <2>1
    <3>2. Len(dial) \in 0..3 /\ Len(d) \in 8..15
      BY <1>1
    <3>3. \A a \in 0..3, b \in Nat, n \in 8..15 : n = a + b => b > 4 /\ n > a + 4
      OBVIOUS
    <3>. QED
      BY <3>1, <3>2, <3>3
  <2>4. CASE x = d
    <3>1. CarriesDialCode(x, rules)
      BY <1>2, <1>5, <2>3, <2>4
    <3>. QED
      BY <1>2, <2>1, <2>4, <3>1
  <2>5. CASE x = m
    BY <1>2, <2>1, <2>2, <2>5
  <2>6. CASE x = trunk \o m
    <3>1. /\ StartsWith(x, trunk) /\ Without(x, trunk) = m
          /\ Len(x) = Len(trunk) + Len(m)
      BY <1>1, <2>1, <2>6, PrefixIsCut, ConcatProperties
    <3>2. CASE dial = trunk
      BY <1>1, <1>2, <2>1, <2>3, <3>1, <3>2
    <3>3. CASE dial # trunk
      <4>1. ~StartsWith(x, dial)
        BY <1>1, <3>1, <3>3, PrefixesNest
      <4>. QED
        BY <1>2, <2>1, <3>1, <4>1
    <3>. QED
      BY <3>2, <3>3
  <2>. QED
    BY <1>5, <2>4, <2>5, <2>6
<1>. QED
  BY <1>4, <1>5

\* A text has one shape, one name and one row of digits.
LEMMA ShapesApart ==
    ASSUME NEW a, NEW b
    PROVE  /\ Email(a, TRUE) = Email(b, TRUE) <=> a = b
           /\ Account(a, TRUE) = Account(b, TRUE) <=> a = b
           /\ Number("+", a, FALSE) = Number("+", b, FALSE) <=> a = b
           /\ Email(a, TRUE) # Account(b, TRUE)
           /\ Email(a, TRUE) # Number("+", b, FALSE)
           /\ Account(a, TRUE) # Number("+", b, FALSE)
<1>1. /\ Email(a, TRUE).shape = "email" /\ Email(a, TRUE).name = a /\ Email(b, TRUE).name = b
  BY DEF Email
<1>2. /\ Account(a, TRUE).shape = "account" /\ Account(a, TRUE).name = a
      /\ Account(b, TRUE).name = b /\ Account(b, TRUE).shape = "account"
  BY DEF Account
<1>3. /\ Number("+", a, FALSE).digits = a /\ Number("+", b, FALSE).digits = b
      /\ Number("+", b, FALSE).shape = "number"
  BY DEF Number
<1>. QED
  BY <1>1, <1>2, <1>3

\* A "+" is there or is restored.
HasPlus(text) == text.lead = "+" \/ (text.lead = " " /\ ~text.separated)

\* normalize_identifier, shape by shape.
LEMMA NormalByShape ==
    ASSUME NEW text, NEW country, IsText(text)
    PROVE  LET n    == NormalizeIdentifier(text, country)
               e164 == ToE164(text.digits, HasPlus(text), country)
           IN  /\ text.shape \in {"number", "email", "account", "junk"}
               /\ text.shape = "email" => n.recognized /\ n.value = Email(text.name, TRUE)
               /\ text.shape = "account" => n.recognized /\ n.value = Account(text.name, TRUE)
               /\ text.shape = "junk" => ~n.recognized
               /\ text.shape = "number" /\ e164 = NoDigits => ~n.recognized
               /\ text.shape = "number" /\ e164 # NoDigits =>
                      n.recognized /\ n.value = Number("+", e164, FALSE)
<1>. DEFINE raw  == RestoreEatenPlus(text)
            e164 == ToE164(raw.digits, raw.lead = "+", country)
            n    == NormalizeIdentifier(text, country)
<1>1. text.shape \in {"number", "email", "account", "junk"}
  BY DEF IsText
<1>2. /\ raw.shape = text.shape
      /\ text.shape # "number" => raw = text
      /\ text.shape = "number" => raw.digits = text.digits /\ (raw.lead = "+" <=> HasPlus(text))
  <2>1. CASE text.shape = "number"
    <3>1. text = Number(text.lead, text.digits, text.separated)
      BY <2>1 DEF IsText
    <3>2. CASE text.lead = " " /\ ~text.separated
      <4>1. raw = [text EXCEPT !.lead = "+"]
        BY <2>1, <3>2 DEF RestoreEatenPlus
      <4>2. raw = Number("+", text.digits, text.separated)
        BY <3>1, <4>1 DEF Number
      <4>3. raw.shape = "number" /\ raw.digits = text.digits /\ raw.lead = "+"
        BY <4>2 DEF Number
      <4>. QED
        BY <2>1, <3>2, <4>3 DEF HasPlus
    <3>3. CASE ~(text.lead = " " /\ ~text.separated)
      BY <2>1, <3>3 DEF RestoreEatenPlus, HasPlus
    <3>. QED
      BY <3>2, <3>3
  <2>2. CASE text.shape # "number"
    BY <2>2 DEF RestoreEatenPlus
  <2>. QED
    BY <2>1, <2>2
<1>3. n = CASE raw.shape = "email"   -> Recognized(Email(raw.name, TRUE), "email")
            [] raw.shape = "account" -> Recognized(Account(raw.name, TRUE), "account_no")
            [] raw.shape = "junk"    -> Unrecognized(raw)
            [] raw.shape = "number"  -> IF e164 = NoDigits THEN Unrecognized(raw)
                                        ELSE Recognized(Number("+", e164, FALSE), "phone")
  BY DEF NormalizeIdentifier
<1>. HIDE DEF n
<1>4. ~Unrecognized(raw).recognized
  BY DEF Unrecognized
<1>5. CASE text.shape = "email"
  <2>1. raw.shape = "email" /\ raw.shape # "account" /\ raw.shape # "junk" /\ raw.shape # "number"
    BY <1>2, <1>5
  <2>2. n = Recognized(Email(raw.name, TRUE), "email")
    BY <1>3, <2>1, Zenon
  <2>. QED
    BY <1>1, <1>2, <1>5, <2>2 DEF n, Recognized
<1>6. CASE text.shape = "account"
  <2>1. raw.shape = "account" /\ raw.shape # "email" /\ raw.shape # "junk" /\ raw.shape # "number"
    BY <1>2, <1>6
  <2>2. n = Recognized(Account(raw.name, TRUE), "account_no")
    BY <1>3, <2>1, Zenon
  <2>. QED
    BY <1>1, <1>2, <1>6, <2>2 DEF n, Recognized
<1>7. CASE text.shape = "junk"
  <2>1. raw.shape = "junk" /\ raw.shape # "email" /\ raw.shape # "account" /\ raw.shape # "number"
    BY <1>2, <1>7
  <2>2. n = Unrecognized(raw)
    BY <1>3, <2>1, Zenon
  <2>. QED
    BY <1>1, <1>4, <1>7, <2>2 DEF n
<1>8. CASE text.shape = "number"
  <2>1. raw.shape = "number" /\ raw.shape # "email" /\ raw.shape # "account" /\ raw.shape # "junk"
    BY <1>2, <1>8
  <2>2. n = IF e164 = NoDigits THEN Unrecognized(raw)
            ELSE Recognized(Number("+", e164, FALSE), "phone")
    BY <1>3, <2>1, Zenon
  <2>3. e164 = ToE164(text.digits, HasPlus(text), country)
    BY <1>2, <1>8 DEF ToE164
  <2>4. CASE e164 = NoDigits
    <3>1. n = Unrecognized(raw)
      BY <2>2, <2>4
    <3>. QED
      BY <1>4, <1>8, <2>3, <2>4, <3>1 DEF n
  <2>5. CASE e164 # NoDigits
    <3>1. n = Recognized(Number("+", e164, FALSE), "phone")
      BY <2>2, <2>5
    <3>2. n.recognized /\ n.value = Number("+", e164, FALSE)
      BY <3>1 DEF Recognized
    <3>. QED
      BY <1>8, <2>3, <2>5, <3>2 DEF n
  <2>. QED
    BY <2>4, <2>5
<1>. QED
  BY <1>1, <1>5, <1>6, <1>7, <1>8 DEF n

\* Values that normalization returns unchanged: how a usable pack stores them.
IsStored(v) ==
    \/ v.shape = "email" /\ v = Email(v.name, TRUE)
    \/ v.shape = "account" /\ v = Account(v.name, TRUE)
    \/ /\ v.shape = "number"
       /\ v = Number("+", v.digits, FALSE)
       /\ v.digits \in Seq(0..9)
       /\ PlausibleLength(v.digits)

LEMMA StoredShape ==
    ASSUME NEW v, NEW country, IsText(v),
           NormalizeIdentifier(v, country).recognized,
           NormalizeIdentifier(v, country).value = v
    PROVE  IsStored(v)
<1>. DEFINE n    == NormalizeIdentifier(v, country)
            e164 == ToE164(v.digits, HasPlus(v), country)
<1>1. /\ v.shape \in {"number", "email", "account", "junk"}
      /\ v.shape = "email" => n.recognized /\ n.value = Email(v.name, TRUE)
      /\ v.shape = "account" => n.recognized /\ n.value = Account(v.name, TRUE)
      /\ v.shape = "junk" => ~n.recognized
      /\ v.shape = "number" /\ e164 = NoDigits => ~n.recognized
      /\ v.shape = "number" /\ e164 # NoDigits => n.recognized /\ n.value = Number("+", e164, FALSE)
  BY NormalByShape
<1>2. n.recognized /\ n.value = v
  OBVIOUS
<1>. HIDE DEF n, e164
<1>3. CASE v.shape = "email"
  BY <1>1, <1>2, <1>3 DEF IsStored
<1>4. CASE v.shape = "account"
  BY <1>1, <1>2, <1>4 DEF IsStored
<1>5. CASE v.shape = "number"
  <2>1. e164 # NoDigits /\ v = Number("+", e164, FALSE)
    BY <1>1, <1>2, <1>5
  <2>2. v.digits = e164 /\ v.lead = "+" /\ v.digits \in Seq(0..9)
    BY <1>5, <2>1 DEF Number, IsText
  <2>3. PlausibleLength(v.digits)
    BY <2>1, <2>2 DEF e164, ToE164, HasPlus
  <2>. QED
    BY <1>5, <2>1, <2>2, <2>3 DEF IsStored
<1>. QED
  BY <1>1, <1>2, <1>3, <1>4, <1>5

\* The spellings of a number without a plus, without naming the length of the dial code.
LEMMA BareSpellings ==
    ASSUME NEW c \in DOMAIN DialRules, NEW d \in Seq(0..9), NEW x
    PROVE  LET dial  == DialRules[c].dial
               trunk == DialRules[c].trunk
               m     == Without(d, dial)
           IN  (\E n \in 1..Len(d) :
                    /\ SubSeq(d, 1, n) = dial
                    /\ LET national == SubSeq(d, n + 1, Len(d))
                       IN  x \in {d, national, trunk \o national})
               <=> StartsWith(d, dial) /\ x \in {d, m, trunk \o m}
<1>. DEFINE dial  == DialRules[c].dial
<1>1. dial \in Seq(0..9) /\ dial # <<>> /\ Len(dial) \in Nat /\ Len(dial) # 0
  <2>1. dial \in Seq(0..9) /\ dial # <<>>
    BY RulesType
  <2>. HIDE DEF dial
  <2>. QED
    BY <2>1, EmptySeq
<1>2. \A n \in 1..Len(d) : Len(SubSeq(d, 1, n)) = n
  OBVIOUS
<1>3. \A n \in 1..Len(d) : SubSeq(d, 1, n) = dial => n = Len(dial)
  BY <1>2
<1>4. StartsWith(d, dial) <=> Len(dial) \in 1..Len(d) /\ SubSeq(d, 1, Len(dial)) = dial
  <2>. HIDE DEF dial
  <2>. QED
    BY <1>1 DEF StartsWith
<1>. HIDE DEF dial
<1>5. \A n \in 1..Len(d) : SubSeq(d, 1, n) = dial => SubSeq(d, n + 1, Len(d)) = Without(d, dial)
  BY <1>3 DEF Without
<1>. QED
  BY <1>3, <1>4, <1>5 DEF dial, Without

\* normalize_identifier takes exactly the spellings of a stored value to it.
LEMMA SpellingsAreNormal ==
    ASSUME NEW text, NEW v, NEW country, IsText(text), IsStored(v), RulesApart,
           v.shape = "number" /\ country \in DOMAIN DialRules =>
               FollowsPlan(v.digits, DialRules[country])
    PROVE  LET n == NormalizeIdentifier(text, country)
           IN  Spells(text, v, country) <=> n.recognized /\ n.value = v
<1>. DEFINE n    == NormalizeIdentifier(text, country)
            x    == text.digits
            d    == v.digits
            e164 == ToE164(x, HasPlus(text), country)
<1>1. /\ text.shape \in {"number", "email", "account", "junk"}
      /\ text.shape = "email" => n.recognized /\ n.value = Email(text.name, TRUE)
      /\ text.shape = "account" => n.recognized /\ n.value = Account(text.name, TRUE)
      /\ text.shape = "junk" => ~n.recognized
      /\ text.shape = "number" /\ e164 = NoDigits => ~n.recognized
      /\ text.shape = "number" /\ e164 # NoDigits =>
             n.recognized /\ n.value = Number("+", e164, FALSE)
  BY NormalByShape
<1>. HIDE DEF n, e164
<1>2. CASE v.shape = "email"
  <2>1. Spells(text, v, country) <=> text.shape = "email" /\ text.name = v.name
    BY <1>2 DEF Spells
  <2>2. v = Email(v.name, TRUE)
    BY <1>2 DEF IsStored
  <2>. QED
    <3>1. /\ Email(text.name, TRUE) = Email(v.name, TRUE) <=> text.name = v.name
          /\ Account(text.name, TRUE) = Email(v.name, TRUE) <=> FALSE
          /\ Number("+", e164, FALSE) # Email(v.name, TRUE)
      BY ShapesApart
    <3>. QED
      BY <1>1, <1>2, <2>1, <2>2, <3>1 DEF n
<1>3. CASE v.shape = "account"
  <2>1. Spells(text, v, country) <=> text.shape = "account" /\ text.name = v.name
    BY <1>3 DEF Spells
  <2>2. v = Account(v.name, TRUE)
    BY <1>3 DEF IsStored
  <2>. QED
    <3>1. /\ Email(text.name, TRUE) = Account(v.name, TRUE) <=> FALSE
          /\ Account(text.name, TRUE) = Account(v.name, TRUE) <=> text.name = v.name
          /\ Number("+", e164, FALSE) # Account(v.name, TRUE)
      BY ShapesApart
    <3>. QED
      BY <1>1, <1>3, <2>1, <2>2, <3>1 DEF n
<1>4. CASE v.shape = "number" /\ text.shape # "number"
  <2>1. ~Spells(text, v, country)
    BY <1>4 DEF Spells
  <2>2. v = Number("+", d, FALSE)
    BY <1>4 DEF IsStored
  <2>. QED
    <3>1. /\ Email(text.name, TRUE) # Number("+", d, FALSE)
          /\ Account(text.name, TRUE) # Number("+", d, FALSE)
      BY ShapesApart
    <3>. QED
      BY <1>1, <1>4, <2>1, <2>2, <3>1 DEF n
<1>5. CASE v.shape = "number" /\ text.shape = "number"
  <2>1. v = Number("+", d, FALSE) /\ d \in Seq(0..9) /\ PlausibleLength(d) /\ d # NoDigits
    <3>1. v = Number("+", d, FALSE) /\ d \in Seq(0..9) /\ PlausibleLength(d)
      BY <1>5 DEF IsStored
    <3>2. Len(NoDigits) = 0 /\ Len(d) \in 8..15
      BY <3>1, EmptySeq DEF PlausibleLength, MinDigits, MaxDigits, NoDigits
    <3>3. \A k \in 8..15 : k # 0
      OBVIOUS
    <3>. QED
      BY <3>1, <3>2, <3>3
  <2>2. n.recognized /\ n.value = v <=> e164 = d
    <3>1. Number("+", e164, FALSE) = Number("+", d, FALSE) <=> e164 = d
      BY ShapesApart
    <3>2. CASE e164 = NoDigits
      BY <1>1, <1>5, <2>1, <3>2
    <3>3. CASE e164 # NoDigits
      <4>1. n.recognized /\ n.value = Number("+", e164, FALSE)
        BY <1>1, <1>5, <3>3
      <4>. QED
        BY <2>1, <3>1, <4>1
    <3>. QED
      BY <3>2, <3>3
  <2>3. /\ x \in Seq(0..9) /\ text.lead \in {"", " ", "+"} /\ text.separated \in BOOLEAN
    BY <1>5 DEF IsText
  <2>4. Spells(text, v, country) <=> e164 = d
    <3>1. CASE HasPlus(text)
      <4>1. e164 = IF PlausibleLength(x) THEN x ELSE NoDigits
        BY <3>1 DEF e164, ToE164
      <4>2. e164 = d <=> x = d
        BY <2>1, <4>1
      <4>3. Spells(text, v, country) <=> x = d
        BY <1>5, <2>3, <3>1 DEF Spells, HasPlus
      <4>. QED
        BY <4>2, <4>3
    <3>2. CASE ~HasPlus(text) /\ country \notin DOMAIN DialRules
      <4>1. e164 = NoDigits
        BY <3>2 DEF e164, ToE164
      <4>2. ~Spells(text, v, country)
        BY <1>5, <2>3, <3>2 DEF Spells, HasPlus
      <4>. QED
        BY <2>1, <4>1, <4>2
    <3>3. CASE ~HasPlus(text) /\ country \in DOMAIN DialRules
      <4>. DEFINE rules == DialRules[country]
                  nat   == National(x, rules)
                  m     == Without(d, rules.dial)
      <4>1. e164 = IF nat # <<>> /\ PlausibleLength(rules.dial \o nat)
                   THEN rules.dial \o nat ELSE NoDigits
        BY <3>3 DEF e164, ToE164
      <4>2. rules.dial \o nat = d => nat # <<>>
        <5>1. /\ rules.dial \in Seq(0..9) /\ Len(rules.dial) <= 3
          BY <3>3, RulesType DEF RulesApart
        <5>2. rules.dial \o <<>> = rules.dial
          BY <5>1, ConcatEmptySeq
        <5>3. Len(d) \in 8..15
          BY <2>1 DEF PlausibleLength, MinDigits, MaxDigits
        <5>4. Len(rules.dial) \in Nat
          <6>. HIDE DEF rules
          <6>. QED
            BY <5>1
        <5>5. \A a \in Nat, b \in 8..15 : a <= 3 => a # b
          OBVIOUS
        <5>. QED
          BY <5>1, <5>2, <5>3, <5>4, <5>5
      <4>3. e164 = d <=> rules.dial \o nat = d
        BY <2>1, <4>1, <4>2
      <4>4. e164 = d <=> StartsWith(d, rules.dial) /\ x \in {d, m, rules.trunk \o m}
        <5>1. FollowsPlan(d, rules)
          BY <1>5, <3>3
        <5>2. rules.dial \o nat = d <=> /\ StartsWith(d, rules.dial)
                                       /\ x \in {d, m, rules.trunk \o m}
          BY <2>1, <2>3, <3>3, <5>1, BareDigits
        <5>. QED
          BY <4>3, <5>2
      <4>5. Spells(text, v, country) <=>
                \E k \in 1..Len(d) :
                    /\ SubSeq(d, 1, k) = rules.dial
                    /\ LET national == SubSeq(d, k + 1, Len(d))
                       IN  x \in {d, national, rules.trunk \o national}
        BY <1>5, <2>3, <3>3 DEF Spells, HasPlus
      <4>. QED
        BY <2>1, <3>3, <4>4, <4>5, BareSpellings
    <3>. QED
      BY <3>1, <3>2, <3>3
  <2>. QED
    BY <2>2, <2>4 DEF n
<1>. QED
  BY <1>2, <1>3, <1>4, <1>5 DEF IsStored

\* Of a usable pack, a text is normalized to a value exactly if it spells it.
LEMMA SpellsWhatIsSeeded ==
    ASSUME RulesApart, NumbersFollowPlan, NEW p \in Pack, NEW text \in Text,
           NEW i \in 0..(p.count - 1), NEW type \in p.id_types
    PROVE  LET n == NormalizeIdentifier(text, p.country)
           IN  Spells(text, p.values[i][type], p.country) <=>
                   n.recognized /\ n.value = p.values[i][type]
<1>. DEFINE v == p.values[i][type]
<1>1. v \in Text
  BY DEF IsPack
<1>2. /\ NormalizeIdentifier(v, p.country).recognized
      /\ NormalizeIdentifier(v, p.country).value = v
  BY DEF IsUsable
<1>3. v.shape = "number" /\ p.country \in DOMAIN DialRules =>
          FollowsPlan(v.digits, DialRules[p.country])
  BY DEF NumbersFollowPlan
<1>4. IsText(v) /\ IsText(text)
  BY <1>1, TextType
<1>. HIDE DEF v
<1>5. IsStored(v)
  BY <1>2, <1>4, StoredShape
<1>6. Spells(text, v, p.country) <=>
          /\ NormalizeIdentifier(text, p.country).recognized
          /\ NormalizeIdentifier(text, p.country).value = v
  BY <1>3, <1>4, <1>5, SpellingsAreNormal
<1>. QED
  BY <1>6 DEF v

\* Normalization, seeding and resolution agree on any pack: one owner is found,
\* several are a failing request, and of any other text the tenant knows nobody.
THEOREM SpellingsResolve ==
    ASSUME RulesApart, NumbersFollowPlan
    PROVE  Spec => []SpellingsFindTheirParty
<1>1. ContactInv => SpellingsFindTheirParty
  <2>. SUFFICES ASSUME ContactInv, NEW t \in Tenant, NEW text \in Text
                PROVE  LET p    == seeded[t]
                           owners == {k \in (0..(p.count - 1)) \X p.id_types :
                                         Spells(text, p.values[k[1]][k[2]], p.country)}
                           c    == CustomerContext(t, text)
                       IN  /\ c.found <=> Cardinality(owners) = 1
                           /\ c.raises <=> Cardinality(owners) > 1
                           /\ c.found => <<c.party, c.id_type>> \in owners
    BY DEF SpellingsFindTheirParty
  <2>. DEFINE p       == seeded[t]
              keys    == (0..(p.count - 1)) \X p.id_types
              owners  == {k \in keys : Spells(text, p.values[k[1]][k[2]], p.country)}
              c       == CustomerContext(t, text)
              n       == NormalizeIdentifier(text, p.country)
              rows    == spine[t].identities
              hits    == {k \in DOMAIN rows : rows[k] = n.value}
              profile == Resolve(t, text)
  <2>1. /\ p \in Pack /\ spine[t].country = p.country
        /\ rows = [k \in keys |-> p.values[k[1]][k[2]]]
    BY SpineType DEF ContactInv, ShapeInv, TypeOK, Rows
  <2>2. \A k \in keys : Spells(text, p.values[k[1]][k[2]], p.country) <=>
                            n.recognized /\ n.value = p.values[k[1]][k[2]]
    BY <2>1, SpellsWhatIsSeeded
  <2>3. profile = IF n.recognized THEN ResolveProfile(t, n.value) ELSE Nobody
    BY <2>1 DEF Resolve
  <2>4. /\ ~profile.found => c = profile
        /\ profile.found => /\ c.found /\ ~c.raises
                            /\ c.party = profile.party /\ c.id_type = profile.id_type
    BY DEF CustomerContext
  <2>. HIDE DEF n, rows, profile, c
  <2>5. /\ n.recognized => owners = hits
        /\ ~n.recognized => owners = {}
    BY <2>1, <2>2
  <2>6. /\ Cardinality(hits) \in Nat
        /\ Cardinality(hits) = 0 => ResolveProfile(t, n.value) = Nobody
        /\ Cardinality(hits) > 1 => ResolveProfile(t, n.value) = Ambiguous
        /\ Cardinality(hits) = 1 =>
               \E k \in hits : ResolveProfile(t, n.value) =
                   [found |-> TRUE, raises |-> FALSE, party |-> k[1], id_type |-> k[2],
                    value |-> n.value]
    BY ResolveCount DEF rows
  <2>7. /\ ~Nobody.found /\ ~Nobody.raises
        /\ ~Ambiguous.found /\ Ambiguous.raises
    BY DEF Nobody, Ambiguous
  <2>. HIDE DEF owners, hits
  <2>8. CASE ~n.recognized
    <3>1. Cardinality(owners) = 0
      BY <2>5, <2>8, FS_EmptySet
    <3>2. c = Nobody
      BY <2>3, <2>4, <2>7, <2>8
    <3>. QED
      BY <2>7, <3>1, <3>2 DEF owners, c
  <2>9. CASE n.recognized /\ Cardinality(hits) = 1
    <3>1. PICK k \in hits : profile =
              [found |-> TRUE, raises |-> FALSE, party |-> k[1], id_type |-> k[2],
               value |-> n.value]
      BY <2>3, <2>6, <2>9
    <3>2. k = <<k[1], k[2]>>
      BY <2>1, <3>1 DEF hits
    <3>3. c.found /\ ~c.raises /\ c.party = k[1] /\ c.id_type = k[2]
      BY <2>4, <3>1
    <3>4. Cardinality(owners) = 1 /\ ~(Cardinality(owners) > 1) /\ k \in owners
      BY <2>5, <2>9, <3>1
    <3>. QED
      BY <3>2, <3>3, <3>4 DEF owners, c
  <2>10. CASE n.recognized /\ Cardinality(hits) = 0
    <3>1. c = Nobody
      BY <2>3, <2>4, <2>6, <2>7, <2>10
    <3>2. Cardinality(owners) # 1 /\ ~(Cardinality(owners) > 1)
      BY <2>5, <2>10
    <3>. QED
      BY <2>7, <3>1, <3>2 DEF owners, c
  <2>11. CASE n.recognized /\ Cardinality(hits) > 1
    <3>1. c = Ambiguous
      BY <2>3, <2>4, <2>6, <2>7, <2>11
    <3>2. Cardinality(owners) # 1 /\ Cardinality(owners) > 1
      BY <2>5, <2>6, <2>11
    <3>. QED
      BY <2>7, <3>1, <3>2 DEF owners, c
  <2>12. Cardinality(hits) = 0 \/ Cardinality(hits) = 1 \/ Cardinality(hits) > 1
    BY <2>6
  <2>. QED
    BY <2>8, <2>9, <2>10, <2>11, <2>12
<1>. QED
  BY ContactInvariance, <1>1, PTL

-----------------------------------------------------------------------------
(* Channels, events and homes *)

\* Among interactions there is one none is younger than.
LEMMA LatestThere ==
    ASSUME NEW S, S # {}, \A e \in S : e.at \in 1..MaxTick
    PROVE  \E e \in S : \A f \in S : f.at <= e.at
<1>. DEFINE since(e) == e.at..MaxTick
            Spans    == {since(e) : e \in S}
            Smaller  == StrictSubsetOrdering(Nat)
<1>1. IsWellFoundedOn(Smaller, FiniteSubsetsOf(Nat))
  BY FS_StrictSubsetOrderingWellFounded
<1>2. Spans \subseteq FiniteSubsetsOf(Nat) /\ Spans # {}
  <2>1. \A a \in 1..MaxTick : a..MaxTick \subseteq Nat /\ IsFiniteSet(a..MaxTick)
    BY FS_Interval
  <2>. QED
    BY <2>1 DEF FiniteSubsetsOf
<1>3. PICK x \in Spans : \A y \in Spans : ~ (<<y, x>> \in Smaller)
  <2>. HIDE DEF Spans, Smaller
  <2>. QED
    BY <1>1, <1>2, WFMin
<1>4. PICK e \in S : x = since(e)
  BY <1>3
<1>5. ASSUME NEW f \in S
      PROVE  f.at <= e.at
  <2>1. PICK a, b \in 1..MaxTick : a = e.at /\ b = f.at
    OBVIOUS
  <2>2. since(f) = b..MaxTick /\ x = a..MaxTick /\ since(f) \in Spans
    BY <1>4, <2>1
  <2>3. ~ (<<b..MaxTick, a..MaxTick>> \in Smaller)
    BY <1>3, <2>2
  <2>4. a < b => b..MaxTick \subseteq a..MaxTick /\ a \in a..MaxTick /\ a \notin b..MaxTick
    OBVIOUS
  <2>5. ~ (a < b)
    BY <2>3, <2>4 DEF StrictSubsetOrdering
  <2>. QED
    BY <2>1, <2>5
<1>. QED
  BY <1>5

\* The spine's own answer is a channel of the spine, if it has one.
LEMMA DerivedType ==
    ASSUME NEW t, NEW profile
    PROVE  DerivedChannel(t, profile) \in {"", "email", "sms"}
<1>. DEFINE rows  == spine[t].contacts
            mine  == {k \in DOMAIN rows : k[1] = profile.party}
            exact == {k \in mine : rows[k] = profile.value}
            first(S) == IF \E k \in S : k[2] = "email" THEN "email" ELSE "sms"
<1>1. CASE exact # {}
  <2>1. mine # {}
    BY <1>1
  <2>2. DerivedChannel(t, profile) = first(exact)
    BY <1>1, <2>1 DEF DerivedChannel
  <2>. QED
    BY <2>2
<1>2. CASE exact = {} /\ mine # {}
  <2>1. DerivedChannel(t, profile) = first(mine)
    BY <1>2 DEF DerivedChannel
  <2>. QED
    BY <2>1
<1>3. CASE mine = {}
  <2>1. exact = {}
    BY <1>3
  <2>2. DerivedChannel(t, profile) = ""
    BY <1>3, <2>1 DEF DerivedChannel
  <2>. QED
    BY <2>2
<1>. QED
  BY <1>1, <1>2, <1>3

\* resolve_last_channel never answers with a superseded channel: the interaction it
\* picks is the youngest, and one begun after it was on record would be younger.
THEOREM ChannelIsCurrent == Spec => []LastChannelIsCurrent
<1>1. ContactInv => LastChannelIsCurrent
  <2>. SUFFICES ASSUME ContactInv, NEW t \in Tenant, NEW text \in Dialled,
                       CustomerContext(t, text).found
                PROVE  LET c    == CustomerContext(t, text)
                           here == Interactions(t, c.party)
                       IN  IF here = {} THEN c.last_channel \in {"", "email", "sms"}
                           ELSE \E e \in here : /\ c.last_channel = e.channel
                                                /\ \A f \in here : e.at \notin f.after
    BY DEF LastChannelIsCurrent
  <2>. DEFINE profile == Resolve(t, text)
              c       == CustomerContext(t, text)
              here    == Interactions(t, c.party)
  <2>1. c = [found |-> TRUE, raises |-> FALSE, party |-> profile.party,
             id_type |-> profile.id_type, last_channel |-> LastChannel(t, profile)]
    BY DEF CustomerContext
  <2>2. c.party = profile.party /\ c.last_channel = LastChannel(t, profile)
    BY <2>1
  <2>3. here = Interactions(t, profile.party)
    BY <2>2
  <2>. HIDE DEF c, profile, here
  <2>4. CASE here = {}
    <3>1. LastChannel(t, profile) = DerivedChannel(t, profile)
      BY <2>3, <2>4 DEF LastChannel
    <3>2. c.last_channel \in {"", "email", "sms"}
      BY <2>2, <3>1, DerivedType
    <3>. QED
      BY <2>4, <3>2 DEF c, here
  <2>5. CASE here # {}
    <3>1. \A e \in here : /\ e \in events /\ e.channel # ""
                         /\ e.at \in 1..MaxTick /\ e.after \in SUBSET (1..MaxTick)
                         /\ \A a \in e.after : a < e.at
      BY <2>3 DEF Interactions, ContactInv, TypeOK, EventType, ChannelInv, ClockInv
    <3>2. PICK e \in here : e = LastInteraction(here) /\ \A f \in here : f.at <= e.at
      <4>1. \E e \in here : \A f \in here : f.at <= e.at
        BY <2>5, <3>1, LatestThere
      <4>. QED
        BY <4>1 DEF LastInteraction
    <3>3. LastChannel(t, profile) = e.channel
      BY <2>3, <2>5, <3>1, <3>2 DEF LastChannel
    <3>4. ASSUME NEW f \in here
          PROVE  e.at \notin f.after
      <4>1. PICK a, b \in 1..MaxTick : a = e.at /\ b = f.at
        BY <3>1
      <4>2. b <= a
        BY <3>2, <4>1
      <4>3. a \in f.after => a < b
        BY <3>1, <4>1
      <4>. QED
        BY <4>1, <4>2, <4>3
    <3>5. \E g \in here : c.last_channel = g.channel /\ \A f \in here : g.at \notin f.after
      BY <2>2, <3>3, <3>4
    <3>. QED
      BY <2>5, <3>5 DEF c, here
  <2>. QED
    BY <2>4, <2>5
<1>. QED
  BY ContactInvariance, <1>1, PTL

\* An event on record is only lost to a reset of its tenant, or with its subscriber.
KeepsRecords ==
    \A e \in events \ events' :
        \/ \E w \in Resetting(e.tenant) : e \in doomed[w]
        \/ e.party \notin spine'[e.tenant].parties

THEOREM RecordsAreKept == Spec => RecordsStay
<1>1. ASSUME ContactInv, Next
      PROVE  KeepsRecords
  <2>1. CASE \E t \in Tenant : Seed(t)
    <3>1. PICK t \in Tenant : Seed(t)
      BY <2>1
    <3>2. spine'[t] = Rows(disk[t])
      BY <1>1, <3>1, SeedRows
    <3>3. events' = {e \in events : e.tenant = t => e.party \in Rows(disk[t]).parties}
      BY <3>1 DEF Seed
    <3>. QED
      BY <3>2, <3>3 DEF KeepsRecords
  <2>2. CASE \E w \in Worker : CommitReset(w)
    <3>1. PICK w \in Worker : CommitReset(w)
      BY <2>2
    <3>2. events' = events \ doomed[w] /\ \A e \in doomed[w] : w \in Resetting(e.tenant)
      BY <1>1, <3>1 DEF CommitReset, ContactInv, ResetInv, Resetting
    <3>. QED
      BY <3>2 DEF KeepsRecords
  <2>3. CASE events \subseteq events'
    BY <2>3 DEF KeepsRecords
  <2>4. \/ \E t \in Tenant : Seed(t)
        \/ \E w \in Worker : CommitReset(w)
        \/ events \subseteq events'
    BY <1>1 DEF Next, Edit, InteractionEvent, Csat, Begin, RecordEvent, ResetHomes, Crash
  <2>. QED
    BY <2>1, <2>2, <2>3, <2>4
<1>2. ContactInv /\ [Next]_vars => [KeepsRecords]_vars
  BY <1>1
<1>3. [KeepsRecords]_vars <=> [\A e \in events \ events' :
           \/ \E w \in Resetting(e.tenant) : e \in doomed[w]
           \/ e.party \notin spine'[e.tenant].parties]_vars
  BY DEF KeepsRecords
<1>. QED
  BY ContactInvariance, <1>2, <1>3, PTL DEF Spec, RecordsStay

\* A reset and a seed leave every subscriber the home of the pack on file.
LaysHomes ==
    \A t \in Tenant :
        LET p == disk[t]
            assigned == HomeRows(p, spine'[t].parties \intersect 0..(p.count - 1))
        IN  /\ (\E w \in Resetting(t) : CommitReset(w)) /\ p.networked =>
                   homes'[t] = assigned
            /\ Seed(t) => homes'[t] = IF p.networked THEN assigned ELSE {}

THEOREM HomesAreThePacks == Spec => HomesFollowPack
<1>1. ASSUME ContactInv
      PROVE  LaysHomes
  <2>. SUFFICES ASSUME NEW t \in Tenant
                PROVE  LET p == disk[t]
                           assigned == HomeRows(p, spine'[t].parties \intersect 0..(p.count - 1))
                       IN  /\ (\E w \in Resetting(t) : CommitReset(w)) /\ p.networked =>
                                  homes'[t] = assigned
                           /\ Seed(t) => homes'[t] = IF p.networked THEN assigned ELSE {}
    BY DEF LaysHomes
  <2>. DEFINE p == disk[t]
              assigned == HomeRows(p, spine'[t].parties \intersect 0..(p.count - 1))
  <2>1. ASSUME NEW w \in Resetting(t), CommitReset(w), p.networked
        PROVE  homes'[t] = assigned
    <3>1. w \in Worker /\ request[w].tenant = t /\ spine' = spine
      BY <2>1 DEF Resetting, CommitReset
    <3>2. homes'[t] = Laid(t)
      BY <1>1, <2>1, <3>1, ResetCommits
    <3>. QED
      BY <3>1, <3>2 DEF Laid
  <2>2. ASSUME Seed(t)
        PROVE  homes'[t] = IF p.networked THEN assigned ELSE {}
    <3>1. p \in Pack
      BY <1>1 DEF ContactInv, TypeOK
    <3>2. spine'[t] = Rows(p)
      BY <1>1, <2>2, SeedRows
    <3>3. spine'[t].parties \intersect 0..(p.count - 1) = Rows(p).parties
      BY <3>1, <3>2, RowsType
    <3>4. homes' = [homes EXCEPT ![t] = IF p.networked THEN HomeRows(p, Rows(p).parties) ELSE {}]
      BY <2>2 DEF Seed
    <3>. QED
      BY <1>1, <3>3, <3>4 DEF ContactInv, ShapeInv
  <2>. QED
    BY <2>1, <2>2
<1>2. ContactInv /\ [Next]_vars => [LaysHomes]_vars
  BY <1>1
<1>3. [LaysHomes]_vars <=> [\A t \in Tenant :
          LET p == disk[t]
              assigned == HomeRows(p, spine'[t].parties \intersect 0..(p.count - 1))
          IN  /\ (\E w \in Resetting(t) : CommitReset(w)) /\ p.networked =>
                     homes'[t] = assigned
              /\ Seed(t) => homes'[t] = IF p.networked THEN assigned ELSE {}]_vars
  BY DEF LaysHomes
<1>. QED
  BY ContactInvariance, <1>2, <1>3, PTL DEF Spec, HomesFollowPack

=============================================================================
