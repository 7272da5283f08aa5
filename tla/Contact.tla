------------------------------- MODULE Contact -------------------------------
(****************************************************************************)
(* Who is calling and over which channel: the spine a tenant's pack seeds   *)
(* (app/seed/generator.py), the profile a caller's text resolves to         *)
(* (app/modules/profile/service.py), and the interactions on record         *)
(* (app/events/service.py) that customer-context reads last_channel from.   *)
(*                                                                          *)
(* A recording request is two steps, since occurred_at is now(), the start  *)
(* of its transaction, while the event shows at COMMIT: its first statement *)
(* and the rest.  reset's delete likewise picks its rows before it commits. *)
(* A re-seed is one transaction that reads and writes rows nobody else      *)
(* writes, and one step; if it fails, nothing is changed.  Of the network   *)
(* half (app/seed/network.py), which reset runs too, on the pack file of    *)
(* that moment, this module has the rows and their owners; their values are *)
(* the matter of SelfHealing and ScenarioTx.                                *)
(*                                                                          *)
(* Left out: names, tiers, hashing and masking; csat scores and comments;   *)
(* two transactions that start in one microsecond.                          *)
(****************************************************************************)
EXTENDS Identifiers, FiniteSets

CONSTANTS Tenant, Worker,
          Pack,         \* what a pack.yaml says: see IsPack
          FirstPack,    \* the pack each tenant is first seeded from
          Channel,      \* channels callers name, "" among them
          FactorType, Factor,
          Text,         \* texts callers may send as an identifier
          Dialled,      \* those that interactions are recorded under
          KeyRank,      \* the order of the identities' primary keys
          HomeRow,      \* gateway, access points and devices of a home
          MaxTick       \* bound: recording requests

ContactChannel == {"email", "sms"}

IsPack(p) ==
    /\ p.tenant \in Tenant
    /\ p.count \in Nat
    /\ p.id_types \subseteq IdTypes
    /\ p.values \in [0..(p.count - 1) -> [IdTypes -> Text]]
    /\ p.factor_type \in FactorType
    /\ p.factor \in [0..(p.count - 1) -> Factor]
    /\ p.channels \subseteq ContactChannel
    /\ p.networked \in BOOLEAN              \* is there a network section?
    /\ DOMAIN p.homes \subseteq Nat          \* its assign, which may run past count
    /\ \A i \in DOMAIN p.homes : p.homes[i] \subseteq HomeRow

\* Patterns give every party its own value of a type, and values as
\* normalization returns them.  Nothing in the code checks either.
IsUsable(p) ==
    \A type \in p.id_types, i \in 0..(p.count - 1) :
        LET value == p.values[i][type]
            n     == NormalizeIdentifier(value, p.country)
        IN  /\ n.recognized /\ n.value = value
            /\ \A j \in 0..(p.count - 1) : p.values[j][type] = value => i = j

ASSUME ContactAssumption ==
    /\ \A p \in Pack : IsPack(p) /\ IsUsable(p)
    /\ FirstPack \in [Tenant -> Pack]
    /\ \A t \in Tenant : FirstPack[t].tenant = t
    /\ Dialled \subseteq Text
    /\ MaxTick \in Nat

ASSUME TextType == \A x \in Text : IsText(x)

\* What the shipped packs meet and nothing checks: a number of the pack's own country
\* cannot be mistaken when its dial code is left out.
NumbersFollowPlan ==
    \A p \in Pack : p.country \in DOMAIN DialRules =>
        \A type \in p.id_types, i \in 0..(p.count - 1) :
            LET value == p.values[i][type]
            IN  value.shape = "number" => FollowsPlan(value.digits, DialRules[p.country])

VARIABLES disk,         \* the pack file of each tenant
          spine,        \* the committed spine rows of each tenant
          homes,        \* the committed network rows: whose home, which row
          events,       \* the committed interaction and csat events
          pc, request,  \* each worker's step, and what it is asked for
          doomed,       \* the events a worker's reset deletes
          tick,         \* transactions started so far: the clock
          seeded        \* history: the pack each tenant was last seeded from

vars == <<disk, spine, homes, events, pc, request, doomed, tick, seeded>>

----------------------------------------------------------------------------
(* Seeding *)

\* The rows a pack describes, keyed by what their uuid5 keys digest.
Rows(p) ==
    LET index == 0..(p.count - 1)
    IN  [country    |-> p.country,
         parties    |-> index,
         identities |-> [k \in index \X p.id_types |-> p.values[k[1]][k[2]]],
         factors    |-> [k \in index \X {p.factor_type} |-> p.factor[k[1]]],
         contacts   |-> [k \in index \X p.channels |->
                            p.values[k[1]][IF k[2] = "sms" THEN "phone" ELSE "email"]]]

\* db.merge: onto the row of the same key, or a new row.
Merged(old, new) ==
    [k \in DOMAIN old \union DOMAIN new |-> IF k \in DOMAIN new THEN new[k] ELSE old[k]]

Kept(rows, keys) == [k \in DOMAIN rows \intersect keys |-> rows[k]]

\* uq_identity_tenant_type_value holds after the flush, and after each UPDATE of
\* it: they run in primary-key order, before the INSERTs.
Flushable(old, new) ==
    LET all     == Merged(old, new)
        updates == {k \in DOMAIN old \intersect DOMAIN new : old[k] # new[k]}
    IN  /\ \A j, k \in DOMAIN all : all[j] = all[k] /\ j[2] = k[2] => j = k
        /\ \A j, k \in updates :
               new[j] = old[k] /\ j[2] = k[2] => KeyRank[k] < KeyRank[j]

\* Faulty variant: factors are merged and not pruned.
PrunedSpineOnly(all, written) ==
    [all EXCEPT !.parties = written.parties,
                !.identities = Kept(@, DOMAIN written.identities),
                !.contacts = Kept(@, DOMAIN written.contacts)]

\* Faulty variant: identities are merged and not pruned.
PrunedNoIdentities(all, written) ==
    [all EXCEPT !.parties = written.parties,
                !.factors = Kept(@, DOMAIN written.factors),
                !.contacts = Kept(@, DOMAIN written.contacts)]

\* _prune: rows the pack does not describe go, those of a pruned party with it.
Pruned(all, written) ==
    [country    |-> all.country,
     parties    |-> written.parties,
     identities |-> Kept(all.identities, DOMAIN written.identities),
     factors    |-> Kept(all.factors, DOMAIN written.factors),
     contacts   |-> Kept(all.contacts, DOMAIN written.contacts)]

\* seed_networks: the rows the pack assigns to those parties there are.
HomeRows(p, parties) ==
    UNION {{i} \X p.homes[i] : i \in DOMAIN p.homes \intersect parties}

\* The resets of a tenant that have run their statements and not yet committed.
Resetting(t) == {w \in Worker : pc[w] = "reset" /\ request[w].tenant = t}

\* Statements that insert or delete the same rows wait for each other, as does
\* the delete of a party for the insert of a row that refers to it.
Unblocked(t, changed, parties) ==
    \A w \in Resetting(t) :
        /\ (request[w].adds \union request[w].drops) \intersect changed = {}
        /\ \A row \in request[w].adds : row[1] \in parties

\* seed_tenant: merge everything, flush, prune, the homes, commit.
Seed(t) ==
    LET p   == disk[t]
        old == spine[t]
        new == Rows(p)
        all == [country    |-> new.country,
                parties    |-> old.parties \union new.parties,
                identities |-> Merged(old.identities, new.identities),
                factors    |-> Merged(old.factors, new.factors),
                contacts   |-> Merged(old.contacts, new.contacts)]
        laid == IF p.networked THEN HomeRows(p, new.parties) ELSE {}
    IN  /\ Flushable(old.identities, new.identities)
        /\ Unblocked(t, (homes[t] \ laid) \union (laid \ homes[t]), new.parties)
        /\ spine' = [spine EXCEPT ![t] = Pruned(all, new)]
        /\ homes' = [homes EXCEPT ![t] = laid]
        /\ events' = {e \in events : e.tenant = t => e.party \in new.parties}
        /\ seeded' = [seeded EXCEPT ![t] = p]
        /\ UNCHANGED <<disk, pc, request, doomed, tick>>

\* The pack file is edited, never while a reset is at work on it.
Edit(p) ==
    /\ Resetting(p.tenant) = {}
    /\ disk' = [disk EXCEPT ![p.tenant] = p]
    /\ UNCHANGED <<spine, homes, events, pc, request, doomed, tick, seeded>>

----------------------------------------------------------------------------
(* Resolution *)

Nobody == [found |-> FALSE, raises |-> FALSE]
Ambiguous == [found |-> FALSE, raises |-> TRUE]

\* resolve_profile: the identity of that value, whatever its type.  Two of them,
\* and scalar_one_or_none raises: the request is a 500.
ResolveProfile(t, value) ==
    LET rows == spine[t].identities
        hits == {k \in DOMAIN rows : rows[k] = value}
    IN  CASE hits = {}             -> Nobody
          [] Cardinality(hits) > 1 -> Ambiguous
          [] Cardinality(hits) = 1 ->
                 LET k == CHOOSE k \in hits : TRUE
                 IN  [found |-> TRUE, raises |-> FALSE,
                      party |-> k[1], id_type |-> k[2], value |-> value]

\* _resolve, the start of every gx request.
Resolve(t, text) ==
    LET n == NormalizeIdentifier(text, spine[t].country)
    IN  IF n.recognized THEN ResolveProfile(t, n.value) ELSE Nobody

\* _last_channel, by channel name: the contact point of the value that matched,
\* else any (a pack seeds them all consented).
DerivedChannel(t, profile) ==
    LET rows  == spine[t].contacts
        mine  == {k \in DOMAIN rows : k[1] = profile.party}
        exact == {k \in mine : rows[k] = profile.value}
        first(S) == IF \E k \in S : k[2] = "email" THEN "email" ELSE "sms"
    IN  CASE exact # {} -> first(exact)
          [] exact = {} /\ mine # {} -> first(mine)
          [] mine = {} -> ""

Interactions(t, party) ==
    {e \in events : e.tenant = t /\ e.party = party /\ e.kind = "interaction"}

\* Faulty variant: the oldest interaction.
FirstInteraction(S) == CHOOSE e \in S : \A f \in S : f.at >= e.at

LastInteraction(S) == CHOOSE e \in S : \A f \in S : f.at <= e.at

\* resolve_last_channel: interaction history first, the spine's answer else.
LastChannel(t, profile) ==
    LET history == Interactions(t, profile.party)
        channel == IF history = {} THEN "" ELSE LastInteraction(history).channel
    IN  IF channel # "" THEN channel ELSE DerivedChannel(t, profile)

\* GET /gx/customer-context.
CustomerContext(t, text) ==
    LET profile == Resolve(t, text)
    IN  IF ~profile.found THEN profile
        ELSE [found |-> TRUE, raises |-> FALSE,
              party |-> profile.party, id_type |-> profile.id_type,
              last_channel |-> LastChannel(t, profile)]

\* POST /gx/verify-customer: check_factor among the party's factors of the type.
Verified(t, profile, type, factor) ==
    LET rows == spine[t].factors
    IN  /\ profile.found
        /\ <<profile.party, type>> \in DOMAIN rows
        /\ rows[<<profile.party, type>>] = factor

----------------------------------------------------------------------------
(* Recording *)

NoRequest == [kind |-> "none"]
ResetOf(t, adds, drops) == [kind |-> "reset", tenant |-> t, adds |-> adds, drops |-> drops]

Init ==
    /\ disk = FirstPack
    /\ homes = [t \in Tenant |-> HomeRows(FirstPack[t], 0..(FirstPack[t].count - 1))]
    /\ spine = [t \in Tenant |-> Rows(FirstPack[t])]
    /\ seeded = FirstPack
    /\ events = {}
    /\ pc = [w \in Worker |-> "idle"]
    /\ request = [w \in Worker |-> NoRequest]
    /\ doomed = [w \in Worker |-> {}]
    /\ tick = 0

\* The event a request will record; `after` is the history: the events there
\* were when the request came in.
Begin(w, t, text, kind, channel) ==
    /\ pc[w] = "idle"
    /\ tick < MaxTick
    /\ Resolve(t, text).found
    /\ tick' = tick + 1
    /\ request' = [request EXCEPT ![w] =
          [tenant |-> t, party |-> Resolve(t, text).party, kind |-> kind,
           channel |-> channel, at |-> tick', after |-> {e.at : e \in events}]]
    /\ pc' = [pc EXCEPT ![w] = "record"]
    /\ UNCHANGED <<disk, spine, homes, events, doomed, seeded>>

\* POST /gx/interaction-event: a blank channel is a 400.
InteractionEvent(w, t, text, channel) ==
    channel # "" /\ Begin(w, t, text, "interaction", channel)

Csat(w, t, text) == Begin(w, t, text, "csat", "csat")

\* Faulty variant: the subscriber is not looked for.
RecordAnyway(w) ==
    /\ pc[w] = "record"
    /\ events' = events \union {request[w]}
    /\ pc' = [pc EXCEPT ![w] = "idle"]
    /\ request' = [request EXCEPT ![w] = NoRequest]
    /\ UNCHANGED <<disk, spine, homes, doomed, tick, seeded>>

\* record_event and its commit; a party pruned meanwhile breaks the foreign key.
RecordEvent(w) ==
    /\ pc[w] = "record"
    /\ events' = IF request[w].party \in spine[request[w].tenant].parties
                 THEN events \union {request[w]} ELSE events
    /\ pc' = [pc EXCEPT ![w] = "idle"]
    /\ request' = [request EXCEPT ![w] = NoRequest]
    /\ UNCHANGED <<disk, spine, homes, doomed, tick, seeded>>

\* _baseline_parties and seed_networks, prune included, if the pack on file has a
\* network section; the rows stay as they are if it has none.
Laid(t) == HomeRows(disk[t], spine[t].parties \intersect 0..(disk[t].count - 1))
Added(t) == IF disk[t].networked THEN Laid(t) \ homes[t] ELSE {}

\* Faulty variant: rows the pack no longer assigns are left.
NothingPruned(t) == {}

Dropped(t) == IF disk[t].networked THEN homes[t] \ Laid(t) ELSE {}

\* Faulty variant: reset deletes the events of every tenant.
DoomedOfAll(t) == events

\* DELETE FROM event of the tenant.
Doomed(t) == {e \in events : e.tenant = t}

\* The statements of reset.
ResetHomes(w, t) ==
    /\ pc[w] = "idle"
    /\ Unblocked(t, Added(t) \union Dropped(t), spine[t].parties)
    /\ doomed' = [doomed EXCEPT ![w] = Doomed(t)]
    /\ request' = [request EXCEPT ![w] = ResetOf(t, Added(t), Dropped(t))]
    /\ pc' = [pc EXCEPT ![w] = "reset"]
    /\ UNCHANGED <<disk, spine, homes, events, tick, seeded>>

CommitReset(w) ==
    /\ pc[w] = "reset"
    /\ events' = events \ doomed[w]
    /\ homes' = [homes EXCEPT ![request[w].tenant] =
                    (@ \union request[w].adds) \ request[w].drops]
    /\ doomed' = [doomed EXCEPT ![w] = {}]
    /\ request' = [request EXCEPT ![w] = NoRequest]
    /\ pc' = [pc EXCEPT ![w] = "idle"]
    /\ UNCHANGED <<disk, spine, tick, seeded>>

\* The process dies: its transaction rolls back.
Crash(w) ==
    /\ pc[w] # "idle"
    /\ pc' = [pc EXCEPT ![w] = "idle"]
    /\ request' = [request EXCEPT ![w] = NoRequest]
    /\ doomed' = [doomed EXCEPT ![w] = {}]
    /\ UNCHANGED <<disk, spine, homes, events, tick, seeded>>

Next == \/ \E p \in Pack : Edit(p)
        \/ \E t \in Tenant : Seed(t)
        \/ \E w \in Worker :
               \/ \E t \in Tenant, text \in Dialled :
                      \/ \E c \in Channel : InteractionEvent(w, t, text, c)
                      \/ Csat(w, t, text)
               \/ RecordEvent(w)
               \/ \E t \in Tenant : ResetHomes(w, t)
               \/ CommitReset(w)
               \/ Crash(w)

Spec == Init /\ [][Next]_vars

----------------------------------------------------------------------------
EventType ==
    [tenant : Tenant, party : Nat, kind : {"interaction", "csat"},
     channel : Channel \union {"csat"}, at : 1..MaxTick, after : SUBSET (1..MaxTick)]

\* Type correctness, with the foreign keys and the unique constraint of the tables.
TypeOK ==
    /\ \A t \in Tenant :
           /\ DOMAIN spine[t].identities \subseteq spine[t].parties \X IdTypes
           /\ DOMAIN spine[t].factors \subseteq spine[t].parties \X FactorType
           /\ DOMAIN spine[t].contacts \subseteq spine[t].parties \X ContactChannel
           /\ \A j, k \in DOMAIN spine[t].identities :
                  j[2] = k[2] /\ spine[t].identities[j] = spine[t].identities[k] => j = k
    /\ \A e \in events : e.party \in spine[e.tenant].parties
    /\ \A t \in Tenant : homes[t] \subseteq spine[t].parties \X HomeRow
    /\ events \subseteq EventType
    /\ pc \in [Worker -> {"idle", "record", "reset"}]
    /\ \A w \in Worker :
           /\ pc[w] = "record" => request[w] \in EventType
           /\ pc[w] = "reset" => /\ request[w].tenant \in Tenant
                                 /\ request[w].adds \subseteq Nat \X HomeRow
                                 /\ request[w].drops \subseteq Nat \X HomeRow
           /\ pc[w] = "idle" => request[w] = NoRequest
    /\ doomed \in [Worker -> SUBSET EventType]
    /\ tick \in 0..MaxTick
    /\ disk \in [Tenant -> Pack] /\ seeded \in [Tenant -> Pack]

\* README on seeding: it is "authoritative for its tenant".  After any sequence
\* of pack edits and re-seeds, also ones that failed half way, the spine holds
\* the rows of the last pack and nothing else.
SpineIsLastSeed ==
    \A t \in Tenant : spine[t] = Rows(seeded[t])

\* How a caller may spell a stored value: README, "Identifier normalization".
\* An E.164 number with its "+", with the "+" eaten, or, in the tenant's own
\* country, without it, with the trunk prefix, or bare.
Spells(text, value, country) ==
    IF value.shape # "number"
    THEN text.shape = value.shape /\ text.name = value.name
    ELSE /\ text.shape = "number"
         /\ \/ /\ text.digits = value.digits
               /\ text.lead = "+" \/ (text.lead = " " /\ ~text.separated)
            \/ /\ text.lead = "" \/ (text.lead = " " /\ text.separated)
               /\ country \in DOMAIN DialRules
               /\ \E n \in 1..Len(value.digits) :
                      /\ SubSeq(value.digits, 1, n) = DialRules[country].dial
                      /\ LET national == SubSeq(value.digits, n + 1, Len(value.digits))
                         IN  text.digits \in {value.digits, national,
                                              DialRules[country].trunk \o national}

\* Normalization, resolution and seeding agree: a text finds a subscriber exactly
\* if it spells one identity the last pack gives them, and it is that subscriber;
\* if it spells a number the pack seeds as phone and msisdn, every gx route raises.
SpellingsFindTheirParty ==
    \A t \in Tenant, text \in Text :
        LET p    == seeded[t]
            owners == {k \in (0..(p.count - 1)) \X p.id_types :
                          Spells(text, p.values[k[1]][k[2]], p.country)}
            c    == CustomerContext(t, text)
        IN  /\ c.found <=> Cardinality(owners) = 1
            /\ c.raises <=> Cardinality(owners) > 1
            /\ c.found => <<c.party, c.id_type>> \in owners

\* A factor verifies a caller only if the last pack gives it to the subscriber the
\* text names: a factor type the pack dropped verifies nobody.
OnlyPackFactorsVerify ==
    \A t \in Tenant, text \in Text :
        LET profile == Resolve(t, text)
        IN  \A type \in FactorType, factor \in Factor :
                Verified(t, profile, type, factor) =>
                    /\ type = seeded[t].factor_type
                    /\ factor = seeded[t].factor[profile.party]

\* customer-context never answers with a channel that has been superseded: the
\* channel it reports is that of an interaction which no later one, begun after
\* it was on record, has followed.  Without interactions, whatever csat results
\* are there, it is a channel of the spine.
LastChannelIsCurrent ==
    \A t \in Tenant, text \in Dialled :
        LET c    == CustomerContext(t, text)
            here == Interactions(t, c.party)
        IN  c.found =>
                IF here = {} THEN c.last_channel \in {"", "email", "sms"}
                ELSE \E e \in here : /\ c.last_channel = e.channel
                                     /\ \A f \in here : e.at \notin f.after

\* An event on record stays, unless a reset of its own tenant that began after
\* it, or a re-seed that drops its subscriber, takes it away.
RecordsStay ==
    [][\A e \in events \ events' :
           \/ \E w \in Resetting(e.tenant) : e \in doomed[w]
           \/ e.party \notin spine'[e.tenant].parties]_vars

\* A reset leaves every subscriber the home the pack on file assigns, and nobody
\* another, whatever edits, seeds and resets came before or ran meanwhile; if the
\* file has a network section: else the homes of an earlier pack stay until a seed
\* removes them (engine.py, reset; generator.py, seed_tenant).
HomesFollowPack ==
    [][\A t \in Tenant :
          LET p == disk[t]
              assigned == HomeRows(p, spine'[t].parties \intersect 0..(p.count - 1))
          IN  /\ (\E w \in Resetting(t) : CommitReset(w)) /\ p.networked =>
                     homes'[t] = assigned
              /\ Seed(t) => homes'[t] = IF p.networked THEN assigned ELSE {}]_vars
=============================================================================
