------------------------------ MODULE Pricing ------------------------------
(***************************************************************************)
(* Prices and the two costs of an event (src/src/price/).  A sync fetches   *)
(* each LiteLLM map, one after another, and appends a row for every price   *)
(* that is new or changed; rows are never edited.  It reads the clock when  *)
(* the map has arrived and dates the rows by it once it is the writer, so   *)
(* two syncs may write against their dates.  A fill gives each unpriced     *)
(* event one of the rows in force when it happened, and a reprice forgets   *)
(* the costs of a range and fills again, in one transaction.  The periodic  *)
(* sync and one asked for over HTTP run beside each other and beside the    *)
(* minute's fill.                                                           *)
(*                                                                         *)
(* Rates and tokens are small integers; a threshold is a number of tokens.  *)
(* A model is a pair of the provider it is keyed under, or "", and a name.  *)
(* A map is a function from models to entries, and an entry names costs by  *)
(* <<name, threshold, tier>>, threshold 0 and tier "none" being the base.   *)
(* The tier "batch", read like the other two, is left out.                  *)
(***************************************************************************)
EXTENDS UsageRecords, Sequences, FiniteSets

CONSTANTS
    Maps,          \* the origins of the maps configured, in the order synced
    Versions,      \* per origin, the successive maps its server answers with
    Raw,           \* requests, as a source records them
    Samples,       \* more records a source may send
    Events,        \* the requests whose events arrive
    PricedAs,      \* the config's priced_as: a model to a key of the map
    ManualPrices,  \* the prices people ask to add
    MaxNow,        \* bound: the last instant of the clock
    MaxFaults,     \* bound: failed fetches, abandoned syncs, steps back of the clock
    MaxRecordings, \* bound: recordings of a map while its newest rows are yet to come
    MaxRows,       \* bound: rows people add
    MaxEvents      \* bound: events that arrive

None == "none"
Names == {"input", "output", "read", "write"}
Tiers == {None, "priority", "flex"}
Fetched == {Maps[i] : i \in DOMAIN Maps}
RatesTyped(rates) == \A name \in Names : rates[name] \in Int

\* sync knows two maps, each at its address; a price asked for is a PriceInput.
ASSUME PricingAssumption ==
    /\ MaxNow \in Nat \ {0} /\ MaxFaults \in Nat /\ MaxRecordings \in Nat
    /\ MaxRows \in Nat /\ MaxEvents \in Nat
    /\ Nil \notin Int /\ Nil \notin [Names -> Int]
    /\ Maps \in Seq({"public", "live"})
    /\ \A o \in Fetched :
          /\ Len(Versions[o]) \in Nat \ {0}
          /\ DOMAIN Versions[o] = 1..Len(Versions[o])
    /\ Events \subseteq {e \in DOMAIN Raw : Parse(Raw[e]).read}
    /\ \A p \in ManualPrices :
          p.min \in Int /\ p.from \in Int \cup {Nil} /\ RatesTyped(p.rates)

Sent == {r \in {Raw[e] : e \in DOMAIN Raw} \cup Samples : Parse(r).read}

\* A map names finitely many models, by numbers.  Of ranges that start at one token
\* the first is a price, and only that one is an entry's.
ASSUME MapsAssumption ==
    \A o \in Fetched : \A v \in DOMAIN Versions[o] :
        /\ IsFiniteSet(DOMAIN Versions[o][v])
        /\ \A m \in DOMAIN Versions[o][v] :
              LET entry == Versions[o][v][m]
              IN  /\ DOMAIN entry.costs \subseteq Names \X Nat \X Tiers
                  /\ \A c \in DOMAIN entry.costs : entry.costs[c] \in Int
                  /\ IsFiniteSet(entry.ranges)
                  /\ \A x \in entry.ranges :
                        /\ x.start \in Int /\ RatesTyped(x.rates)
                        /\ \A y \in entry.ranges : x.start = y.start => x = y

\* What a reader accepts counts in integers and is dated.
ASSUME RecordsAssumption ==
    \A r \in Sent :
        /\ r.time \in Int
        /\ IF r.kind = "cliproxy"
           THEN /\ r.version \in Int
                /\ IF r.version >= 2
                   THEN \A f \in {"input", "output", "cacheRead", "cacheWrite"} :
                            r.breakdown[f] \in Int
                   ELSE \A f \in {"input", "output", "reasoning", "cached", "cacheRead",
                                  "cacheWrite"} : r.tokens[f] \in Int
           ELSE /\ {r.prompt, r.completion} \subseteq Int \cup {Nil}
                /\ r.meta.form # "none" =>
                      {r.meta.cacheRead, r.meta.cacheWrite} \subseteq Int \cup {Nil}

Origins == Fetched \cup {"manual"}
Syncers == {"periodic", "asked"}
Beginning == 0

\* What an event keeps of a row it can be priced by.
Kept(row) ==
    [model |-> row.model, alias |-> row.alias, provider |-> row.provider,
     tier |-> Or(row.tier, None), input |-> row.tokens.input,
     read |-> row.tokens.cacheRead, write |-> row.tokens.cacheWrite,
     output |-> row.tokens.output, at |-> row.at,
     oauth |-> row.account.auth = "oauth", kind |-> row.kind, spend |-> row.spend]

Request == [e \in {e \in DOMAIN Raw : Parse(Raw[e]).read} |-> Kept(Parse(Raw[e]))]

VARIABLES
    now,     \* the clock
    served,  \* per origin, which of its versions its server answers with
    prices,  \* per origin, the model_price rows in the order of their ids
    event,   \* the usage_event rows: the price, list cost and billed cost
    sync,    \* per syncer, Nil or the origins left, the version fetched and its date
    faults,  \* failures so far
    record   \* history: per origin, the versions that added rows and their dates

vars == <<now, served, prices, event, sync, faults, record>>

---------------------------------------------------------------------------
(* The rows a map stands for. *)

\* rates: the tier at the threshold, the threshold, the tier, the base.
Tails(t, tier) == <<<<t, tier>>, <<t, None>>, <<0, tier>>, <<0, None>>>>

Named(entry, name, tail) == <<name, tail[1], tail[2]>> \in DOMAIN entry.costs

\* The first cost the entry names for one kind of token, or Nil.
FirstNamed(entry, name, tails) ==
    LET at == {i \in DOMAIN tails : Named(entry, name, tails[i])}
    IN  IF at = {} THEN Nil
        ELSE LET i == CHOOSE i \in at : \A j \in at : i <= j
             IN  entry.costs[<<name, tails[i][1], tails[i][2]>>]

RatesOf(entry, t, tier) ==
    LET tails == Tails(t, tier)
        price(name) == FirstNamed(entry, name, tails)
        cache(name) == IF price(name) = Nil THEN price("input") ELSE price(name)
    IN  IF \/ /\ tier # None
              /\ ~Named(entry, "input", tails[1]) /\ ~Named(entry, "input", tails[3])
           \/ price("input") = Nil
           \/ price("output") = Nil
        THEN Nil
        ELSE [input |-> price("input"), output |-> price("output"),
              read |-> cache("read"), write |-> cache("write")]

Thresholds(entry) == {0} \cup {t \in 1..10 : Named(entry, "input", <<t, None>>)}

\* LiteLLM bills xAI's long context from the threshold itself.
FirstToken(entry, t) ==
    IF t = 0 \/ entry.provider = "xai" THEN t ELSE t + 1

Row(model, entry, tier, min, rates) ==
    [provider |-> entry.provider, model |-> model, tier |-> tier,
     min |-> min, rates |-> rates]

PricesNamed(m, entry) ==
    {r \in {Row(m, entry, tier, FirstToken(entry, t), RatesOf(entry, t, tier)) :
                t \in Thresholds(entry), tier \in Tiers} : r.rates # Nil}

\* A range of tiered_pricing starts after its first bound, and gives way to a
\* price without a tier that starts at the same token.
PricesOfRanges(m, entry) ==
    {r \in {Row(m, entry, None, IF x.start > 0 THEN x.start + 1 ELSE x.start, x.rates) :
                x \in entry.ranges} :
        \A k \in PricesNamed(m, entry) : k.tier = None => k.min # r.min}

Expand(map) ==
    UNION {PricesNamed(m, map[m]) \cup PricesOfRanges(m, map[m]) : m \in DOMAIN map}

\* What fetching each version of each map gives.
Catalog == [o \in Fetched |-> [v \in DOMAIN Versions[o] |-> Expand(Versions[o][v])]]

\* The order the map names them in, some order.
InOrder(S) ==
    CHOOSE list \in [1..Cardinality(S) -> S] : \A r \in S : \E i \in DOMAIN list : list[i] = r

---------------------------------------------------------------------------
(* Filling: the price of an event, FILL of price/cost.rs. *)

\* A row is named by its origin and its place there.  Ids only tell rows of one
\* origin apart: the rank compares origins before them.
At(i) == prices[i[1]][i[2]]

\* A price of an origin is one for the request.
Applies(p, origin, q) ==
    /\ \/ p.model = q.model
       \/ p.model = q.alias
       \/ q.model \in DOMAIN PricedAs /\ p.model = PricedAs[q.model]
       \/ p.model = <<q.provider, q.model[2]>> /\ p.provider = q.provider
    /\ origin = "manual" => p.provider \in {Nil, q.provider}
    /\ p.tier \in {None, q.tier}
    /\ p.min <= q.input

\* The rows that may price a request.
Candidates(q) ==
    {i \in UNION {{o} \X DOMAIN prices[o] : o \in Origins} :
        Applies(At(i), i[1], q) /\ At(i).from <= q.at}

Flag(condition) == IF condition THEN 1 ELSE 0

OriginRank(origin) ==
    CASE origin = "manual" -> 2 [] origin = "live" -> 1 [] OTHER -> 0

RankByDate(i, q) ==
    LET p == At(i)
    IN  <<Flag(p.model = q.model), Flag(p.tier # None), OriginRank(i[1]),
          p.from, p.min, Flag(p.provider # Nil), i[2]>>

Rank(i, q) ==
    LET p == At(i)
    IN  <<Flag(p.model = q.model), Flag(p.tier # None), OriginRank(i[1]),
          p.min, Flag(p.provider # Nil), p.from, i[2]>>

Above(a, b) ==
    \E k \in DOMAIN a : a[k] > b[k] /\ \A j \in 1..(k - 1) : a[j] = b[j]

Choice(q) ==
    LET rows == Candidates(q)
    IN  CHOOSE i \in rows : \A j \in rows \ {i} : Above(Rank(i, q), Rank(j, q))

Cost(rates, q) ==
    LET own == q.input - q.read - q.write
    IN  (IF own > 0 THEN own ELSE 0) * rates.input
        + q.read * rates.read + q.write * rates.write + q.output * rates.output

\* The update of one event: a billed cost already there stays.
Priced(e, row) ==
    LET q == Request[e]
        chosen == Choice(q)
        list == Cost(At(chosen).rates, q)
    IN  [row EXCEPT !.price = chosen, !.list = list,
                    !.billed = IF @ # Nil THEN @
                               ELSE IF q.oauth THEN 0 ELSE list]

Filled(rows) ==
    [e \in Events |->
        IF rows[e].seen /\ rows[e].list = Nil /\ Candidates(Request[e]) # {}
        THEN Priced(e, rows[e])
        ELSE rows[e]]

\* The minute's fill: one transaction.
Fill ==
    /\ event' = Filled(event)
    /\ UNCHANGED <<now, served, prices, sync, faults, record>>

\* Reprice forgets and fills in one transaction; what a LiteLLM source billed stays.
ForgottenByAll(row, q) == [row EXCEPT !.price = Nil, !.list = Nil, !.billed = Nil]

Forgotten(row, q) ==
    [row EXCEPT !.price = Nil, !.list = Nil,
                !.billed = IF q.kind = "litellm" THEN @ ELSE Nil]

Reprice(from, to) ==
    /\ event' = Filled([e \in Events |->
                   IF event[e].seen /\ Request[e].at \in from..to
                   THEN Forgotten(event[e], Request[e])
                   ELSE event[e]])
    /\ UNCHANGED <<now, served, prices, sync, faults, record>>

\* A batch's event, with the cost its upstream reports, at or after it happened.
Store(e) ==
    /\ ~event[e].seen /\ Request[e].at <= now
    /\ \A d \in Events :               \* a record already stored is a duplicate
          event[d].seen => Identity(Parse(Raw[d])) # Identity(Parse(Raw[e]))
    /\ Cardinality({d \in Events : event[d].seen}) < MaxEvents
    /\ event' = [event EXCEPT ![e].seen = TRUE, ![e].billed = Request[e].spend]
    /\ UNCHANGED <<now, served, prices, sync, faults, record>>

---------------------------------------------------------------------------
(* Adding rows: people, and the sync of the maps. *)

\* A negative start or rate is refused; without a date the price starts now.
Valid(p) == p.min >= 0 /\ \A name \in Names : p.rates[name] >= 0

CreatePrice(p) ==
    /\ Valid(p) /\ Len(prices["manual"]) < MaxRows
    /\ prices' = [prices EXCEPT !["manual"] = Append(@,
                    [provider |-> p.provider, model |-> p.model, tier |-> p.tier,
                     min |-> p.min, rates |-> p.rates,
                     from |-> IF p.from = Nil THEN now ELSE p.from])]
    /\ UNCHANGED <<now, served, event, sync, faults, record>>

\* Where a sync stands: begun, with a map fetched, stamped, recorded, and at its fill.
Begins(s) ==
    /\ sync[s] = Nil
    /\ sync' = [sync EXCEPT ![s] = [todo |-> Maps, map |-> Nil, at |-> Nil]]

Fetches(s) ==
    /\ sync[s] # Nil /\ sync[s].map = Nil /\ sync[s].todo # <<>>
    /\ sync' = [sync EXCEPT ![s].map = served[Head(sync[s].todo)]]

\* While the clock is behind an origin's rows each sync dates the changed ones anew.
MayRecord(o) ==
    Len(record[o]) < MaxRecordings \/ \A i \in DOMAIN prices[o] : prices[o][i].from <= now

\* The map has arrived: the clock is read before the writer is waited for.
Stamps(s) ==
    /\ sync[s] # Nil /\ sync[s].map # Nil /\ sync[s].at = Nil
    /\ MayRecord(Head(sync[s].todo))
    /\ sync' = [sync EXCEPT ![s].at = now]

Records(s) ==
    /\ sync[s] # Nil /\ sync[s].at # Nil
    /\ sync' = [sync EXCEPT ![s] = [todo |-> Tail(@.todo), map |-> Nil, at |-> Nil]]

Ends(s) == sync[s] # Nil /\ sync[s].todo = <<>> /\ sync' = [sync EXCEPT ![s] = Nil]

\* sync: at start, every refresh_hours, and when asked.
StartSync(s) == Begins(s) /\ UNCHANGED <<now, served, prices, event, faults, record>>

Fetch(s) == Fetches(s) /\ UNCHANGED <<now, served, prices, event, faults, record>>

Stamp(s) == Stamps(s) /\ UNCHANGED <<now, served, prices, event, faults, record>>

\* A map that cannot be read is passed over.
FetchFails(s) ==
    /\ faults < MaxFaults
    /\ sync[s] # Nil /\ sync[s].map = Nil /\ sync[s].todo # <<>>
    /\ sync' = [sync EXCEPT ![s].todo = Tail(@)]
    /\ faults' = faults + 1
    /\ UNCHANGED <<now, served, prices, event, record>>

SameKey(a, b) ==
    a.provider = b.provider /\ a.model = b.model /\ a.tier = b.tier /\ a.min = b.min

\* The newest row of a key, or 0: ORDER BY effective_from, price_id.
Latest(o, r) ==
    LET rows == prices[o]
        same == {i \in DOMAIN rows : SameKey(rows[i], r)}
    IN  IF same = {} THEN 0
        ELSE CHOOSE i \in same : \A j \in same \ {i} :
                \/ rows[i].from > rows[j].from
                \/ rows[i].from = rows[j].from /\ i > j

KnownIsUnchanged(o, r) == Latest(o, r) # 0

Unchanged(o, r) == Latest(o, r) # 0 /\ prices[o][Latest(o, r)].rates = r.rates

\* The first row of a key is dated at the epoch, a changed one by the stamp.
NewRow(o, r, at) ==
    [provider |-> r.provider, model |-> r.model, tier |-> r.tier, min |-> r.min,
     rates |-> r.rates,
     from |-> IF Latest(o, r) = 0 THEN Beginning ELSE at]

Record(s) ==
    /\ Records(s)
    /\ LET o == Head(sync[s].todo)
           new == InOrder({r \in Catalog[o][sync[s].map] : ~Unchanged(o, r)})
       IN  /\ prices' = [prices EXCEPT ![o] =
                            @ \o [i \in DOMAIN new |-> NewRow(o, new[i], sync[s].at)]]
           /\ record' = [record EXCEPT ![o] = IF new = <<>> THEN @
                            ELSE Append(@, [map |-> sync[s].map, at |-> sync[s].at])]
    /\ UNCHANGED <<now, served, event, faults>>

\* A sync ends with a fill.
Finish(s) ==
    /\ Ends(s)
    /\ event' = Filled(event)
    /\ UNCHANGED <<now, served, prices, faults, record>>

\* The database refuses a write, or the process stops: the sync ends where it is.
Abandon(s) ==
    /\ sync[s] # Nil /\ faults < MaxFaults
    /\ sync' = [sync EXCEPT ![s] = Nil]
    /\ faults' = faults + 1
    /\ UNCHANGED <<now, served, prices, event, record>>

---------------------------------------------------------------------------
\* The map's server begins to answer with its next version.
Serve(o) ==
    /\ served[o] < Len(Versions[o])
    /\ served' = [served EXCEPT ![o] = @ + 1]
    /\ UNCHANGED <<now, prices, event, sync, faults, record>>

Tick ==
    /\ now < MaxNow
    /\ now' = now + 1
    /\ UNCHANGED <<served, prices, event, sync, faults, record>>

\* The host sets its clock back.
StepBack ==
    /\ now > 1 /\ faults < MaxFaults
    /\ now' = now - 1
    /\ faults' = faults + 1
    /\ UNCHANGED <<served, prices, event, sync, record>>

Init ==
    /\ now = 1
    /\ served = [o \in Fetched |-> 1]
    /\ prices = [o \in Origins |-> <<>>]
    /\ event = [e \in Events |->
                   [seen |-> FALSE, price |-> Nil, list |-> Nil, billed |-> Nil]]
    /\ sync = [s \in Syncers |-> Nil]
    /\ faults = 0
    /\ record = [o \in Fetched |-> <<>>]

Next ==
    \/ Fill
    \/ \E from, to \in {0, MaxNow} : from <= to /\ Reprice(from, to)
    \/ \E e \in Events : Store(e)
    \/ \E p \in ManualPrices : CreatePrice(p)
    \/ \E s \in Syncers :
          \/ StartSync(s) \/ Fetch(s) \/ FetchFails(s) \/ Stamp(s)
          \/ Record(s) \/ Finish(s) \/ Abandon(s)
    \/ \E o \in Fetched : Serve(o)
    \/ Tick
    \/ StepBack

Spec == Init /\ [][Next]_vars

(***************************************************************************)
(* spawn of price/mod.rs syncs every refresh_hours for as long as the       *)
(* process runs.  A sync asked for may be dropped, and the fill at a sync's *)
(* end is enough: nothing is assumed of the minute's.  Giving up before the *)
(* fill moves the sync as its end does, at most MaxFaults times.  A clock   *)
(* that was set back goes on.                                               *)
(***************************************************************************)
PeriodicSync ==
    \/ Begins("periodic") \/ Fetches("periodic") \/ Stamps("periodic")
    \/ Records("periodic") \/ Ends("periodic")

Fairness == WF_sync(PeriodicSync) /\ WF_now(Tick)

FairSpec == Spec /\ Fairness

---------------------------------------------------------------------------
(* Properties *)

\* The map of a recording gives a row of a key.
Gives(o, recording, p) == \E r \in Catalog[o][recording.map] : SameKey(r, p)

\* A recording of a key that came after one with a later date.
Late(o, recordings, n, p) ==
    \E m \in DOMAIN recordings :
        m < n /\ Gives(o, recordings[m], p) /\ recordings[m].at > recordings[n].at

\* A row costs what one of the recordings says of its key, made by an instant or the
\* first of all, and each made since, by that instant, came out of order.
Told(o, recordings, p, at) ==
    \E n \in DOMAIN recordings :
        /\ \E r \in Catalog[o][recordings[n].map] : SameKey(r, p) /\ r.rates = p.rates
        /\ \/ recordings[n].at <= at
           \/ \A m \in DOMAIN recordings : Gives(o, recordings[m], p) => n <= m
        /\ \A m \in DOMAIN recordings :
              m > n /\ Gives(o, recordings[m], p) /\ recordings[m].at <= at =>
                  Late(o, recordings, m, p)

\* The row a fill takes from a map for a request, out of the whole history of rows of
\* every origin, threshold and tier, costs what the last map recorded by the time of
\* the request, or else the first, says of its key, whatever syncs waited for the
\* writer or saw the clock step back in between; and no map ever recorded named a
\* price of the model for the request with a tier where the row has none, or of the
\* row's tier from a higher threshold (record of price/catalog.rs, the ranking of
\* price/cost.rs).  Rows are never retired: a price that a later map drops is charged
\* on.
ChargedAsTheMap ==
    \A e \in DOMAIN Request :
        LET q == Request[e]
            i == Choice(q)
            o == i[1]
        IN  Candidates(q) # {} /\ o # "manual" =>
                /\ Told(o, record[o], At(i), q.at)
                /\ \A n \in DOMAIN record[o] : \A r \in Catalog[o][record[o][n].map] :
                      r.model = At(i).model /\ Applies(r, o, q) =>
                          /\ r.tier # None => At(i).tier # None
                          /\ r.tier = At(i).tier => r.min <= At(i).min

\* The costs of an event: of one row in force when it happened, and what its
\* upstream billed, or else nothing for an OAuth account and the list cost for
\* any other.  (A LiteLLM row without a spend is left out: reprice takes the first
\* list cost it was given for a billed cost of the upstream's, price/cost.rs:97.)
Holds(q, row) ==
    /\ row.list # Nil =>
          row.price \in Candidates(q) /\ row.list = Cost(At(row.price).rates, q)
    /\ q.kind # "litellm" \/ q.spend # Nil =>
          row.billed = IF q.spend # Nil THEN q.spend
                       ELSE IF row.list = Nil THEN Nil
                       ELSE IF q.oauth THEN 0 ELSE row.list

\* However fills, syncs and reprices come in between, a priced event's costs stay
\* those of one row in force when it happened, and what its upstream billed is
\* never overwritten by a fill or forgotten by a reprice.
CostsHold == \A e \in Events : event[e].seen => Holds(Request[e], event[e])

InEffect(o) ==
    \A r \in Catalog[o][served[o]] :
        Latest(o, r) # 0 /\ prices[o][Latest(o, r)].rates = r.rates

\* Once a map stops changing and the clock goes on, its prices are the latest rows of
\* their keys for good, whatever an older sync still held and however it dated its
\* rows, and no event a row can price stays unpriced (sync, fill and spawn).
MapsTakeEffect ==
    <>[](/\ \A o \in Fetched : InEffect(o)
         /\ \A e \in Events :
               event[e].seen /\ Candidates(Request[e]) # {} => event[e].price # Nil)

\* Each record a reader can read: what an event keeps of it, and what it states.
Stated(r) == IF r.kind = "cliproxy" THEN Classes(r) ELSE RowClasses(r)

Tokens(q) == [input |-> q.input, read |-> q.read, write |-> q.write, output |-> q.output]

Counted == {[kept |-> Tokens(Kept(Parse(r))), stated |-> Stated(r)] : r \in Sent}

\* What the readers keep of a record and what a price makes of it agree with the
\* record's own counting: every token it states in a class is charged, once and at its
\* own rate, however its provider lets input, cache, output and reasoning overlap
\* (Semantics and flat of usage/cliproxy.rs, usage/litellm.rs, the sum of FILL),
\* by every price there is.  Tokens in no class, those a record leaves unclassified
\* and all of an older one whose provider's counting is unknown, are charged nothing;
\* of a record that states more cache than input, which FILL clamps, nothing is
\* claimed.
EachTokenChargedOnce ==
    \A o \in Origins : \A i \in DOMAIN prices[o] : \A c \in Counted :
        LET rates == prices[o][i].rates
            stated == c.stated
        IN  stated.input >= 0 =>
                Cost(rates, c.kept) =
                    stated.input * rates.input + stated.read * rates.read
                    + stated.write * rates.write + stated.output * rates.output

---------------------------------------------------------------------------
(* The inductive invariant. *)

PricesInv ==
    /\ DOMAIN prices = Origins
    /\ \A o \in Origins :
          /\ prices[o] \in Seq({prices[o][i] : i \in DOMAIN prices[o]})
          /\ \A i \in DOMAIN prices[o] :
                /\ prices[o][i].min \in Int /\ prices[o][i].from \in Int
                /\ RatesTyped(prices[o][i].rates)

\* A map that is fetched is one its server answered with, and of the sync's next origin.
SyncInv ==
    /\ now \in 1..MaxNow
    /\ served \in [Fetched -> Nat]
    /\ \A o \in Fetched : served[o] \in DOMAIN Versions[o]
    /\ sync \in [Syncers -> {Nil} \cup [todo : Seq(Fetched), map : Nat \cup {Nil},
                                       at : 1..MaxNow \cup {Nil}]]
    /\ \A s \in Syncers :
          sync[s] # Nil /\ sync[s].map # Nil =>
              /\ sync[s].todo # <<>>
              /\ sync[s].map \in DOMAIN Versions[Head(sync[s].todo)]
    /\ \A s \in Syncers : sync[s] # Nil /\ sync[s].at # Nil => sync[s].map # Nil

EventsInv ==
    /\ event \in [Events -> [seen : BOOLEAN, price : {Nil} \cup (Origins \X Nat),
                             list : Int \cup {Nil},
                             billed : Int \cup {Nil} \cup {Request[e].spend : e \in Events}]]
    /\ \A e \in Events : ~event[e].seen => event[e].list = Nil /\ event[e].billed = Nil

\* No row of its key that is dated by an instant is dated later or, that day, added
\* later.
InForce(rows, i, at) ==
    /\ rows[i].from <= at
    /\ \A j \in DOMAIN rows :
          SameKey(rows[j], rows[i]) /\ rows[j].from <= at =>
              rows[j].from < rows[i].from \/ (rows[j].from = rows[i].from /\ j <= i)

\* Each price of a recorded map has a row from the beginning on, each row from later
\* on has the date of a recording of its key, and at every instant the row of a key in
\* force costs what the recordings tell.
FollowsMap(o, rows, recordings) ==
    /\ recordings \in Seq([map : Nat, at : Nat])
    /\ \A n \in DOMAIN recordings :
          /\ recordings[n].map \in DOMAIN Versions[o]
          /\ \A r \in Catalog[o][recordings[n].map] :
                \E i \in DOMAIN rows : SameKey(rows[i], r) /\ rows[i].from = Beginning
    /\ \A i \in DOMAIN rows :
          /\ rows[i].from \in 0..MaxNow
          /\ rows[i].from # Beginning =>
                \E n \in DOMAIN recordings :
                    Gives(o, recordings[n], rows[i]) /\ recordings[n].at = rows[i].from
    /\ \A at \in Nat : \A i \in DOMAIN rows :
          InForce(rows, i, at) => Told(o, recordings, rows[i], at)

HistoryInv ==
    DOMAIN record = Fetched /\ \A o \in Fetched : FollowsMap(o, prices[o], record[o])

PricingInv == PricesInv /\ SyncInv /\ EventsInv /\ CostsHold
=============================================================================
