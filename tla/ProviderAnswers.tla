-------------------------- MODULE ProviderAnswers ---------------------------
(***************************************************************************)
(* What each quota adapter reads in a provider's answers                    *)
(* (src/src/quota/provider/).  An answer's body is a record of the fields   *)
(* an adapter looks at; a field spelled two ways is one field.  A field is  *)
(* Nil when absent or null, and Bad when it is not of the type looked for.  *)
(* Fractions are whole percents and instants are seconds; labels are left   *)
(* out.  A name is a tuple of its words (slug), and a window's key a tuple   *)
(* of the parts it is joined from.                                         *)
(***************************************************************************)
EXTENDS Integers, Sequences, SequencesExt

CONSTANTS
    Nil,    \* an absent field, None
    Bad     \* a field that cannot be read

Hour == 3600
Day == 24 * Hour
Week == 7 * Day
FiveHours == 5 * Hour

Or(value, default) == IF value = Nil THEN default ELSE value

\* number, integer, instant, text: what is not one is not there.
Read(value) == IF value = Bad THEN Nil ELSE value

Clamped(percent) == IF percent < 0 THEN 0 ELSE IF percent > 100 THEN 100 ELSE percent

Percent(value) == IF Read(value) = Nil THEN Nil ELSE Clamped(value)

\* A length from now, and the instant that ends it.
After(seconds, now) ==
    IF Read(seconds) = Nil THEN Nil ELSE IF seconds > 0 THEN now + seconds ELSE Nil

\* A share of a limit, in percent; a limit of zero has none.
Share(used, limit) ==
    IF Nil \in {used, limit} THEN Nil ELSE IF limit > 0 THEN (100 * used) \div limit ELSE Nil

Window(key) ==
    [key |-> key, used |-> Nil, seconds |-> Nil, resets |-> Nil, count |-> Nil, limit |-> Nil,
     scope |-> "account", onUse |-> FALSE]

\* filter_map: the values that are there.
Present(list) ==
    LET kept[i \in 0..Len(list)] ==
            IF i = 0 THEN <<>>
            ELSE IF list[i] = Nil THEN kept[i - 1] ELSE Append(kept[i - 1], list[i])
    IN  kept[Len(list)]

Each(list, Op(_, _)) == [i \in DOMAIN list |-> Op(list[i], i)]

FirstOf(list) == IF Present(list) = <<>> THEN Nil ELSE Present(list)[1]

---------------------------------------------------------------------------
(* Claude *)

ClaudeKeys ==
    <<"five-hour", "seven-day", "seven-day-oauth-apps", "seven-day-opus",
      "seven-day-sonnet", "seven-day-cowork", "seven-day-fable">>

ClaudeScope(key) ==
    CASE key = "seven-day-opus" -> "opus"
      [] key = "seven-day-sonnet" -> "sonnet"
      [] key = "seven-day-fable" -> "fable"
      [] key = "seven-day-cowork" -> "unmetered"
      [] OTHER -> "account"

\* The active limit of the Fable model, or the first with a percentage.
FableLimit(usage) ==
    LET stated(l, i) == IF l.fable /\ Read(l.percent) # Nil THEN l ELSE Nil
        inForce(l, i) == IF l.active THEN l ELSE Nil
        candidates == Present(Each(usage.limits, stated))
        active == Present(Each(candidates, inForce))
    IN  FirstOf(active \o candidates)

ClaudeWindow(key, used, resets) ==
    [Window(<<key>>) EXCEPT !.used = Percent(used), !.resets = Read(resets),
        !.seconds = IF key = "five-hour" THEN FiveHours ELSE Week,
        !.scope = ClaudeScope(key), !.onUse = key = "five-hour"]

ClaudeWindows(usage) ==
    LET fable == FableLimit(usage)
        named(key, i) ==
            IF key \notin DOMAIN usage.named \/ (key = "seven-day-fable" /\ fable # Nil)
            THEN Nil
            ELSE ClaudeWindow(key, usage.named[key].used, usage.named[key].resets)
        scoped ==
            IF fable = Nil THEN Nil
            ELSE ClaudeWindow("seven-day-fable", fable.percent, fable.resets)
        extra ==
            IF usage.extra = Nil THEN Nil
            ELSE LET used == Read(usage.extra.used)
                     limit == Read(usage.extra.limit)
                 IN  [Window(<<"extra-usage">>) EXCEPT
                         !.used = Or(Percent(usage.extra.percent), Share(used, limit)),
                         !.count = used, !.limit = limit]
    IN  Present(Each(ClaudeKeys, named) \o <<scoped, extra>>)

\* An organization's own plan, or what the account's flags say.
ClaudePlan(profile) ==
    IF profile.active /\ profile.kind \in {"team", "enterprise"} THEN profile.kind
    ELSE IF profile.max = TRUE THEN "max"
    ELSE IF profile.pro = TRUE THEN "pro"
    ELSE IF profile.max = FALSE /\ profile.pro = FALSE THEN "free"
    ELSE Nil

ReadableGrant(g) ==
    /\ Read(g.id) # Nil
    /\ Read(g.total) # Nil /\ Read(g.left) # Nil
    /\ g.total >= 0 /\ g.left \in 0..g.total
    /\ g.ends # Bad

\* A list with one grant that cannot be read is not read at all.
ReadsPart(block) ==
    LET kept(g, i) ==
            IF ReadableGrant(g) /\ g.left > 0
            THEN [left |-> g.left, total |-> g.total, ends |-> g.ends] ELSE Nil
    IN  IF block = Nil \/ Read(block.eligible) = Nil \/ block.grants = Bad THEN Nil
        ELSE Present(Each(Or(block.grants, <<>>), kept))

ClaudeGrants(block) ==
    LET listed == Or(block.grants, <<>>)
        kept(g, i) ==
            IF g.left > 0 THEN [left |-> g.left, total |-> g.total, ends |-> g.ends] ELSE Nil
    IN  IF \/ block = Nil \/ Read(block.eligible) = Nil \/ block.grants = Bad
           \/ \E i \in DOMAIN listed : ~ReadableGrant(listed[i])
           \/ \E i, j \in DOMAIN listed : i < j /\ listed[i].id = listed[j].id
        THEN Nil
        ELSE Present(Each(listed, kept))

---------------------------------------------------------------------------
(* Codex *)

Monthly(length) == Read(length) # Nil /\ length >= 28 * Day /\ length <= 31 * Day

Weekly(length) == length = Week \/ Monthly(length)

\* The short and the long window's places: by their length, else by their order.
Classify(limit) ==
    LET there == {i \in {1, 2} : limit.windows[i] # Nil}
        length(i) == limit.windows[i].length
        first(of) == IF of = {} THEN Nil ELSE IF 1 \in of THEN 1 ELSE 2
        place(i) == IF i \in there THEN i ELSE Nil
        stated == [short |-> first({i \in there : length(i) = FiveHours}),
                   long |-> first({i \in there : Weekly(length(i))})]
        short == IF stated.short = Nil /\ stated.long # 1 THEN place(1) ELSE stated.short
    IN  [short |-> short,
         long |-> IF stated.long = Nil /\ short # 2 THEN place(2) ELSE stated.long]

CodexWindow(key, w, reached, now) ==
    LET resets == Or(Read(w.at), After(w.after, now))
    IN  [Window(key) EXCEPT
            !.resets = resets,
            !.used = Or(Percent(w.percent), IF reached /\ resets # Nil THEN 100 ELSE Nil),
            !.seconds = IF Read(w.length) # Nil /\ w.length > 0 THEN w.length ELSE Nil]

\* One limit's windows; the additional limits' keys end in their place.
CodexPair(limit, prefix, place, now) ==
    LET at == Classify(limit)
        reached == limit.reached \/ ~limit.allowed
        read(i, name) == CodexWindow(prefix \o <<name>> \o place, limit.windows[i], reached, now)
    IN  IF limit = Nil THEN <<>>
        ELSE Present(<<
                IF at.short = Nil THEN Nil ELSE read(at.short, "five-hour"),
                IF at.long = Nil THEN Nil
                ELSE read(at.long, IF Monthly(limit.windows[at.long].length)
                                   THEN "monthly" ELSE "weekly")>>)

CodexWindows(usage, now) ==
    CodexPair(usage.main, <<>>, <<>>, now)
    \o CodexPair(usage.review, <<"code", "review">>, <<>>, now)
    \o LET pair(more, i) ==
               CodexPair(more.limit, Or(more.name, <<"additional", i>>), <<i - 1>>, now)
       IN  FlattenSeq(Each(usage.more, pair))

\* The entry's own claim stands in for the plan of the answer.
CodexPlan(usage, file) == Or(Read(usage.plan), file.plan)

CodexGrants(list) ==
    LET kept(c, i) ==
            IF c.resets /\ c.available /\ Read(c.ends) # Nil
            THEN [left |-> 1, total |-> Nil, ends |-> c.ends] ELSE Nil
    IN  IF ~list.known THEN Nil ELSE Present(Each(list.credits, kept))

---------------------------------------------------------------------------
(* Antigravity *)

Unwrapped(payload) ==
    IF payload.models \/ payload.body = Nil THEN payload ELSE payload.body

AntigravityWindows(payload) ==
    LET bucket(g, b, i) ==
            IF Read(b.remaining) = Nil THEN Nil
            ELSE [Window(Or(Read(b.id), <<g>> \o (IF Read(b.window) = Nil THEN <<"bucket", i>>
                                                   ELSE <<b.window>>))) EXCEPT
                     !.used = 100 - Clamped(b.remaining), !.resets = Read(b.resets),
                     !.seconds = IF b.window \in {"5h", "five-hour"} THEN FiveHours
                                 ELSE IF b.window \in {"week", "weekly"} THEN Week ELSE Nil]
        buckets(group, g) == Present([i \in DOMAIN group |-> bucket(g, group[i], i)])
    IN  FlattenSeq(Each(payload.groups, buckets))

\* A paid tier with an id outranks the current one.
AntigravityPlan(payload) ==
    LET tier == IF payload.paid # Nil /\ payload.paid.id # Nil
                THEN payload.paid ELSE payload.current
    IN  IF tier = Nil THEN Nil
        ELSE CASE tier.id = "free-tier" -> "free"
          [] tier.id = "g1-pro-tier" -> "pro"
          [] tier.id = "g1-ultra-tier" -> "ultra"
          [] tier.id = "g1-ultra-lite-tier" -> "ultra-lite"
          [] OTHER -> Or(tier.id, tier.name)

---------------------------------------------------------------------------
(* Kimi *)

\* seconds: an unknown unit is minutes.
UnitSeconds(unit) ==
    CASE unit = "second" -> 1 [] unit = "hour" -> Hour [] unit = "day" -> Day
      [] unit = "week" -> Week [] OTHER -> 60

\* seconds_from_label: the first of its words the label says.
LabelSeconds(label) ==
    CASE label = "day" -> Day [] label = "week" -> Week [] label = "month" -> 30 * Day
      [] label = "hour" -> FiveHours [] OTHER -> Nil

KimiRow(row, key, duration, label, now) ==
    LET limit == Read(row.limit)
        left == Read(row.remaining)
        used == Or(Read(row.used), IF Nil \in {limit, left} THEN Nil ELSE limit - left)
        length == Read(duration)
    IN  IF used = Nil /\ limit = Nil THEN Nil
        ELSE [Window(key) EXCEPT
                 !.used = Share(Or(used, 0), Or(limit, 0)),
                 !.count = Or(used, 0), !.limit = Or(limit, 0),
                 !.resets = Or(Read(row.at), After(row.after, now)),
                 !.seconds = IF length # Nil /\ length > 0
                             THEN length * UnitSeconds(row.unit)
                             ELSE LabelSeconds(Or(row.label, label))]

KimiWindows(usage, now) ==
    LET row(r, i) == KimiRow(r, <<"limit", i - 1>>, r.duration, Nil, now)
        summary == IF usage.summary = Nil THEN Nil
                   ELSE KimiRow(usage.summary, <<"summary">>, Nil, "week", now)
    IN  Present(Each(usage.limits, row) \o <<summary>>)

---------------------------------------------------------------------------
(* Meta and Devin *)

MetaWindow(window, key, length) ==
    LET resets == IF Read(window.resets) # Nil /\ window.resets > 0 THEN window.resets ELSE Nil
    IN  IF window = Nil THEN Nil
        ELSE IF Read(window.used) = Nil /\ resets = Nil THEN Nil
        ELSE [Window(<<key>>) EXCEPT !.used = Percent(window.used), !.resets = resets,
                                     !.seconds = length]

MetaWindows(key) ==
    LET rolling == key.rolling
        minutes == IF rolling = Nil THEN Nil ELSE Read(rolling.minutes)
    IN  Present(<<MetaWindow(rolling, "window",
                             IF minutes # Nil /\ minutes > 0 THEN minutes * 60 ELSE Nil),
                  MetaWindow(key.weekly, "weekly", Week)>>)

\* A remaining percentage out of 0..100 is none.
DevinWindow(window, key, length) ==
    LET left == IF Read(window.left) # Nil /\ window.left \in 0..100 THEN window.left ELSE Nil
        resets == IF Read(window.resets) # Nil /\ window.resets > 0 THEN window.resets ELSE Nil
    IN  IF left = Nil /\ resets = Nil THEN Nil
        ELSE [Window(<<key>>) EXCEPT !.used = IF left = Nil THEN Nil ELSE 100 - left,
                                     !.seconds = length, !.resets = resets]

DevinWindows(status) ==
    Present(<<DevinWindow(status.daily, "daily", Day), DevinWindow(status.weekly, "weekly", Week)>>)

---------------------------------------------------------------------------
(* xAI *)

\* A credential that is billed through the official API, or whose token says so.
IsPaid(file) == (file.official /\ file.prefixed) \/ file.tier >= 1

Span(start, end) ==
    IF Nil \in {start, end} THEN Nil ELSE IF end > start THEN end - start ELSE Nil

CreditWindows(c, start, end) ==
    LET window(key, used) ==
            [Window(key) EXCEPT !.used = Percent(used), !.seconds = Span(start, end),
                                !.resets = end]
        product(p, i) == window(<<"product">> \o Or(p.name, <<"product", i>>), p.used)
    IN  <<window(<<"credits">>, c.credit)>> \o Each(c.products, product)

SpendWindow(c, key, used, limit) ==
    [Window(<<key>>) EXCEPT !.used = Share(used, limit), !.count = used, !.limit = limit,
                            !.seconds = Span(Read(c.start), Read(c.end)),
                            !.resets = Read(c.end)]

BillingWindows(c) ==
    LET limit == Read(c.limit)
        used == Read(c.used)
        cap == Read(c.cap)
        weekly == Read(c.credit) # Nil \/ c.period = "weekly" \/ c.products # <<>>
        monthly == \/ limit # Nil \/ used # Nil
                   \/ ~weekly /\ (cap # Nil \/ Read(c.end) # Nil)
        included == IF Nil \notin {used, limit} /\ limit > 0 /\ used > limit THEN limit ELSE used
        over == IF Nil \in {used, limit} THEN Nil
                ELSE IF used > limit THEN used - limit ELSE 0
    IN  IF c = Nil THEN <<>>
        ELSE IF ~weekly /\ ~monthly THEN <<>>
        ELSE (IF weekly
              THEN CreditWindows(c, Or(Read(c.opens), Read(c.start)),
                                 Or(Read(c.closes), Read(c.end)))
              ELSE <<>>)
             \o (IF monthly THEN <<SpendWindow(c, "included-spend", included, limit)>>
                 ELSE <<>>)
             \o (IF cap = Nil THEN <<>>
                 ELSE <<SpendWindow(c, "on-demand-spend", Or(Read(c.overused), over), cap)>>)
=============================================================================
