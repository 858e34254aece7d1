---------------------------- MODULE MCReadings -----------------------------
(* Seven providers' answers: each with the cases its adapter tells apart,   *)
(* torn ones among them.                                                    *)
EXTENDS ProviderReads

Entry(provider) ==
    [provider |-> provider, index |-> "index", disabled |-> FALSE, project |-> "project",
     name |-> "name", runtimeOnly |-> FALSE, plan |-> "plus", official |-> FALSE,
     prefixed |-> TRUE, tier |-> 0]

MCCredentials ==
    {Entry(p) : p \in {"claude", "codex", "antigravity", "kimi", "devin", "meta", "xai"}}
    \cup {[Entry("xai") EXCEPT !.tier = 1], [Entry("claude") EXCEPT !.disabled = TRUE]}

Named(end) == [used |-> 140, resets |-> end]
NoExtra == Nil

Scoped(end, active) == [fable |-> TRUE, percent |-> 30, resets |-> end, active |-> active]

ClaudeUsage(end) ==
    {[named |-> [k \in {"five-hour", "seven-day-fable"} |-> Named(end)],
      limits |-> <<>>, extra |-> [percent |-> Bad, used |-> 3, limit |-> 2]],
     [named |-> [k \in {"seven-day-opus", "seven-day-fable"} |-> [Named(end) EXCEPT !.used = Bad]],
      limits |-> <<Scoped(Nil, FALSE), Scoped(end, TRUE)>>, extra |-> NoExtra]}

ClaudeProfiles ==
    {[active |-> TRUE, kind |-> "team", max |-> TRUE, pro |-> Nil],
     [active |-> FALSE, kind |-> "team", max |-> FALSE, pro |-> FALSE]}

Grant(id, left, ends) == [id |-> id, total |-> 2, left |-> left, ends |-> ends]
Block(grants) == [eligible |-> TRUE, grants |-> grants]

ClaudeBlocks ==
    {Nil, Block(Nil), Block(<<Grant("g", 2, Nil), Grant("h", 0, 9)>>),
     Block(<<Grant("g", 1, 9), Grant("h", Bad, Nil)>>),
     Block(<<Grant("g", 1, 9), Grant("h", 1, Bad)>>), Block(<<Grant("g", 1, 9), Grant("g", 1, 9)>>)}

CodexLimit(first, second, reached) ==
    [windows |-> <<first, second>>, reached |-> reached, allowed |-> ~reached]

Counts(length, percent, at, after) ==
    [length |-> length, percent |-> percent, at |-> at, after |-> after]

CodexUsage(end, after) ==
    {[plan |-> Nil, review |-> Nil, more |-> <<>>,
      main |-> CodexLimit(Counts(Week, 40, Nil, after), Counts(FiveHours, Nil, Nil, after), TRUE)],
     [plan |-> "pro",
      main |-> CodexLimit(Counts(Nil, 10, end, Nil), Counts(30 * Day, 20, Nil, after), FALSE),
      review |-> CodexLimit(Nil, Counts(Week, 5, Nil, after), FALSE),
      more |-> <<[name |-> Nil, limit |-> CodexLimit(Nil, Counts(Week, 1, Bad, Nil), FALSE)]>>]}

Credit(available, ends) == [resets |-> TRUE, available |-> available, ends |-> ends]

CodexLists ==
    {[known |-> FALSE, credits |-> <<>>], [known |-> TRUE, credits |-> <<>>],
     [known |-> TRUE, credits |-> <<Credit(TRUE, 9), Credit(TRUE, 8)>>],
     [known |-> TRUE, credits |-> <<Credit(TRUE, 9), Credit(TRUE, Bad), Credit(FALSE, 7),
                                    [Credit(TRUE, 6) EXCEPT !.resets = FALSE]>>]}

Payload(groups) ==
    [models |-> FALSE, body |-> Nil, groups |-> groups, paid |-> Nil, current |-> Nil]

Bucket(id, window, end) == [id |-> id, window |-> window, remaining |-> 70, resets |-> end]

AntigravityQuota(end) ==
    {Payload(<<>>),
     [Payload(<<>>) EXCEPT !.body =
          Payload(<<<<Bucket(Nil, "5h", end), Bucket(Nil, Nil, Nil)>>, <<Bucket(<<"b">>, "week", end)>>>>)]}

AntigravityTiers ==
    {[Payload(<<>>) EXCEPT !.paid = [id |-> Nil, name |-> "paid"],
                           !.current = [id |-> "free-tier", name |-> Nil]],
     [Payload(<<>>) EXCEPT !.paid = [id |-> "g1-pro-tier", name |-> Nil]]}

Row(limit, used, remaining, after) ==
    [limit |-> limit, used |-> used, remaining |-> remaining, at |-> Nil, after |-> after,
     duration |-> 5, unit |-> "hour", label |-> Nil]

KimiUsage(end, after) ==
    {[limits |-> <<Row(10, Nil, 4, after), Row(Nil, Nil, 4, after)>>, summary |-> Row(0, 3, Nil, Nil)],
     [limits |-> <<Row(10, 12, Nil, after)>>, summary |-> Nil],
     [limits |-> <<>>, summary |-> Row(Nil, Bad, 1, after)]}

Used(used, end) == [used |-> used, resets |-> end, minutes |-> 300]

MetaKeys(end) ==
    {[object |-> FALSE], [object |-> TRUE, rolling |-> Nil, weekly |-> Nil, plan |-> Nil, tier |-> "t"],
     [object |-> TRUE, rolling |-> Used(101, end), weekly |-> Used(Bad, end), plan |-> Bad, tier |-> Nil]}

DevinStatus(end) ==
    {[daily |-> [left |-> 101, resets |-> Nil], weekly |-> [left |-> Nil, resets |-> 0], plan |-> "p"],
     [daily |-> [left |-> 30, resets |-> end], weekly |-> [left |-> 101, resets |-> end], plan |-> Nil]}

Config(credit, products, limit, used, cap, end) ==
    [config |-> [period |-> "", credit |-> credit, opens |-> Nil, closes |-> Nil, start |-> 1,
                 end |-> end, products |-> products, limit |-> limit, used |-> used, cap |-> cap,
                 overused |-> Nil]]

XaiBilling(end) ==
    {[config |-> Nil], Config(Nil, <<>>, Nil, Nil, Nil, Nil),
     Config(40, <<[name |-> Nil, used |-> 4]>>, Nil, Nil, Nil, end),
     Config(Nil, <<>>, 5, 8, 10, end)}

MCBodies(provider, call, end, late) ==
    LET after == end - (Now - late)
    IN  CASE call = "usage" /\ provider = "claude" -> ClaudeUsage(end)
          [] call = "usage" /\ provider = "codex" -> CodexUsage(end, after)
          [] call = "usage" /\ provider = "kimi" -> KimiUsage(end, after)
          [] call = "usage" -> DevinStatus(end)
          [] call = "profile" -> ClaudeProfiles
          [] call = "grants" /\ provider = "claude" -> {[cedar |-> b] : b \in ClaudeBlocks}
          [] call = "grants" -> CodexLists
          [] call \in {"host1", "host2", "host3"} -> AntigravityQuota(end)
          [] call = "subscription" -> AntigravityTiers
          [] call = "file" -> {[object |-> FALSE, token |-> FALSE], [object |-> TRUE, token |-> FALSE],
                               [object |-> TRUE, token |-> TRUE]}
          [] call = "key" -> MetaKeys(end)
          [] call \in Billing -> XaiBilling(end)
          [] OTHER -> {}

MCEnds == <<1000, 1300>>
=============================================================================
