----------------------------- MODULE MCPricing -----------------------------
(* Pricing over a map whose rates change and a price added by hand, with    *)
(* requests at a threshold, past it, with a tier, and known by other names,  *)
(* sent in each source's form and each provider's counting.                 *)
EXTENDS Pricing, TLC

Bare(name) == <<"", name>>

Key(name, t, tier) == <<name, t, tier>>

Same(i, o) == [input |-> i, output |-> o, read |-> i, write |-> i]

\* xAI's long context from 2 tokens, a tier, a cache rate named at the base; the
\* next version changes the base and the tier and drops the long context.
Base(i) ==
    (Key("input", 0, "none") :> i) @@ (Key("output", 0, "none") :> 2)
    @@ (Key("read", 0, "none") :> 1) @@ (Key("input", 0, "priority") :> i + 5)

Long == Key("input", 2, "none") :> 5

Grok(costs) == [provider |-> "xai", ranges |-> {}, costs |-> costs]

\* A long context past 2 tokens, and ranges that give way to it.
Muse == [provider |-> "meta",
         costs |-> (Key("input", 0, "none") :> 1) @@ (Key("output", 0, "none") :> 1)
                @@ (Key("input", 2, "none") :> 4),
         ranges |-> {[start |-> 0, rates |-> Same(2, 2)], [start |-> 2, rates |-> Same(5, 5)]}]

MCMaps == <<"public">>
MCVersions ==
    LET map(grok) == (Bare("grok-k") :> grok) @@ (<<"meta", "muse">> :> Muse)
    IN  "public" :> <<map(Grok(Base(1) @@ Long)), map(Grok(Base(2)))>>
MCPricedAs == Bare("grok") :> Bare("grok-k")

Provider(name, markers) == [name |-> name, markers |-> markers]
Unmarked == Provider("exec", {})
XAI == Provider("xai", {"xai"})
Meta == Provider("meta", {})
Claude == Provider("claude", {"claude"})
Gemini == Provider("gemini", {"gemini"})

Count(input, output, reasoning, cached, read, write) ==
    [input |-> input, output |-> output, reasoning |-> reasoning, cached |-> cached,
     cacheRead |-> read, cacheWrite |-> write, total |-> input + output]

Split(input, output, read, write, unclassified, quality) ==
    [input |-> input, output |-> output, reasoning |-> 0, cacheRead |-> read,
     cacheWrite |-> write, unclassified |-> unclassified,
     total |-> input + output + unclassified, quality |-> quality]

Record1(provider, executor, model, version, breakdown, tokens, auth, tier, at) ==
    [kind |-> "cliproxy", shaped |-> TRUE, id |-> "id", time |-> at, provider |-> provider,
     executor |-> executor, model |-> model, alias |-> Nil, version |-> version,
     breakdown |-> breakdown, tokens |-> tokens, auth |-> auth, index |-> "index",
     source |-> "source", client |-> "client", headers |-> Nil, failed |-> FALSE,
     status |-> 200, body |-> Nil, asked |-> tier, served |-> Nil]

\* A record that tells its buckets apart, and one older than that.
New(provider, model, split, auth, tier, at) ==
    Record1(provider, Unmarked, model, 2, split, Count(1, 0, 0, 0, 0, 0), auth, tier, at)

Old(provider, executor, model, tokens, at) ==
    Record1(provider, executor, model, 1, Nil, tokens, "oauth", Nil, at)

SpendRow(model, prompt, completion, read, write, form, spend, at) ==
    [kind |-> "litellm", shaped |-> TRUE, id |-> "id", time |-> at, provider |-> "xai",
     model |-> model, group |-> model, deployment |-> "deployment", base |-> Nil,
     client |-> "client", status |-> "success", prompt |-> prompt,
     completion |-> completion, total |-> Nil,
     meta |-> [form |-> form, whole |-> TRUE, key |-> "key", alias |-> Nil, code |-> Nil,
               error |-> Nil, cacheRead |-> read, cacheWrite |-> write],
     spend |-> spend]

MCEvents == {"tiered", "long"}
GrokK == Bare("grok-k")

\* Each provider's counting, with a cache and a reasoning share of its own.
Counts == {Count(5, 3, 1, 2, 0, 0), Count(5, 3, 1, 2, 1, 2)}
OpenAiCompatible == Provider("openaicompatexecutor", {"openai"})
Kinds == {XAI, Meta, Claude, Gemini, Provider("meta", {"compatible", "claude"})}
MCSamples ==
    {Old(p, Unmarked, GrokK, c, 1) : p \in Kinds, c \in Counts}
    \cup {Old(p, OpenAiCompatible, GrokK, Count(5, 3, 1, 2, 1, 2), 1) : p \in {XAI, Claude}}
    \cup {New(Meta, Bare("muse"), Split(2, 1, 1, 0, 0, "other"), "api-key", "flex", 1),
          SpendRow(GrokK, 3, 2, 1, 2, "object", Nil, 1),
          [SpendRow(GrokK, Nil, 2, 1, 2, "none", Nil, 1) EXCEPT !.status = "failure"],
          [SpendRow(GrokK, 3, 2, 1, 2, "text", Nil, 1) EXCEPT !.meta.whole = FALSE],
          New(XAI, GrokK, Nil, "oauth", Nil, 1)}

MCRaw ==
    ("early" :> Old(XAI, Unmarked, Bare("grok"), Count(1, 1, 0, 1, 0, 0), 0))
    @@ ("long" :> New(XAI, Bare("grok"), Split(2, 1, 1, 0, 0, "complete"), "apikey", Nil, 2))
    @@ ("tiered" :> [SpendRow(GrokK, 1, 1, 1, 0, "text", 7, 2) EXCEPT !.status = Nil])
    @@ ("priority" :> New(XAI, GrokK, Split(2, 1, 1, 0, 1, "unclassified"), "oauth2",
                          "priority", 2))
    @@ ("muse-long" :> New(Meta, Bare("muse"), Split(3, 1, 1, 1, 0, "complete"), "none", Nil, 1))

MCManualPrices ==
    {[provider |-> "xai", model |-> Bare("grok-k"), tier |-> "none", min |-> 0,
      rates |-> Same(9, 9), from |-> 0],
     [provider |-> Nil, model |-> Bare("grok-k"), tier |-> "none", min |-> -1,
      rates |-> Same(9, 9), from |-> 0]}
=============================================================================
