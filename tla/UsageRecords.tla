---------------------------- MODULE UsageRecords ----------------------------
(***************************************************************************)
(* What a gateway's usage record means here: the readers of CLIProxy's      *)
(* records (usage/cliproxy.rs) and of LiteLLM's spend rows                  *)
(* (usage/litellm.rs), and what is kept of a record neither can read.       *)
(* Text is a model value or a short name; a provider is a name and the      *)
(* markers its lowercased name contains.  A field sent empty is absent.     *)
(***************************************************************************)
EXTENDS Integers

CONSTANTS
    Nil,         \* a field that is not there, NULL
    Short        \* the secrets too short to show an end of

Or(value, default) == IF value = Nil THEN default ELSE value

SeparateReasoningMarkers == {"gemini", "aistudio", "antigravity", "vertex", "interaction"}

SubsetMarkers ==
    {"openai", "codex", "xai", "grok", "kimi", "qwen", "deepseek", "openrouter"}

\* mask: the end of a secret, or nothing of a short one.
Mask(secret) ==
    IF secret = Nil \/ secret \in Short THEN Nil ELSE <<"ends", secret>>

AuthKind(type) ==
    CASE type \in {"oauth", "oauth2"} -> "oauth"
      [] type \in {"apikey", "api_key", "api-key"} -> "api_key"
      [] OTHER -> "unknown"

\* NewAccount::new: only an OAuth login is shown whole.
NewAccount(key, kind, source) ==
    [key |-> key, auth |-> kind,
     label |-> IF kind = "oauth" THEN source ELSE Mask(source)]

Qualities == {"complete", "unclassified", "inconsistent"}

Rejected(payload) == [read |-> FALSE, payload |-> payload]

---------------------------------------------------------------------------
(* CLIProxy *)

\* Semantics::of: how one provider's flat counts overlap.
Semantics(provider, executor) ==
    LET named == provider.markers \cup executor.markers
    IN  IF executor.name = "openaicompatexecutor" \/ "compatible" \in provider.markers
        THEN "subset"
        ELSE IF named \cap {"claude", "anthropic"} # {} THEN "independent"
        ELSE IF named \cap SeparateReasoningMarkers # {} THEN "separate"
        ELSE IF named \cap SubsetMarkers # {} THEN "subset"
        ELSE "unknown"

\* Mutant: Anthropic's input is taken to hold its cache.
FlatAsSubset(t, semantics) ==
    LET cacheRead == IF t.cacheRead > 0 THEN t.cacheRead ELSE t.cached
    IN  IF semantics = "unknown"
        THEN [input |-> 0, output |-> 0, reasoning |-> 0, cacheRead |-> 0, cacheWrite |-> 0,
              unclassified |-> t.total, total |-> t.total, quality |-> "unclassified"]
        ELSE [input |-> t.input,
              output |-> t.output + (IF semantics = "separate" THEN t.reasoning ELSE 0),
              reasoning |-> t.reasoning, cacheRead |-> cacheRead,
              cacheWrite |-> t.cacheWrite, unclassified |-> 0, total |-> t.total,
              quality |-> Nil]

\* Tokens::flat: a record older than the breakdown.
Flat(t, semantics) ==
    LET cacheRead ==
            IF t.cacheRead > 0 \/ semantics = "independent" THEN t.cacheRead ELSE t.cached
        input == IF semantics = "independent"
                 THEN t.input + t.cacheRead + t.cacheWrite ELSE t.input
        output == IF semantics = "separate" THEN t.output + t.reasoning ELSE t.output
    IN  IF semantics = "unknown"
        THEN [input |-> 0, output |-> 0, reasoning |-> 0, cacheRead |-> 0, cacheWrite |-> 0,
              unclassified |-> t.total, total |-> t.total, quality |-> "unclassified"]
        ELSE [input |-> input, output |-> output, reasoning |-> t.reasoning,
              cacheRead |-> cacheRead, cacheWrite |-> t.cacheWrite, unclassified |-> 0,
              total |-> t.total, quality |-> Nil]

\* Version 2 splits the buckets apart itself; an unknown verdict is not kept.
Broken(b) ==
    [input |-> b.input, output |-> b.output, reasoning |-> b.reasoning,
     cacheRead |-> b.cacheRead, cacheWrite |-> b.cacheWrite,
     unclassified |-> b.unclassified, total |-> b.total,
     quality |-> IF b.quality \in Qualities THEN b.quality ELSE Nil]

CliProxyTokens(r) ==
    IF r.version >= 2 THEN Broken(r.breakdown)
    ELSE Flat(r.tokens, Semantics(r.provider, r.executor))

\* A rejected record without what can carry a credential.
StrippedRecord(r) ==
    LET secret == AuthKind(r.auth) # "oauth" \/ r.source = r.client
    IN  [r EXCEPT !.client = Nil, !.headers = Nil,
                  !.source = IF secret THEN Nil ELSE @]

ReadableRecord(r) ==
    /\ r.shaped                                  \* every required field, of its type
    /\ r.time # Nil                           \* an instant
    /\ r.version >= 2 => r.breakdown # Nil

CliProxyRow(r) ==
    IF ~ReadableRecord(r)
    THEN Rejected(StrippedRecord(r))
    ELSE LET kind == AuthKind(r.auth)
             source == IF kind = "oauth" /\ r.source = r.client THEN Nil ELSE r.source
         IN  [read |-> TRUE, kind |-> "cliproxy", id |-> r.id, at |-> r.time,
              provider |-> r.provider.name, model |-> r.model, alias |-> r.alias,
              account |-> NewAccount(r.index, kind, source),
              caller |-> Mask(r.client),
              tokens |-> CliProxyTokens(r),
              failed |-> r.failed, status |-> r.status,
              error |-> IF r.failed THEN r.body ELSE Nil,
              tier |-> IF r.served # Nil THEN r.served ELSE r.asked,
              spend |-> Nil]

---------------------------------------------------------------------------
(* LiteLLM *)

StrippedRow(r) ==
    [r EXCEPT !.client = Nil,
              !.meta = IF @.form = "object" THEN [@ EXCEPT !.key = Nil]
                       ELSE IF @.form = "text" /\ @.whole
                            THEN [@ EXCEPT !.form = "object", !.key = Nil]
                       ELSE IF @.form = "text" THEN [form |-> "none"]
                       ELSE @]

\* No metadata, null and empty text say nothing; other text has to be JSON.
ReadableRow(r) ==
    /\ r.shaped
    /\ r.id # Nil
    /\ r.time # Nil
    /\ r.meta.form \in {"object", "text"} => r.meta.whole

\* The deployment that served the row stands for its account.
LiteLlmAccount(r, provider) ==
    [key |-> IF r.deployment # Nil THEN r.deployment
             ELSE Or(r.base, <<"unattributed", provider>>),
     auth |-> "api_key",
     label |-> IF r.group # Nil THEN r.group ELSE r.model]

LiteLlmStatus(r) ==
    IF r.status \in {Nil, "success"} THEN 200
    ELSE IF r.meta.form = "none" THEN 500
    ELSE Or(r.meta.code, 500)

LiteLlmRow(r) ==
    IF ~ReadableRow(r)
    THEN Rejected(StrippedRow(r))
    ELSE LET provider == Or(r.provider, "unknown")
             said == r.meta.form # "none"
             failed == r.status \notin {Nil, "success"}
             prompt == Or(r.prompt, 0)
             completion == Or(r.completion, 0)
         IN  [read |-> TRUE, kind |-> "litellm", id |-> r.id, at |-> r.time,
              provider |-> provider, model |-> r.model,
              alias |-> IF r.group = r.model THEN Nil ELSE r.group,
              account |-> LiteLlmAccount(r, provider),
              caller |-> IF said /\ r.meta.alias # Nil THEN r.meta.alias
                         ELSE Mask(r.client),
              tokens |-> [input |-> prompt, output |-> completion, reasoning |-> 0,
                          cacheRead |-> IF said THEN Or(r.meta.cacheRead, 0) ELSE 0,
                          cacheWrite |-> IF said THEN Or(r.meta.cacheWrite, 0) ELSE 0,
                          unclassified |-> 0,
                          total |-> Or(r.total, prompt + completion), quality |-> Nil],
              failed |-> failed, status |-> LiteLlmStatus(r),
              error |-> IF failed /\ said THEN r.meta.error ELSE Nil,
              tier |-> Nil, spend |-> r.spend]

---------------------------------------------------------------------------
Parse(r) == IF r.kind = "cliproxy" THEN CliProxyRow(r) ELSE LiteLlmRow(r)

\* The account a row is stored under: one per provider for what names none.
AccountKey(row) == Or(row.account.key, <<"unattributed", row.provider>>)

\* record_hash: what makes a second delivery of a request a duplicate.
Identity(row) ==
    <<row.id, row.at, AccountKey(row), row.provider, row.model, row.tokens.input, row.tokens.output,
      row.tokens.reasoning, row.tokens.cacheRead, row.tokens.cacheWrite,
      row.tokens.unclassified, row.tokens.total, row.status, row.failed>>

---------------------------------------------------------------------------
(* What the readers are for, said of the record as it was sent. *)

\* The tokens a record states of each rate, by its provider's own counting, each
\* token in one class: Anthropic's input and Gemini's output leave tokens out that
\* the others' hold.
Classes(r) ==
    LET t == r.tokens
        b == r.breakdown
        of(input, read, write, output) ==
            [input |-> input, read |-> read, write |-> write, output |-> output]
        semantics == Semantics(r.provider, r.executor)
        cached == IF t.cacheRead > 0 THEN t.cacheRead ELSE t.cached
    IN  IF r.version >= 2
        THEN of(b.input - b.cacheRead - b.cacheWrite, b.cacheRead, b.cacheWrite, b.output)
        ELSE CASE semantics = "independent" -> of(t.input, t.cacheRead, t.cacheWrite, t.output)
               [] semantics = "separate" ->
                    of(t.input - cached - t.cacheWrite, cached, t.cacheWrite,
                       t.output + t.reasoning)
               [] semantics = "subset" ->
                    of(t.input - cached - t.cacheWrite, cached, t.cacheWrite, t.output)
               [] OTHER -> of(0, 0, 0, 0)

\* A spend row's prompt holds its cache.
RowClasses(r) ==
    LET held(n) == IF r.meta.form = "none" THEN 0 ELSE Or(n, 0)
        read == held(r.meta.cacheRead)
        written == held(r.meta.cacheWrite)
    IN  [input |-> Or(r.prompt, 0) - read - written, read |-> read, write |-> written,
         output |-> Or(r.completion, 0)]
=============================================================================
