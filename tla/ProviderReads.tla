--------------------------- MODULE ProviderReads ----------------------------
(***************************************************************************)
(* The hard refreshes of one credential: the calls its adapter makes, in    *)
(* flight together where the code joins them, answered in any order and in  *)
(* any way, and what quota/mod.rs stores of what they said.  The refreshes  *)
(* of a credential never overlap: each holds manual_reset_lock.             *)
(*                                                                         *)
(* Instants are seconds.  A provider that gives a reset as seconds from now *)
(* counts them from the moment it answers, and the answer is read up to     *)
(* MaxLate seconds later.  Every answer is read at Now: only the time left  *)
(* to a reset tells two refreshes apart.  The samples kept for calibration, *)
(* the recovery reservation and the journal's rows are left out.            *)
(***************************************************************************)
EXTENDS ProviderAnswers

CONSTANTS
    Credentials,         \* [provider, and what its adapter reads of its entry]
    Bodies(_, _, _, _),  \* the bodies a provider may answer a call with, for a limit
                         \* that resets at an instant, in an answer so late
    Statuses,            \* the other statuses it may answer with
    Now,                 \* when an answer is read
    Tolerance,           \* RESET_TOLERANCE, 5 s
    MaxLate,             \* the longest an answer is under way
    Ends,                \* the resets the provider goes through, in order
    MaxRefreshes         \* bound: refreshes begun

Providers == {"claude", "codex", "antigravity", "kimi", "devin", "meta", "xai"}
Reasons == {"unreachable", "expired", "upstream", "unreadable", "empty", "no_token",
            "no_object"}

Hosts == <<"host1", "host2", "host3">>

Billing == {"weekly", "monthly"}

AllCalls ==
    {"usage", "profile", "grants", "subscription", "file", "key", "me", "chat"}
    \cup Billing \cup {Hosts[i] : i \in DOMAIN Hosts}

ASSUME ProviderReadsAssumption ==
    /\ \A c \in Credentials : c.provider \in Providers
    /\ Nil \notin Reasons \X Int
    /\ Statuses \subseteq 300..599
    /\ Tolerance \in Nat /\ MaxLate \in Nat /\ MaxRefreshes \in Nat
    /\ Ends \in Seq(Nat) /\ Ends # <<>> /\ Now \in Nat
    /\ \A i \in DOMAIN Ends : Ends[i] > Now + MaxLate

\* What is looked for as a number: one, none, or something else.
Number == Int \cup {Nil, Bad}

IsList(s) == s \in Seq({s[i] : i \in DOMAIN s})

Every(list, Is(_)) == IsList(list) /\ \A i \in DOMAIN list : Is(list[i])

\* A window as an answer states it: its reset as an instant, or as the seconds to it
\* from when the answer was counted.
EndsAt(w, end) == w.resets \in {Nil, Bad, end}
EndsIn(w, end, late) == w.at \in {Nil, Bad, end} /\ w.after \in {Nil, Bad, end - (Now - late)}

\* A body of the shape its adapter reads, about a limit that resets at one instant.
ClaudeTells(b, end) ==
    LET ends(w) == EndsAt(w, end)
    IN  /\ \A k \in DOMAIN b.named : ends(b.named[k])
        /\ Every(b.limits, ends)

ClaudeLists(b) ==
    LET counted(g) == {g.total, g.left, g.ends} \subseteq Number
    IN  b.cedar = Nil \/ b.cedar.grants \in {Nil, Bad} \/ Every(b.cedar.grants, counted)

CodexTells(b, end, late) ==
    LET limited(l) ==
            l = Nil \/ \A i \in {1, 2} : l.windows[i] = Nil \/ EndsIn(l.windows[i], end, late)
        more(m) == limited(m.limit)
    IN  limited(b.main) /\ limited(b.review) /\ Every(b.more, more)

CodexListed(b) ==
    LET counted(c) == c.ends \in Number IN Every(b.credits, counted)

AntigravityTells(b, end) ==
    LET ends(w) == EndsAt(w, end)
        group(g) == Every(g, ends)
    IN  Every(b.groups, group) /\ (b.body = Nil \/ Every(b.body.groups, group))

KimiTells(b, end, late) ==
    LET ends(w) == EndsIn(w, end, late)
    IN  Every(b.limits, ends) /\ (b.summary = Nil \/ ends(b.summary))

DevinTells(b, end) == \A w \in {b.daily, b.weekly} : w.resets = 0 \/ EndsAt(w, end)

MetaTells(b, end) == b.object => \A w \in {b.rolling, b.weekly} : w = Nil \/ EndsAt(w, end)

XaiTells(b, end) ==
    b.config = Nil \/ (/\ {b.config.closes, b.config.end} \subseteq {Nil, Bad, end}
                       /\ IsList(b.config.products))

Tells(b, provider, call, end, late) ==
    CASE provider = "claude" /\ call = "usage" -> ClaudeTells(b, end)
      [] provider = "claude" /\ call = "grants" -> ClaudeLists(b)
      [] provider = "codex" /\ call = "usage" -> CodexTells(b, end, late)
      [] provider = "codex" /\ call = "grants" -> CodexListed(b)
      [] provider = "antigravity" /\ call \in {"host1", "host2", "host3"} -> AntigravityTells(b, end)
      [] provider = "kimi" /\ call = "usage" -> KimiTells(b, end, late)
      [] provider = "devin" /\ call = "usage" -> DevinTells(b, end)
      [] provider = "meta" /\ call = "key" -> MetaTells(b, end)
      [] provider = "xai" /\ call \in {"weekly", "monthly"} -> XaiTells(b, end)
      [] OTHER -> TRUE

\* An answer is about one reset, and is read before the tolerance has passed.
ASSUME AnswersAssumption ==
    /\ {Nil, Bad} \cap Int = {} /\ Nil # Bad
    /\ Nil \notin [left : Number, total : Number, ends : Number]
    /\ MaxLate <= Tolerance
    /\ \A c \in Credentials, call \in AllCalls, i \in DOMAIN Ends, late \in 0..MaxLate :
          \A b \in Bodies(c.provider, call, Ends[i], late) :
              Tells(b, c.provider, call, Ends[i], late)

VARIABLES
    credential,  \* the credential: one of Credentials, for good
    reset,       \* the place in Ends the provider is at
    answers,     \* Nil, or the answers so far of the refresh that runs
    stored,      \* quota_window, quota_credit and credential_state of the account
    refreshes    \* refreshes begun

refreshVars == <<credential, reset, answers, stored, refreshes>>

---------------------------------------------------------------------------
(* Answers: what the management API passes on, or that it failed. *)

Down == [status |-> 0, said |-> FALSE, body |-> Nil]

Replies(call) ==
    {Down}
    \cup [status : {200}, said : {FALSE},
          body : {Nil} \cup UNION {Bodies(credential.provider, call, Ends[reset], late) :
                                       late \in 0..MaxLate}]
    \cup IF call = "file" THEN {}
         ELSE [status : Statuses, said : {FALSE}, body : {Nil}]
              \cup [status : {401}, said : BOOLEAN, body : {Nil}]

Ok(value) == [ok |-> TRUE, value |-> value]
Err(why, status) == [ok |-> FALSE, why |-> <<why, status>>]

\* answer: why a reply is not the JSON an adapter reads, or that it is.
Answer(reply) ==
    IF reply.status = 0 THEN Err("unreachable", 0)
    ELSE IF reply.status = 401 /\ reply.said THEN Err("expired", 0)
    ELSE IF reply.status \notin 200..299 THEN Err("upstream", reply.status)
    ELSE IF reply.body = Nil THEN Err("unreadable", 0)
    ELSE Ok(reply.body)

Said(call) == Answer(answers[call])

Heard(calls) == calls \subseteq DOMAIN answers

---------------------------------------------------------------------------
(* The calls of a refresh: those it waits for, given the answers so far. *)

HostWindows(host) == IF Said(host).ok THEN AntigravityWindows(Unwrapped(Said(host).value)) ELSE <<>>

\* A host is asked when every one before it gave no window.
HostsAsked ==
    {Hosts[i] : i \in {i \in DOMAIN Hosts :
        \A j \in 1..(i - 1) : Heard({Hosts[j]}) /\ HostWindows(Hosts[j]) = <<>>}}

Billed(call) == IF Said(call).ok THEN BillingWindows(Said(call).value.config) ELSE <<>>

Token(file) == IF file.ok THEN file.value.object /\ file.value.token ELSE FALSE

Calls ==
    CASE credential.provider = "claude" ->
            {"usage", "profile"}
            \cup IF Heard({"usage", "profile"}) /\ Said("usage").ok THEN {"grants"} ELSE {}
      [] credential.provider = "codex" ->
            {"usage"} \cup IF Heard({"usage"}) /\ Said("usage").ok THEN {"grants"} ELSE {}
      [] credential.provider = "antigravity" -> {"subscription"} \cup HostsAsked
      [] credential.provider = "meta" ->
            {"file"} \cup IF Heard({"file"}) /\ Token(Said("file")) THEN {"key"} ELSE {}
      [] credential.provider = "xai" ->
            IF IsPaid(credential) THEN {"me", "chat"}
            ELSE Billing
                 \cup IF Heard(Billing) /\ \A c \in Billing : Billed(c) = <<>>
                      THEN {"me", "chat"} ELSE {}
      [] OTHER -> {"usage"}

\* What the entry has to carry.
CanRefresh(c) ==
    /\ ~c.disabled /\ c.index # Nil
    /\ c.provider = "antigravity" => c.project # Nil
    /\ c.provider = "meta" => ~c.runtimeOnly /\ c.name # Nil

---------------------------------------------------------------------------
(* What a refresh learned, when no call is awaited any more. *)

Observation(windows, plan, grants) ==
    Ok([windows |-> windows, plan |-> plan, grants |-> grants])

Optional(call, Of(_)) == IF Said(call).ok THEN Of(Said(call).value) ELSE Nil

ClaudeOutcome ==
    LET usage == Said("usage")
    IN  IF usage.ok
        THEN Observation(ClaudeWindows(usage.value), Optional("profile", ClaudePlan),
                         Optional("grants", LAMBDA body : ClaudeGrants(body.cedar)))
        ELSE usage

CodexOutcome ==
    LET usage == Said("usage")
    IN  IF usage.ok
        THEN Observation(CodexWindows(usage.value, Now), CodexPlan(usage.value, credential),
                         Optional("grants", CodexGrants))
        ELSE usage

Decisive == {<<"upstream", 403>>, <<"upstream", 404>>}

\* Mutant: a later host's failure is reported.
WorseFailure(failure, why) == why

\* 403 and 404 outrank a later host's failure.
Failure(failure, why) == IF failure \in Decisive THEN failure ELSE why

\* The failure kept after each host.
Failures[i \in 0..Len(Hosts)] ==
    IF i = 0 THEN Nil
    ELSE IF ~Heard({Hosts[i]}) \/ Said(Hosts[i]).ok THEN Failures[i - 1]
    ELSE Failure(Failures[i - 1], Said(Hosts[i]).why)

AntigravityOutcome ==
    LET asked == {i \in DOMAIN Hosts : Heard({Hosts[i]})}
        plan(payload) == AntigravityPlan(Unwrapped(payload))
    IN  IF \E i \in asked : Said(Hosts[i]).ok
        THEN Observation(HostWindows(Hosts[Max(asked)]),
                         Optional("subscription", plan), Nil)
        ELSE [ok |-> FALSE, why |-> Failures[Len(Hosts)]]

KimiOutcome ==
    LET usage == Said("usage")
    IN  IF usage.ok THEN Observation(KimiWindows(usage.value, Now), Nil, Nil) ELSE usage

DevinOutcome ==
    LET status == Said("usage")
    IN  IF ~status.ok THEN status
        ELSE IF DevinWindows(status.value) = <<>> THEN Err("empty", 0)
        ELSE Observation(DevinWindows(status.value), Read(status.value.plan), Nil)

MetaOutcome ==
    LET file == Said("file")
        key == Said("key")
    IN  IF ~file.ok /\ file.why[1] # "unreadable" THEN file
        ELSE IF ~file.ok \/ ~file.value.object THEN Err("no_object", 0)
        ELSE IF ~file.value.token THEN Err("no_token", 0)
        ELSE IF ~key.ok THEN key
        ELSE IF ~key.value.object THEN Err("unreadable", 0)
        ELSE Observation(MetaWindows(key.value),
                         Or(Read(key.value.plan), Read(key.value.tier)), Nil)

\* paid: any answer to the ping counts, and only its status.
PaidOutcome ==
    LET chat == answers["chat"]
    IN  IF chat.status = 0 THEN Err("unreachable", 0)
        ELSE IF chat.status \notin 200..299 THEN Err("upstream", chat.status)
        ELSE Observation(<<>>, "paid", Nil)

XaiOutcome ==
    LET windows == Billed("weekly") \o Billed("monthly")
        silent == IF \E c \in Billing : Said(c).ok THEN Err("empty", 0) ELSE Said("weekly")
    IN  IF IsPaid(credential) THEN PaidOutcome
        ELSE IF windows # <<>> THEN Observation(windows, Nil, Nil)
        ELSE IF PaidOutcome.ok THEN PaidOutcome
        ELSE silent

Outcome ==
    CASE credential.provider = "claude" -> ClaudeOutcome
      [] credential.provider = "codex" -> CodexOutcome
      [] credential.provider = "antigravity" -> AntigravityOutcome
      [] credential.provider = "kimi" -> KimiOutcome
      [] credential.provider = "devin" -> DevinOutcome
      [] credential.provider = "meta" -> MetaOutcome
      [] credential.provider = "xai" -> XaiOutcome

---------------------------------------------------------------------------
(* QuotaWindow::replace. *)

Apart(a, b) == IF a < b THEN b - a ELSE a - b

\* Mutant: the reported reset is stored as it is.
ReportedReset(kept, reported) == reported

\* A stored reset this close to the reported one is kept.
SteadyReset(kept, reported) ==
    IF Nil \in {kept, reported} THEN reported
    ELSE IF Apart(kept, reported) <= Tolerance THEN kept ELSE reported

\* The first report of each key.
Replaced(old, windows) ==
    LET keys == {windows[i].key : i \in DOMAIN windows}
        report(key) ==
            LET at == {i \in DOMAIN windows : windows[i].key = key}
            IN  windows[CHOOSE i \in at : \A j \in at : i <= j]
        kept(key) == IF key \in DOMAIN old THEN old[key].resets ELSE Nil
    IN  [key \in keys |->
            [report(key) EXCEPT !.used = Percent(@),
                                !.resets = SteadyReset(kept(key), @)]]

---------------------------------------------------------------------------
Begin ==
    /\ answers = Nil /\ refreshes < MaxRefreshes
    /\ CanRefresh(credential)
    /\ answers' = <<>>
    /\ refreshes' = refreshes + 1
    /\ UNCHANGED <<credential, reset, stored>>

Hear(call) ==
    /\ answers # Nil
    /\ call \in Calls \ DOMAIN answers
    /\ \E reply \in Replies(call) :
          answers' = [c \in DOMAIN answers \cup {call} |->
                         IF c = call THEN reply ELSE answers[c]]
    /\ UNCHANGED <<credential, reset, stored, refreshes>>

\* A success replaces the windows, and the grants where they were read; a failure
\* keeps both.
RecordOutcome ==
    /\ answers # Nil
    /\ Calls \subseteq DOMAIN answers
    /\ stored' =
          IF Outcome.ok
          THEN [windows |-> Replaced(stored.windows, Outcome.value.windows),
                grants |-> Or(Outcome.value.grants, stored.grants),
                plan |-> Or(Outcome.value.plan, stored.plan),
                failure |-> Nil, expired |-> FALSE]
          ELSE [stored EXCEPT !.failure = Outcome.why,
                              !.expired = @ \/ Outcome.why = <<"expired", 0>>]
    /\ answers' = Nil
    /\ UNCHANGED <<credential, reset, refreshes>>

\* The process stops: nothing of the refresh is stored.
Stop ==
    /\ answers # Nil
    /\ answers' = Nil
    /\ UNCHANGED <<credential, reset, stored, refreshes>>

\* The provider's limit resets.
Reset ==
    /\ reset < Len(Ends)
    /\ reset' = reset + 1
    /\ UNCHANGED <<credential, answers, stored, refreshes>>

RefreshInit ==
    /\ credential \in Credentials
    /\ reset = 1
    /\ answers = Nil
    /\ stored = [windows |-> <<>>, grants |-> <<>>, plan |-> Nil, failure |-> Nil,
                 expired |-> FALSE]
    /\ refreshes = 0

RefreshNext ==
    \/ Begin
    \/ \E call \in AllCalls : Hear(call)
    \/ RecordOutcome
    \/ Stop
    \/ Reset

RefreshSpec == RefreshInit /\ [][RefreshNext]_refreshVars

---------------------------------------------------------------------------
(* Properties *)

Stores == answers # Nil /\ answers' = Nil /\ stored' # stored

\* The calls that report the quota; the others only add to it.
Reporting ==
    CASE credential.provider \in {"claude", "codex", "kimi", "devin"} -> {"usage"}
      [] credential.provider = "antigravity" -> {Hosts[i] : i \in DOMAIN Hosts}
      [] credential.provider = "meta" -> {"key"}
      [] credential.provider = "xai" -> Billing

Reported == {c \in Reporting \cap DOMAIN answers : Answer(answers[c]).ok}

Statused(c) == IF Answer(answers[c]).ok THEN 0 ELSE Answer(answers[c]).why[2]

\* A refresh ends as the calls that report its quota say, in whatever order its
\* calls are answered.  For Claude, Codex, Kimi and Antigravity it fails exactly when
\* none of them could be read: no failure of a profile, a plan or a list of grants
\* fails it.  For every provider, windows change only with a report that was read, or
\* with xAI's ping; a sign-in is called expired only when a reporting call said so in
\* a 401; and a 403 or 404 of one of Antigravity's hosts is not hidden by another
\* host's failure (the fetch of each adapter, answer and QuotaAccount::refreshed).
AnswersDecide ==
    [][Stores =>
        /\ credential.provider \in {"claude", "codex", "kimi", "antigravity"} =>
              (stored'.failure = Nil) = (Reported # {})
        /\ stored'.windows # stored.windows =>
              Reported # {} \/ ("chat" \in DOMAIN answers /\ PaidOutcome.ok)
        /\ stored'.expired /\ ~stored.expired =>
              \E c \in Reporting \cap DOMAIN answers :
                  answers[c].status = 401 /\ answers[c].said
        /\ credential.provider = "antigravity" /\ stored'.failure # Nil
           /\ (\E c \in Reporting : Statused(c) \in {403, 404}) =>
              stored'.failure \in Decisive]_refreshVars

Offered(grants) == {<<grants[j].left, grants[j].ends>> : j \in DOMAIN grants}

\* The grants of a credential change only to what one answered list offers, nothing
\* lost and nothing kept.  Claude's list counts only when every entry of it could be
\* read, and offers the entries with a reset left (reset_grants of claude.rs).  Codex's
\* offers the available credits of its kind whose expiry could be read: the others
\* are passed over, and a stored one they stood for goes (grants of codex.rs).
GrantsStand ==
    [][stored'.grants # stored.grants =>
        /\ "grants" \in DOMAIN answers
        /\ Said("grants").ok
        /\ LET list == Said("grants").value
           IN  IF credential.provider = "claude"
               THEN LET listed == Or(list.cedar.grants, <<>>)
                    IN  /\ \A i \in DOMAIN listed : Bad \notin {listed[i].left, listed[i].ends}
                        /\ Offered(stored'.grants) =
                              {<<listed[i].left, listed[i].ends>> :
                                  i \in {i \in DOMAIN listed : listed[i].left > 0}}
               ELSE LET credits == list.credits
                        offers(c) == c.resets /\ c.available /\ c.ends \notin {Nil, Bad}
                    IN  /\ list.known
                        /\ Offered(stored'.grants) =
                              {<<1, credits[i].ends>> :
                                  i \in {i \in DOMAIN credits : offers(credits[i])}}]_refreshVars

\* The reset of the provider's that a stored one stands for.
Stands(resets) ==
    {i \in DOMAIN Ends : resets >= Ends[i] /\ resets <= Ends[i] + MaxLate}

\* A stored reset becomes another one only when the provider's did, however late its
\* answers are (one that an answer leaves out is forgotten), and is never further from
\* the provider's than an answer is late: two answers about one reset are one report
\* (RESET_TOLERANCE of window.rs, after which a change would be told to every client).
WindowsSteady ==
    [][\A key \in DOMAIN stored'.windows :
        LET new == stored'.windows[key].resets IN
        new # Nil =>
            /\ Stands(new) # {}
            /\ key \in DOMAIN stored.windows =>
                  LET old == stored.windows[key].resets IN
                  old # Nil /\ old # new => Stands(old) \cap Stands(new) = {}]_refreshVars

---------------------------------------------------------------------------
(* The inductive invariant. *)

\* A download answers or is not there; any call may refuse besides.
Codes(call) == {0, 200} \cup IF call = "file" THEN {} ELSE Statuses \cup {401}

AnswersInv ==
    answers # Nil =>
        /\ answers = [c \in DOMAIN answers |-> answers[c]]
        /\ \A c \in DOMAIN answers :
              /\ answers[c].status \in Codes(c)
              /\ \/ answers[c].body = Nil
                 \/ \E i \in DOMAIN Ends, late \in 0..MaxLate :
                       Tells(answers[c].body, credential.provider, c, Ends[i], late)

\* A stored window stands for one of the provider's resets, where it states one.
Resets == {Nil} \cup {r \in Int : Stands(r) # {}}

StoredInv ==
    /\ stored = [windows |-> stored.windows, grants |-> stored.grants, plan |-> stored.plan,
                 failure |-> stored.failure, expired |-> stored.expired]
    /\ stored.expired \in BOOLEAN
    /\ \A key \in DOMAIN stored.windows : stored.windows[key].resets \in Resets

ReadsInv ==
    credential \in Credentials /\ reset \in DOMAIN Ends /\ AnswersInv /\ StoredInv
=============================================================================
