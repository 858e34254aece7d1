# TLA+ models of metered-usage

metered-usage collects the usage records of LLM gateways (CLIProxy, LiteLLM), prices
them, and keeps the quota state of every credential the gateways route to. It is one
Rust process on one SQLite database (`src/src`), with a web UI. This directory holds
TLA+ models of the parts that keep state, TLC configurations that check them on small
instances, and TLAPS proofs for every instance.

## The system

Paths are under `src/src/`.

| Part | State | Operations and interactions | What is hard | What makes it correct | Module |
|---|---|---|---|---|---|
| **Quota action journal** `http/quota_action.rs`, `http/quota_action_store.rs` | tables `quota_action`, `quota_action_key`, `quota_action_request` | a POST that syncs, refreshes or resets claims a row or joins one, runs under its family's lock, stores its result; joined callers replay it | claims racing, a worker outliving its caller, results not stored, restarts, reuse within 60 s | one open action per scope, one call per scope, answers stand, keys run once | `QuotaAction` |
| **Action owners** `http/quota_action_owner.rs` | boot id, map of weak leases | `claim`, `abandoned`, `forget` | memory and table are two stores | an open row has its worker or is known to be abandoned | `QuotaAction` |
| **Reuse window** `quota/reuse.rs` | none (reads the journal) | `Reuse::recent` inside a run | a second copy of the claim's tests | what is reused is what was asked | `QuotaAction` |
| **Manual reset** `quota/manual_reset.rs` | table `manual_reset`, `manual_reset_lock` | `spend`: list, count, clear, consume, clear cooldown, fetch, record | consuming requests of unknown outcome, restarts between steps | no reset is sent on a list read before the last one | `ManualReset` |
| **Soft sync, hard refresh** `quota/mod.rs`, `quota/credential.rs` | `credential_state` | the loop, a new credential at ingest and a refresh each read the gateway's list and store it | listings stored out of order | the newest listing decides | `QuotaState` |
| **Recovery** `quota/recovery.rs`, `quota/sign_in.rs` | table `quota_recovery` | `claim_due`, `recover_expired` | backoff over interruption and restart | an expired sign-in that is valid again recovers | `QuotaState` |
| **Response evidence** `quota/response.rs` | a marker and its window | `observe_usage` at ingest | late and reordered records | the newest record decides | `QuotaState` |
| **Provider adapters** `quota/provider/` | none | `fetch`: several calls per credential, some joined | partial and torn answers | outcomes are classified safely | `ProviderAnswers`, `ProviderReads` |
| **Quota windows** `quota/window.rs` | `quota_window`, `quota_credit` | replace with steady resets | jitter of relative resets | one window is one window | `ProviderReads` |
| **Change feed** `change/`, `http/api/change.rs` | tables `change`, `change_horizon`, a watch channel | record in a transaction, page, long poll, prune | a wake lost between read and wait, pruning under a cursor | no change is skipped or slept over | `ChangeFeed` |
| **Collectors** `collector/` | unsaved payloads, a push channel, backoff, `collector_progress` | subscribe, drain, keep, store; LiteLLM polls | destructive pops, reconnects, moving windows | nothing kept is lost, nothing counted twice | `Collectors` |
| **Ingest, dead letters** `usage/ingest.rs`, `usage/dead_letter.rs` | `usage_event`, `dead_letter`, a broadcast channel | batch insert, deduplicate, publish after the commit | a batch published late | each record once, each event published | `Collectors`, `UsageStream` |
| **Record formats** `usage/cliproxy.rs`, `usage/litellm.rs` | none | parse, token counts, identity | overlapping token classes | each token is counted once | `UsageRecords` |
| **Ids** `id.rs` | one atomic word | `next` | clock steps back, sequence full | ids rise | `UsageStream` |
| **Usage stream** `http/api/usage.rs` | a broadcast receiver | replay, then live | replay against live, lag, batches published late | no event repeated; what a stream goes past is known | `UsageStream` |
| **Accounts, continuation** `account/` | `account`, links, dismissals | resolve, register, merge, continue, dismiss | merges of merges, computed replacements | one step to the final account | `Accounts` |
| **Plans, leverage** `plan/` | `plan` | create, update, delete; events counted for a plan | replaced and merged accounts | an event counts for one account's plans | `Accounts` |
| **Change snapshots** `change/snapshot.rs` | none | compare what is computed before and after a write | a write moves what it does not name | a reader is told | `Accounts` |
| **Pricing** `price/` | `price`, the costs of `usage_event` | map sync, manual prices, fill, reprice | two syncs, fills between them, clock steps | each event at the price in force | `Pricing` |
| **Cooldown reset, gateway client** `quota/cooldown.rs`, `quota/management.rs` | the gateway's | `reset` of one account; the credential list | reuse, partial lists | | in part |
| Sources, config, auth, analytics, HTTP reads, MCP, RESP reader, web UI | start-up or none | stateless | | | none |

`AppState` (`app.rs`) ties the quota parts together: `quota_action_locks` (three
families: soft sync, cooldown, refresh and reset), then `manual_reset_lock` inside a
refresh or a reset. SQLite's single writer (`BEGIN IMMEDIATE`) orders the transactions,
so a transaction is one step of a model; every await outside one is a place where others
run, and so separates two steps. Every commit that recorded changes wakes the long polls.

## Modules

| Module | Models | Checked by |
|---|---|---|
| `QuotaAction` | journal, owners, reuse, and the four operations that run under it as far as the journal reads them | `MCQuotaAction`, three runs |
| `ManualReset` | `spend()`, human and automatic refreshes of one account, a provider that applies consuming requests late or never | `reset_spends` |
| `ResetLicense` | abstract: a reset is sent only on a list read since the last was sent | refined by `ManualReset` |
| `ChangeFeed` | writers, wakes, prunes, and the HTTP clients that follow | `MCChangeFeed`, `change_feed` |
| `ChangeLog` | abstract: an endless log each follower walks in order, or starts over | refined by `ChangeFeed` |
| `Collectors` | a source's collector from the gateway's queue or rows to the database | `MCCollectors`, `collectors` |
| `UsageStream` | the id generator, the batches that use it, publication and the SSE stream | `usage_stream`, `usage_stream_lag` |
| `QuotaState` | listings, removal, sign-ins, recovery and the marker of one source's credentials | `MCQuotaState`, `quota_state` |
| `Accounts` | accounts, links, plans, leverage and a reader of the change feed | `MCAccounts`, `accounts` |
| `UsageRecords` | both record formats: what is read, kept and rejected | extended by `Pricing` |
| `Pricing` | catalog, prices in force, fill and reprice | `MCPricing`, `pricing` |
| `ProviderAnswers` | what each adapter reads in an answer | extended by `ProviderReads` |
| `ProviderReads` | the refreshes of a credential, answers in any order, and what is stored | `MCReadings`, `readings` |
| `*Proofs` | the theorems of the module they are named after; `RefreshProofs`: of `ManualReset` and `ProviderReads` | TLAPS |

**QuotaAction.** `rows`, `last` and `keys` are the tables, `leases` the map of
`ActionOwners` (an entry names the worker that held the lease; a worker that no longer
lives is a `Weak` that no longer upgrades), `family` and `manual` the locks. A worker is
the task that `SharedAction::call` spawns. `ClaimReused`, `ClaimFresh` and
`ClaimConflict` are the transaction of `claim`; `ClaimFails` is a commit that fails after
the lease was entered, and `undone` remembers the ids it leased (no guard reads it);
`Enter` takes the family's lock; `SoftRefresh`, `StartRefresh`/`Fetch`/`EndRefresh`,
`StartReset`/`QuotaReset`/`CooldownReset` and `Fails` are the endpoint; `Complete` stores
the result and `CompletionLost` does not; `Replay` and `GiveUp` end a joined caller;
`Restart` is a new process with a new boot id and empty memory. A response is its class,
a snapshot the set of accounts the reuse queries would find in it.

**ManualReset.** One account whose provider spends resets (Codex). `grants` is what
`unexpired_count` sums, `upstream` what the provider would list. `Send` puts the
consuming request in `flight`; `Apply` and `Lose` are the provider's, at any later time,
also after the sender's timeout or restart. `licensed` and `sent` are history variables
that map onto `ResetLicense`; no guard reads them.

**ChangeFeed.** `change` and `prunedThrough` are the tables; `wakes` the commits whose
`send_replace` has not run; `Wait` subscribes before it reads, as `poll` does. A reader
is a client that lists what it wants, polls from its cursor, reads what it is told to and
starts over on 410. The clock that stamps rows may step back. `history`, every change
ever committed, is the log of `ChangeLog`; a subject is a kind and what it names.

**Collectors.** `kind` chooses the source. CLIProxy: records go to a subscriber's
channel or wait in the queue; `Take` and `Pop` keep payloads in `unsaved` before `Store`
commits them; sessions end with `unsaved` kept. A queue hands its records out in the
order of their numbers and holds each once, so what waits is a set and its head the
least of it. LiteLLM: rows `Land` late, a poll reads pages from the newest stored event
less the overlap. `Post` is the ingest endpoint, to which anyone may post any record
again that is not stored, an unreadable one each time for another dead letter. The dead
letters of one record are numbered `copy` 0, 1 and so on, as nothing else tells them
apart, and know whether the collector or a post wrote them. `Prune` deletes old ones;
`pruned` remembers them, as it does not touch the collector's count. `lost` and
`dropped` remember what a reply, the channel or the process took with it. The model
assumes rows land within the overlap (`Lateness <= Overlap`, 15 minutes in the code):
nothing in the code can see a row that lands later.

**UsageStream.** An id is a millisecond and a sequence number; `Load`, `Exchange` and
`LoadAgain` are the compare-and-swap loop of `next`, for threads of ingest and of other
tables. A batch is `BeginBatch` (the writer's lock), its ids, `CommitBatch`, then, after
the gateway call for a new credential, `ReadBack`, which may fail, and one `Publish` for
each event, or `GiveUp` when everyone has left. A client subscribes, replays what follows
its `Last-Event-ID`, drops what the live half repeats, and is disconnected when it lags.
`skipped` remembers what a client's stream went past: events a full replay page had no
room for (`CutOff`), of a batch that was not read back (`Lost`), or overtaken by a later
batch (`Passed`). `behind` says that an id was given out that is not above those
committed: a process that starts with a clock behind the database's ids does that, and
the code says nothing of it, so what a client may miss is stated without it.

**QuotaState.** `listing` holds the lists read and not yet stored, one per task; `Stored`
is `store` with `Observe` and `MarkUnlisted` and their stamp tests. A list may be whole
or partial. Recovery is `ClaimDue` (reserve, then try) with the doubling `Delay`, and
`EndRecovery`. `Ingest` applies `Newer` to a usage record of a Meta credential.

**Accounts.** `db` is the rows of all tables and is written by one transaction at a time;
`Replacement(d, a)` is computed from the rows as `continuation.rs` does. Merged accounts
hand over events and plans. `Commit` records the changes the code records, `seen` is a
reader that reads again only what was recorded.

**Pricing** with **UsageRecords.** `Expand` is a map as rows. A sync fetches a map,
reads the clock (`Stamp`) and waits for the writer; `Record` then appends new and
changed rows in some order of the map's, dated by that stamp, so two syncs may write
against their dates, and `StepBack` sets the clock back. `Choice` is the ranking of the
fill's SQL over all rows in force. `record` remembers what was recorded of each map,
with its stamp. The tier `batch`, which the code reads like the other two, is left out.
Rates and tokens are integers. `UsageRecords` turns a record into the token counts that
are kept, per format, provider semantics and version.

**ProviderReads** with **ProviderAnswers.** `Begin` starts a refresh, `Hear` is one call
answered with any body or status, `RecordOutcome` stores the outcome with the steady
resets of `window.rs`, `Reset` is the provider's window rolling over. A field is
present, absent or unreadable (`Bad`). The model assumes that a credential's limits
reset together, so that an answer is about one reset, and that an answer is read at most
`MaxLate` seconds after it was counted, within the tolerance of `window.rs`. `Tells`
states that of each provider's bodies, with the lists and numbers an adapter looks for
in them.

## Runs

| Run | Shows | Bounds | Distinct states |
|---|---|---|---|
| `journal_faults` | types; one open action per scope; live workers own their rows; only a row with the id of a failed claim is stranded; keys run once; answers stand | 3 requests, 1 key, 2 scopes that share a lock and reconcile each other, 2 processes, 3 rows, claims and completions that fail | 410,237 |
| `journal_progress` | recent work is shared; every started action finishes, over all kinds and locks | 2 requests, 2 instants, a window of no tick, invalid refreshes, claims that fail to commit | 72,364 |
| `reset_spends` | the refinement of `ResetLicense`; cleared grants stay cleared until read; every waiting worker ends | 3 workers, 1 grant, 2 processes | 156,296 |
| `change_feed` | the refinement of `ChangeLog`; nothing is missed; no poll sleeps over a change; followers catch up | 1 reader, pages of 1, 2 changes in batches of up to 2, retention 0, one clock step and one fault | 120,307 |
| `collectors` | the collector files no queue record twice, and its count never runs ahead of what it filed; what was kept is filed; every record is filed in the end | 4 records (one notice, one unreadable), channel of 2, pops and batches of 2, pages of 1, 2 faults, posts by hand and prunes | 270,782 |
| `usage_stream` | ids rise; no event twice on a connection; a client misses only what its stream went past; every event streams | 2 ingest tasks and one other minter, 2 ids per millisecond, batches of up to 2, 3 events, a channel of 1, a replay of 1, 2 faults | 616,647 |
| `quota_state` | the newest list and the newest record decide; the database settles on the gateway; expired sign-ins recover | 1 credential, the loop and a refresh, 3 instants, 2 changes at the gateway, 1 fault | 378,613 |
| `accounts` | links are one step long; an event counts once; a reader is never stale; a merge keeps leverage | 3 credentials under one label, 2 plans, 1 event, 1 dismissal | 51,044 |
| `pricing` | the row chosen costs what the last recording by then says; a stored cost stays that of one row in force; each token is charged once; every map takes effect | a map of 2 models and 2 versions, 2 syncers, a manual price dated back, 5 requests of which 1 of 2 becomes an event, 17 records more, 2 instants, 1 fault (a fetch or a sync that fails, a clock set back) | 70,680 |
| `readings` | answers decide as they should; grants change only to what one list offers; windows are steady | 7 providers in 9 credentials, 2 refreshes, bodies of every case the adapters tell apart | 254,305 |
| `journal_reconcile` | a counterexample, see below | 3 requests | stops at it |
| `usage_stream_lag` | a counterexample, see below | 1 ingest task, no fault, 4 events, a channel and a replay of 1 | stops at it |

Why the bounds are enough: three requests make a pair that should share and a third
worker that disturbs them; two processes a row and a key that outlive theirs; a window of
no tick among two instants has an inside and an outside. What `RecentWorkIsShared`
exempts takes a third request (a reset between two refreshes), which `journal_progress`
has no room for; its proof covers any number. One page of one
change against a batch of two stops a reader inside a batch, and a retention of nothing
prunes at once. One event per connection in a channel of one lags at the second. Two ids
per millisecond run the sequence out, and two ingest tasks let a later batch be published
first. Three credentials let one merge meet another's
target. A second map version that drops a threshold and changes a tier, next to a
threshold inside the token range, gives every ranking rule of the fill a rival, and lets a
dropped price be chosen; two instants and two syncers let a recording come after one of a
later date. `pricing` fetches one map: a second multiplies the states and meets the first
only in the ranking, where a price added by hand meets it too; the proofs are for all
lists of maps. What an OAuth account is charged is left to the proof.
Two refreshes give an old window to compare with.

Requests, credentials of one label and plans are interchangeable, so the journal's safety
runs and `accounts` use symmetry; no run with a liveness property does. The instances
are bounded, so their behaviours may end: deadlock checking is off, and the liveness
properties check what a deadlock would break.

Two runs end in a counterexample, where the code disagrees with what is said of it.

- `journal_reconcile`: `src/README.md:7` says "Concurrent or recent requests for the same
  scope and action share one call". A refresh that read the grant list closes the row of a
  reset that is still queued behind it (`quota/mod.rs:369`); the next reset finds no open
  row and starts a second action. `journal_faults` checks the property with this one case
  taken out.
- `usage_stream_lag`: `app.rs:8` says that a slow subscriber is "cut off and left to catch
  up from the database on reconnect". The reconnecting client is replayed one page of 500
  events and then goes live (`http/api/usage.rs:117`), while a receiver is cut off only
  1024 events late: what lies between is never sent, and the next live id makes
  `Last-Event-ID` pass it. `usage_stream` checks that nothing is missed but what `skipped`
  names.

## Fairness

- `QuotaAction`, `ManualReset`: tokio runs every ready task and its `Mutex` is fair
  (FIFO), so a lock that is released again and again reaches each waiter: strong
  fairness of the steps that take a lock, weak of the others (calls have timeouts).
  `journal_progress` assumes that the completion is stored: a row whose completion is
  lost is closed only by the next claim, which nothing obliges to come.
- `ChangeFeed`: requests are served and time out, clients poll again. Strong fairness of
  the steps a broken connection can disable: it does not break for ever at one point.
- `Collectors`: the collector's task runs on and time passes. Nothing is asked of the
  gateway; faults are bounded.
- `UsageStream`: a task that committed a batch goes on to read it back and to publish it
  or give up (weak fairness of each), unless the process ends; clients read on and
  reconnect.
- `QuotaState`: the loop and the refresh go on and time passes. Claiming a due sign-in
  is strongly fair, as listings may disable it in between. Nobody has to ask.
- `Pricing`: the periodic sync and the clock go on; it is set back a bounded number of
  times. The minute's fill is not assumed.

## Proofs

Eight modules. The assumptions are the modules' own, named in each, as TLC evaluates them:
sets of special values are apart, bounds are natural numbers, scopes are well formed,
likeness of labels is an equivalence, records are numbered in the order of their start
times, a record that can be read counts in integers, an absent value is no price, a map
names finitely many models, its prices are numbers, the ranges of an entry start apart
and the clock has an instant to begin at.
The bodies of answers are as `Tells` says. Nothing is assumed of the number of requests,
accounts, readers, threads, records, prices, credentials, bodies, restarts or failures,
and no theorem has a hypothesis of its own.

- `QuotaActionProofs`: `JournalInv` is inductive; from it the types and the safety
  properties of the journal follow. They are not inductive alone. Added: `StartsOnce` (a
  worker claims once, an action has one worker); `LeasesAreOwned` (a lease entry under a
  live worker's action is that worker's, even when ids are reused after failed commits);
  `OpenRowsAreBlank`; `KeysFollowActions`; `ScopesAreValid`. `OnlyReusedIdsStrand` needs
  a second invariant, `LeaseInv`: a lease entry is of a row or of an id that a failed
  claim leased, and every other open row of this process has its own worker's entry.
  `RecentWorkIsShared` needs a third, `AnswersAreShared`: only a reset's row, a
  refusal's or an interrupted one's is kept from being shared. A claim that starts an
  action then found no such row of its scope in the window, or found a reset newer than
  it.
- `RefreshProofs`, of `ManualReset`: `SpendInv` says that the lock's holder is alone
  between listing and record, that a worker about to send holds the licence and has
  cleared the grants, and that unlicensed grants are empty. With it every step is a step
  of `ResetLicense` or leaves it alone.
- `RefreshProofs`, of `ProviderReads`: all three action properties, for any credentials,
  bodies, statuses and sequence of resets. `ReadsInv` says that an answer heard has a
  status its call may have and tells of one reset, and that each stored reset stands for
  one of the provider's. The rest is what the adapters compute. `PresentKeeps` and
  `FlattenKeeps` say what is left of a list without its absent entries, and of a list of
  lists; one lemma per provider (`ClaudeSteady` to `BillsSteady`) that the windows read
  from a body carry no reset but those it states. `OutcomeSteady` puts them together:
  whichever calls were answered, an observation's resets stand for the provider's. Two
  that stand for the same one are no further apart than an answer is late, so
  `SteadyResetStands` gives `WindowsSteady`. `Decided` relates the outcome of each adapter
  to the answers that report its quota, for `AnswersDecide`; of Antigravity's three hosts
  it needs the failure kept after each (`FailuresUnfold`). `GrantsStand` follows as only
  Claude and Codex give grants: one entry of Claude's that cannot be read gives none
  (`ClaudeGrantsListed`), and of Codex's those that can be read are what is stored
  (`CodexGrantsListed`).
- `ChangeFeedProofs`: `FeedInv` adds that the rows kept are the changes committed above
  the horizon, in order, that a page covers exactly what its cursor passes, and that a
  poll that found nothing still has nothing to read unless a wake is due. From it
  `NothingMissed`, `NoSleepOver` and the refinement of `ChangeLog`, for any page size,
  retention and clock.
- `AccountsProofs`: `AccountsInv` is the types with `OneStep` and `ReaderKnows`.
  `EventCountsOnce` follows from `OneStep` and from what a replacement is: of two removed
  credentials under a label neither is replaced, and a replacement has no plan.
  `MergeKeepsLeverage` follows since the merge moves events and plans in one transaction.
- `QuotaStateProofs`: `QuotaStateInv` adds to the rows' types that no credential is
  stamped later than the newest list and those it named are stamped by it (`StampsOK`),
  and that the marker is of a record that arrived (`MarkerOK`).
- `UsageStreamProofs`: `WritersInv` adds to the types that the generator's state is
  never behind an id given out (`StateCovers`), so a successful exchange gives an id
  above all others, and that a batch rises, is written under the lock and, while it
  waits to be published, is stored and waits once (`BatchesOK`). `ConnectionsInv` says
  what a connection holds: no event is in its receiver twice, or still to be published
  once it is there; what the replay holds is covered by `through`, and so is what it has
  delivered and will meet again, which is then dropped. That gives `OncePerConnection`.
  `StreamsInv` says, until a clock falls behind, where every older event a client has
  not got still is: in its replay, its receiver, a batch that waits, the next replay, or
  `skipped`. That gives `OnlySkippedMissed`.
- `CollectorsProofs`: `CollectorsInv` says that a queue record is in one place
  (`OnePlace`), that nothing is pushed while the collector is not attached (`OffLine`),
  and that the letters of a record are finitely many and numbered below their count
  (`LettersInv`), pruned ones among them, so a new one is new and `brought` counts what the
  collector's commit adds; a post adds letters that are not counted. From it
  `FiledOnce`, `KeptUntilFiled` and, as a theorem only, `NothingVanishes`: an unfiled
  record of the queue waits, or went with a reply, a channel or the process.
- `PricingProofs`: `PricingInv` says that rows are typed, that a map fetched is of the
  origin next in its sync, and that costs hold. Two facts carry it: rows are only ever
  added (`RowsStay`), so a row that was in force when an event happened still is; and
  the ranking always has a first row, above all others in force (`ChoiceIsFirst`), since
  each of its seven keys is bounded over those rows and together they tell any two apart.
  `EachTokenChargedOnce` is a case analysis over both formats, every semantics and
  version.

  `ChargedAsTheMap` is about the history of a table, and rests on `HistoryInv`: each
  price ever recorded has a row from the beginning on, each row from later on has the
  date of a recording of its key, and at every instant the row of a key in force costs
  what the last recording by then, or else the first of all, says (`Told`); a recording
  that came after one with a later date does not count (`Late`), as its row may hide
  behind that one. It is proved alone (`HistoryInvCorrect`): it quantifies over every
  instant, so no run evaluates it. `RecordingFollows` is the step: what a recording
  adds, the rest leaving the rows as they were. Two lemmas about the ranking finish it.
  A candidate with a tier where the chosen row has none, or of its tier with a higher
  threshold, would rank first (`ChosenBefore`), and each recorded price that applies is
  a candidate, as it has a row from the beginning; and the row chosen is in force among
  those of its key (`ChosenInForce`). Nothing is asked of the maps: versions may add,
  change and drop prices, stamps may be out of order, and the clock may step back.

Only model-checked: the liveness properties (`ActionsFinish`, `AskedEnds`, `CatchesUp`,
`EveryRecordFiled`, `EveryEventStreamed`, `ListingSettles`, `ExpiredRecovers`,
`MapsTakeEffect`), as the prover does not reason about fairness; and the rest of
`QuotaState`'s types (its backoff is a power of two).

## Where the code and its words part, or a reader may be surprised

Seen while modelling, apart from the two runs above. The models follow the code.

- `http/quota_action_store.rs:177`: a claim whose commit fails leaves its lease behind.
  SQLite gives the next claim the same id, and that claim, which listed the id among the
  abandoned ones before its commit, forgets its own lease after it (`:179`). If its
  completion is not stored either, the row has no worker and no lease: it stays open for
  the life of the process and every request of its scope joins it, against
  `src/README.md:12` ("An abandoned worker's action closes so the next request can run").
  `OnlyReusedIdsStrand` says that no other row is left so.
- `quota/reuse.rs:42` accepts 4xx rows; `http/api/quota.rs:322` says that invalid
  requests never fill the reuse window. A refused reset's row has no account and counts
  as a newer reset of all (`quota_action_store.rs:153`). Without an after snapshot one
  account's cooldown reset answers for another's (`reuse.rs:41`).
- Automatic recovery reads the quota from the provider (`quota/mod.rs:232`, against
  `src/README.md:13`) and stores the grant list (against `http/api/quota.rs:257`).
- A list stored late takes back the removal of a credential that a newer list did not
  name, until the next list.
- Instants of the journal are variable-width text and sort a whole second after its
  fractions (`quota_action_store.rs:158`). Reconciling a reset records no change of it.
- The records that wait in the channel when a session ends are dropped, where
  `collector/cliproxy.rs:7` says that nothing falls between. Records posted to a LiteLLM
  source move the newest event ahead, so the next poll may skip rows. An unreadable
  LiteLLM row is dead-lettered again by every poll that reads it, and any unreadable record
  by every post of it (`http/api/source.rs:69`).
- A Codex list with a credit whose expiry cannot be read is stored without it
  (`quota/provider/codex.rs:156`), so a grant that was stored may go; one unreadable
  entry of Claude's leaves the stored grants alone.
- A process that starts with a clock behind the committed ids gives out older ids, which
  a stream client's `Last-Event-ID` passes over.
- Two ingest tasks commit in the order of their ids but publish after a gateway call
  (`usage/ingest.rs:172`), in any order: a client that reconnects with the later id skips
  the earlier batch. A batch that cannot be read back is not sent to those who listen. Both
  are against `usage/ingest.rs:224` ("a stream that misses it here finds it in the database
  on reconnect").
- Recent work is not shared across a reset journaled since, nor by a reset whose row a
  refresh closed before it answered: the next reset is a new one.
- Plans may be created on a merged account. A suggestion that appears between labels that
  are only alike is not told to readers.
- Prices are never retired: a price that a map drops goes on being charged, and a price
  of the event's tier past one threshold alone outranks the map's higher thresholds of no
  tier. Tier and exact name rank before origin, unlike
  `price/mod.rs:146`. A LiteLLM row without a spend keeps the billed cost it was first
  given (`cost.rs:97`), where `cost.rs:88` says that a billed cost is kept only where
  the upstream set it; `CostsHold` leaves such rows out. A record that states more cache
  than input is charged for all of its cache (`MAX` in `cost.rs:52`). A clock that
  stepped back makes every sync insert its rows again. A sync dates its rows before it
  waits for the writer (`catalog.rs:193`): of two syncs the one that commits last may carry
  the earlier date, and its rows stay behind the other's until a later sync inserts them
  again. Two fillers may send `priced` in
  either order.
- When both xAI billing calls fail and the ping is answered, the stored windows are
  cleared and the plan becomes paid (`xai.rs:35`). A 401 to the ping is never read as an
  expired sign-in.
- `quota/calibration.rs:113` rounds the reset to the minute, so jitter across a half
  minute splits one window in two, which its comment says it must not.

## Not modelled

- What two properties leave aside. `AnswersDecide` says that a refresh fails exactly when no
  answer reports a quota of Claude, Codex, Kimi and Antigravity; of Devin, Meta and xAI it
  says only what changes the windows and what ends a sign-in. `WindowsSteady` is about a
  reset that was stored and is stored again: one that appears or goes is not compared.
- The `batch` tier of prices.
- Stateless parts: authentication, MCP, HTTP reads and conditional requests, assets,
  analytics (read-only SQL), the RESP reader (framing of one wire format), the web UI.
- Configuration and sources are read once at start: they are constants here.
- Predictions and calibrations are floating-point statistics over samples.
- Renames, display names and labels, and the quota windows an account keeps when it is
  merged. Labels that are alike and not equal are in no run; the proofs cover them.
- Plan dates and prices, amounts of money, names and timings of records, migrations and
  column codecs, several sources at once.
