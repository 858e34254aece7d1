---------------------------- MODULE UsageStream ----------------------------
(***************************************************************************)
(* From minting an event's id to the live stream: the id generator, the    *)
(* ingest transactions that use it, publishing after the commit, and the   *)
(* SSE stream with its Last-Event-ID replay.  An id is its millisecond and *)
(* its sequence number; the node's bits between them are constant.         *)
(***************************************************************************)
EXTENDS Integers, Sequences, FiniteSets, SequencesExt

CONSTANTS
  Writers,      \* ingest batches under way
  Others,       \* code that mints ids of other tables meanwhile
  Clients,      \* stream clients
  None,         \* no id
  SequenceMask, \* SEQUENCE_MASK
  Replay,       \* MAX_LIMIT: the longest replay
  Backlog,      \* USAGE_BACKLOG
  MaxBatch,     \* bound: events of one batch
  MaxEvents,    \* bound: events ever committed
  MaxMs,        \* bound: the clock
  MaxFaults     \* bound: clock steps back, restarts, breaks

ASSUME StreamAssumption ==
  /\ SequenceMask \in Nat /\ Replay \in Nat \ {0} /\ Backlog \in Nat \ {0}
  /\ {MaxBatch, MaxEvents, MaxMs, MaxFaults} \subseteq Nat
  /\ Writers \cap Others = {} /\ None \notin Writers \cup Nat

Minters == Writers \cup Others

\* An id as a number: the encoded form is fixed width and keeps the order.
IdOf(ms, sequence) == ms * (SequenceMask + 1) + sequence
Ms(id) == id \div (SequenceMask + 1)
Sequence(id) == id % (SequenceMask + 1)

VARIABLES
  now,       \* the system clock, in milliseconds since EPOCH_MS
  state,     \* IdGenerator.state
  loaded,    \* the clock and the state a minter read
  minting,   \* whether it is between the load and the exchange
  minted,    \* every id given out by this process, in order (history variable)
  pc,        \* where a batch is
  lock,      \* the writer the database admits
  batch,     \* the ids its events got
  table,     \* usage_event: the ids committed, in commit order (history of it too)
  client,    \* where a client is
  lastId,    \* the Last-Event-ID it holds
  through,   \* replayed_through of its connection
  replay,    \* the replayed events not yet delivered; the least is next
  queue,     \* its broadcast receiver
  got,       \* the events it ever received
  here,      \* those delivered on this connection, in order
  joined,    \* how many events were committed when its first connection that brought any began
  behind,    \* an id was given out that is not above those committed (history variable)
  skipped,   \* events a client's stream went past: CutOff, Lost and Passed (history variable)
  faults, boot

mint == <<state, loaded, minting, minted>>
ingest == <<pc, lock, batch, table>>
conn == <<client, through, replay, queue, here>>
held == <<lastId, got, joined>>
vars == <<now, mint, ingest, conn, held, behind, skipped, faults, boot>>

Unloaded == [now |-> 0, state |-> 0]

Init ==
  /\ now = 1 /\ state = 0
  /\ loaded = [m \in Minters |-> Unloaded] /\ minting = [m \in Minters |-> FALSE]
  /\ minted = <<>>
  /\ pc = [w \in Writers |-> "idle"] /\ lock = None
  /\ batch = [w \in Writers |-> <<>>] /\ table = <<>>
  /\ client = [c \in Clients |-> "off"]
  /\ lastId = [c \in Clients |-> None] /\ through = [c \in Clients |-> None]
  /\ replay = [c \in Clients |-> {}] /\ queue = [c \in Clients |-> <<>>]
  /\ got = [c \in Clients |-> {}] /\ here = [c \in Clients |-> <<>>]
  /\ joined = [c \in Clients |-> None]
  /\ behind = FALSE /\ skipped = [c \in Clients |-> {}]
  /\ faults = 0 /\ boot = 0

Fault == faults < MaxFaults /\ faults' = faults + 1

-----------------------------------------------------------------------------
(* IdGenerator::next *)

MayMint(m) == m \in Others \/ (lock = m /\ pc[m] = "writing" /\ Len(batch[m]) < MaxBatch)

Load(m) ==
  /\ MayMint(m) /\ ~minting[m]
  /\ m \in Others => Len(minted) < MaxEvents
  /\ loaded' = [loaded EXCEPT ![m] = [now |-> now, state |-> state]]
  /\ minting' = [minting EXCEPT ![m] = TRUE]
  /\ UNCHANGED <<now, state, minted, ingest, conn, held, behind, skipped, faults, boot>>

\* A clock that moves backwards keeps the previous millisecond; one millisecond's
\* sequence may run out, and then the minter spins until the next.
NextId(m) == LET l == loaded[m] IN
  IF l.now > Ms(l.state) THEN IdOf(l.now, 0) ELSE l.state + 1

Spins(m) == LET l == loaded[m] IN l.now <= Ms(l.state) /\ Sequence(l.state) = SequenceMask

Given(m) ==
  /\ state' = NextId(m)
  /\ minted' = Append(minted, NextId(m))
  /\ batch' = IF m \in Writers THEN [batch EXCEPT ![m] = Append(@, NextId(m))] ELSE batch
  /\ minting' = [minting EXCEPT ![m] = FALSE] /\ loaded' = [loaded EXCEPT ![m] = Unloaded]
  /\ behind' = (behind \/ \E id \in ToSet(table) : NextId(m) <= id)

\* Mutant: the value loaded is taken for the one still there.
ExchangeBlindly(m) ==
  /\ minting[m] /\ ~Spins(m) /\ Given(m)
  /\ UNCHANGED <<now, pc, lock, table, conn, held, skipped, faults, boot>>

\* The exchange succeeds if nobody minted since the load.
Exchange(m) ==
  /\ minting[m] /\ ~Spins(m) /\ state = loaded[m].state /\ Given(m)
  /\ UNCHANGED <<now, pc, lock, table, conn, held, skipped, faults, boot>>

\* Otherwise, and while the sequence is spent, the loop goes round.
LoadAgain(m) ==
  /\ minting[m] /\ (Spins(m) \/ state # loaded[m].state)
  /\ minting' = [minting EXCEPT ![m] = FALSE] /\ loaded' = [loaded EXCEPT ![m] = Unloaded]
  /\ UNCHANGED <<now, state, minted, ingest, conn, held, behind, skipped, faults, boot>>

-----------------------------------------------------------------------------
(* ingest(): one write transaction, then publish(). *)

BeginBatch(w) ==
  /\ pc[w] = "idle" /\ lock = None /\ Len(table) < MaxEvents
  /\ lock' = w
  /\ pc' = [pc EXCEPT ![w] = "writing"] /\ batch' = [batch EXCEPT ![w] = <<>>]
  /\ UNCHANGED <<now, mint, table, conn, held, behind, skipped, faults, boot>>

\* The commit, unless an id is taken: then nothing of the batch is stored.
CommitBatch(w) ==
  /\ pc[w] = "writing" /\ ~minting[w] /\ batch[w] # <<>>
  /\ lock' = None
  /\ IF ToSet(batch[w]) \cap ToSet(table) = {}
     THEN table' = table \o batch[w] /\ pc' = [pc EXCEPT ![w] = "committed"]
     ELSE table' = table /\ pc' = [pc EXCEPT ![w] = "idle"]
  /\ UNCHANGED <<now, mint, batch, conn, held, behind, skipped, faults, boot>>

Listening(c) == client[c] \in {"subscribed", "live"}
Heard == \E c \in Clients : Listening(c)

\* What its batch has left to publish, and what all have.
Left(w) == IF pc[w] \in {"committed", "publishing"} THEN ToSet(batch[w]) ELSE {}
Waiting == UNION {Left(w) : w \in Writers}

\* An event whose batch is not read back reaches nobody who listens, unless by the replay.
Lost(c, w) == IF Listening(c) THEN Left(w) \ (got[c] \cup replay[c]) ELSE {}

\* publish(), after a new credential's list was read: the batch is read back if anyone
\* listens, and a failure to read it is logged.
ReadBack(w) ==
  /\ pc[w] = "committed"
  /\ \/ /\ pc' = [pc EXCEPT ![w] = IF Heard THEN "publishing" ELSE "idle"]
        /\ UNCHANGED <<skipped, faults>>
     \/ /\ Heard /\ Fault
        /\ pc' = [pc EXCEPT ![w] = "idle"]
        /\ skipped' = [c \in Clients |-> skipped[c] \cup Lost(c, w)]
  /\ UNCHANGED <<now, mint, lock, batch, table, conn, held, behind, boot>>

\* An older event that waits is passed by a stream this one is sent to.
Passed(c, id) ==
  IF Listening(c) THEN {e \in Waiting \ (got[c] \cup replay[c]) : e < id} ELSE {}

\* Each event in turn goes to every receiver there is.
Publish(w) ==
  /\ pc[w] = "publishing" /\ Heard
  /\ pc' = [pc EXCEPT ![w] = IF Len(batch[w]) = 1 THEN "idle" ELSE @]
  /\ batch' = [batch EXCEPT ![w] = Tail(@)]
  /\ queue' = [c \in Clients |->
       IF Listening(c) THEN Append(queue[c], Head(batch[w])) ELSE queue[c]]
  /\ skipped' = [c \in Clients |-> skipped[c] \cup Passed(c, Head(batch[w]))]
  /\ UNCHANGED <<now, mint, lock, table, client, through, replay, here, held, behind, faults,
                 boot>>

\* Everyone left since: the rest is not sent.
GiveUp(w) ==
  /\ pc[w] = "publishing" /\ ~Heard
  /\ pc' = [pc EXCEPT ![w] = "idle"]
  /\ UNCHANGED <<now, mint, lock, batch, table, conn, held, behind, skipped, faults, boot>>

-----------------------------------------------------------------------------
(* stream_usage_events *)

\* The receiver is subscribed before the replay is read.
Subscribe(c) ==
  /\ client[c] = "off"
  /\ client' = [client EXCEPT ![c] = "subscribed"]
  /\ queue' = [queue EXCEPT ![c] = <<>>] /\ here' = [here EXCEPT ![c] = <<>>]
  /\ joined' = [joined EXCEPT ![c] = IF lastId[c] = None THEN Len(table) ELSE @]
  /\ UNCHANGED <<now, mint, ingest, through, replay, lastId, got, behind, skipped, faults, boot>>

\* The oldest stored events newer than an id, as many as a page holds.
Page(id) ==
  LET newer(e) == {f \in ToSet(table) : id < f /\ f <= e}
  IN  {e \in ToSet(table) : e > id /\ Cardinality(newer(e)) <= Replay}

\* Mutant: the Last-Event-ID is not looked at.
ReplaysNothing(c) == {}

Replayed(c) == IF lastId[c] = None THEN {} ELSE Page(lastId[c])

\* What the page has no room for and the receiver does not hold.
CutOff(c) ==
  IF Replayed(c) = {} THEN {}
  ELSE {e \in ToSet(table) \ Waiting : e > Max(Replayed(c))} \ ToSet(queue[c])

ReadReplay(c) ==
  /\ client[c] = "subscribed"
  /\ client' = [client EXCEPT ![c] = "live"]
  /\ replay' = [replay EXCEPT ![c] = Replayed(c)]
  /\ through' = [through EXCEPT ![c] = IF Replayed(c) = {} THEN None ELSE Max(Replayed(c))]
  /\ skipped' = [skipped EXCEPT ![c] = @ \cup CutOff(c)]
  /\ UNCHANGED <<now, mint, ingest, queue, here, held, behind, faults, boot>>

\* The client reads one message, whose id becomes its Last-Event-ID.
Deliver(c, id) ==
  /\ got' = [got EXCEPT ![c] = @ \cup {id}]
  /\ here' = [here EXCEPT ![c] = Append(@, id)]
  /\ lastId' = [lastId EXCEPT ![c] = id]

DeliverReplay(c) ==
  /\ client[c] = "live" /\ replay[c] # {}
  /\ Deliver(c, Min(replay[c]))
  /\ replay' = [replay EXCEPT ![c] = @ \ {Min(@)}]
  /\ UNCHANGED <<now, mint, ingest, client, through, queue, joined, behind,
                 skipped, faults, boot>>

\* Mutant: the live half is not compared with the replay.
NeverSeen(c, id) == FALSE

Seen(c, id) == through[c] # None /\ id <= through[c]

Lagged(c) == Len(queue[c]) > Backlog

DeliverLive(c) ==
  /\ client[c] = "live" /\ replay[c] = {} /\ queue[c] # <<>> /\ ~Lagged(c)
  /\ IF Seen(c, Head(queue[c]))
     THEN UNCHANGED <<got, here, lastId>>
     ELSE Deliver(c, Head(queue[c]))
  /\ queue' = [queue EXCEPT ![c] = Tail(@)]
  /\ UNCHANGED <<now, mint, ingest, client, through, replay, joined, behind,
                 skipped, faults, boot>>

Disconnected(c) ==
  /\ client' = [client EXCEPT ![c] = "off"]
  /\ replay' = [replay EXCEPT ![c] = {}] /\ queue' = [queue EXCEPT ![c] = <<>>]
  /\ through' = [through EXCEPT ![c] = None] /\ here' = [here EXCEPT ![c] = <<>>]

\* Mutant: the stream skips what a receiver that lagged lost.
SkipLagged(c) ==
  /\ client[c] = "live" /\ replay[c] = {} /\ Lagged(c)
  /\ queue' = [queue EXCEPT ![c] = Tail(@)]
  /\ UNCHANGED <<now, mint, ingest, client, through, replay, here, held, behind,
                 skipped, faults, boot>>

\* A receiver that lagged ends its stream.
EndLagged(c) ==
  /\ client[c] = "live" /\ replay[c] = {} /\ Lagged(c)
  /\ Disconnected(c)
  /\ UNCHANGED <<now, mint, ingest, held, behind, skipped, faults, boot>>

\* The connection breaks.
Break(c) ==
  /\ Listening(c) /\ Fault
  /\ Disconnected(c)
  /\ UNCHANGED <<now, mint, ingest, held, behind, skipped, boot>>

-----------------------------------------------------------------------------
Tick ==
  /\ now < MaxMs /\ now' = now + 1
  /\ UNCHANGED <<mint, ingest, conn, held, behind, skipped, faults, boot>>

StepBack ==
  /\ now > 1 /\ Fault /\ now' = now - 1
  /\ UNCHANGED <<mint, ingest, conn, held, behind, skipped, boot>>

\* A restart: the generator starts from nothing; a batch not committed is gone, and one
\* not published never is.
Restart ==
  /\ Fault /\ boot' = boot + 1
  /\ state' = 0 /\ minted' = <<>> /\ minting' = [m \in Minters |-> FALSE]
  /\ loaded' = [m \in Minters |-> Unloaded]
  /\ pc' = [w \in Writers |-> "idle"] /\ lock' = None /\ batch' = [w \in Writers |-> <<>>]
  /\ client' = [c \in Clients |-> "off"]
  /\ replay' = [c \in Clients |-> {}] /\ queue' = [c \in Clients |-> <<>>]
  /\ through' = [c \in Clients |-> None] /\ here' = [c \in Clients |-> <<>>]
  /\ UNCHANGED <<now, table, held, behind, skipped>>

Mint(m) == Load(m) \/ Exchange(m) \/ LoadAgain(m)
Batch(w) == BeginBatch(w) \/ CommitBatch(w) \/ ReadBack(w) \/ Publish(w) \/ GiveUp(w)
Stream(c) ==
  Subscribe(c) \/ ReadReplay(c) \/ DeliverReplay(c) \/ DeliverLive(c) \/ EndLagged(c)

Next ==
  \/ \E m \in Minters : Mint(m)
  \/ \E w \in Writers : Batch(w)
  \/ \E c \in Clients : Stream(c) \/ Break(c)
  \/ Tick \/ StepBack \/ Restart

Spec == Init /\ [][Next]_vars

\* Batches are published and clients read on and reconnect.
FairSpec ==
  /\ Spec
  /\ \A w \in Writers : WF_vars(ReadBack(w) \/ Publish(w) \/ GiveUp(w))
  /\ \A c \in Clients : WF_vars(Stream(c))

-----------------------------------------------------------------------------
(* Properties. *)

GeneratorOK ==
  /\ now \in Nat /\ state \in Nat /\ loaded \in [Minters -> [now : Nat, state : Nat]]
  /\ minted \in Seq(Nat)

WritersTyped ==
  /\ minting \in [Minters -> BOOLEAN]
  /\ pc \in [Writers -> {"idle", "writing", "committed", "publishing"}]
  /\ lock \in Writers \cup {None} /\ batch \in [Writers -> Seq(Nat)] /\ table \in Seq(Nat)
  /\ behind \in BOOLEAN /\ faults \in Nat /\ boot \in Nat

ClientsTyped ==
  /\ client \in [Clients -> {"off", "subscribed", "live"}]
  /\ lastId \in [Clients -> Nat \cup {None}] /\ through \in [Clients -> Nat \cup {None}]
  /\ replay \in [Clients -> SUBSET Nat] /\ queue \in [Clients -> Seq(Nat)]
  /\ got \in [Clients -> SUBSET Nat] /\ here \in [Clients -> Seq(Nat)]
  /\ joined \in [Clients -> Nat \cup {None}] /\ skipped \in [Clients -> SUBSET Nat]

TypeOK == GeneratorOK /\ WritersTyped /\ ClientsTyped

\* The ids one process gives out rise, whatever its threads race for, the clock does and
\* a millisecond holds (IdGenerator::next).
IdsRise == \A i \in 2 .. Len(minted) : minted[i - 1] < minted[i]

\* Why: the state is never behind an id given out.
StateCovers == \A i \in 1 .. Len(minted) : minted[i] <= state

\* What the replay and the live half both saw is sent once on a connection (live()).
OncePerConnection == \A c \in Clients : IsInjective(here[c])

\* What was committed since a client joined, and what of it the client has not got and, as
\* old as the id it holds, will not be brought by reconnecting with that id.
Since(c) == IF joined[c] = None THEN {} ELSE {table[i] : i \in joined[c] + 1 .. Len(table)}
Missed(c) == {e \in Since(c) \ got[c] : lastId[c] # None /\ e <= lastId[c]}

\* publish()'s words: a stream that misses an event finds it in the database on reconnect
\* (as long as no process begins with a clock behind the ids committed).  The code does
\* not keep them.
NothingOlderMissed == ~behind => \A c \in Clients : Missed(c) = {}

\* What it does keep: a stream misses only what a full replay had no room for, what could
\* not be read back, and what a later batch overtook between its commit and publish(); not
\* what a receiver lost by lagging, what was committed between subscribing and the replay,
\* or what a break or a restart kept from it (stream_usage_events, live, publish).
OnlySkippedMissed == ~behind => \A c \in Clients : Missed(c) \subseteq skipped[c]

\* A client that once received an event and keeps reconnecting receives every later one its
\* stream does not skip, whatever breaks, lags or restarts between commit, publish and replay.
EveryEventStreamed == \A c \in Clients, i \in 1 .. MaxEvents :
  (lastId[c] # None /\ joined[c] < i /\ i <= Len(table)) ~>
  (behind \/ (i \in DOMAIN table /\ table[i] \in got[c] \cup skipped[c]))

-----------------------------------------------------------------------------
(* The inductive invariant behind the safety properties *)

Rises(b) == \A i, j \in 1 .. Len(b) : i < j => b[i] < b[j]

\* A batch being written has the lock and ids given out; what waits is stored, and rises.
BatchOK(w) ==
  /\ pc[w] = "writing" => lock = w /\ \A i \in 1 .. Len(batch[w]) : batch[w][i] <= state
  /\ minting[w] => pc[w] = "writing"
  /\ pc[w] # "idle" => Rises(batch[w])
  /\ pc[w] \in {"committed", "publishing"} => batch[w] # <<>>
  /\ Left(w) \subseteq ToSet(table)

\* No event waits twice.
BatchesOK ==
  /\ \A w \in Writers : BatchOK(w)
  /\ \A v, w \in Writers : v # w => Left(v) \cap Left(w) = {}

\* What a connection holds is stored and not sent yet, but for what it will drop as Seen.
ConnectionOK(c) ==
  /\ replay[c] \cup ToSet(queue[c]) \cup ToSet(here[c]) \subseteq ToSet(table)
  /\ client[c] # "live" => replay[c] = {} /\ here[c] = <<>> /\ through[c] = None
  /\ client[c] = "off" => queue[c] = <<>>
  /\ IsInjective(queue[c]) /\ ToSet(queue[c]) \cap Waiting = {}
  /\ IsInjective(here[c]) /\ ToSet(here[c]) \cap replay[c] = {}
  /\ \A e \in replay[c] : Seen(c, e)
  /\ \A e \in ToSet(here[c]) \cap (ToSet(queue[c]) \cup Waiting) : Seen(c, e)

\* What a client may still get.
Open(c) == Since(c) \ (got[c] \cup skipped[c])

\* It is about to read it from the table.
Rereads(c) == client[c] = "subscribed" /\ lastId[c] # None

\* What is open is newer than all the client holds, on its way to a listening one, and
\* never behind something newer in its queue.
StreamOK(c) ==
  /\ {lastId[c], through[c]} \subseteq ToSet(table) \cup {None}
  /\ Listening(c) \/ lastId[c] # None => joined[c] # None
  /\ lastId[c] # None => \A e \in Open(c) : lastId[c] < e
  /\ \A e \in Open(c) : Seen(c, e) => e \in replay[c]
  /\ Listening(c) /\ ~Rereads(c) =>
       Open(c) \subseteq replay[c] \cup ToSet(queue[c]) \cup Waiting
  /\ \A k \in 1 .. Len(queue[c]), e \in Open(c) : e < queue[c][k] =>
       \/ e \in replay[c] \/ \E j \in 1 .. k - 1 : queue[c][j] = e
       \/ Rereads(c) /\ e \notin ToSet(queue[c]) \cup Waiting

\* Until a clock falls behind, what is being written is above all that is stored.
NewestLast == \A w \in Writers : pc[w] = "writing" =>
  \A i \in 1 .. Len(batch[w]), e \in ToSet(table) : e < batch[w][i]

WritersInv == TypeOK /\ IdsRise /\ StateCovers /\ BatchesOK
ConnectionsInv == \A c \in Clients : ConnectionOK(c)
StreamsInv == ~behind => NewestLast /\ \A c \in Clients : StreamOK(c)
=============================================================================
