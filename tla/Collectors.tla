----------------------------- MODULE Collectors -----------------------------
(***************************************************************************)
(* One source's collector, from the gateway to the database.  A CLIProxy   *)
(* queue is destructive: while anyone is subscribed a record goes to the   *)
(* subscribers alone, otherwise it waits to be popped.  A LiteLLM proxy    *)
(* keeps its rows, and they land behind their own start time.  Both end in *)
(* ingest(), which drops duplicates and dead-letters what it cannot read,  *)
(* as does what people post.  Dead letters are pruned after a fortnight.   *)
(* Records are numbered in the order of their start times.  A queue hands  *)
(* them out in that order, each to one place at a time, so what waits      *)
(* somewhere is a set, and its head the least of it.                       *)
(***************************************************************************)
EXTENDS Integers, FiniteSets

CONSTANTS
  SourceKinds, \* the kinds of source a run collects from
  Records,     \* 1 .. n: the records the gateway will ever make
  Rejected,    \* those the normalizer cannot read
  Notices,     \* the queue's own notices, which are no request
  Started,     \* Started[r]: when request r started
  Lateness,    \* how long after its start a row may land
  Overlap,     \* OVERLAP: how far a poll reaches back
  PageSize,    \* PAGE_SIZE of a poll, in rows
  PopCount,    \* POP_COUNT
  BatchRecords,\* BATCH_RECORDS
  PushBacklog, \* PUSH_BACKLOG and the server's own buffer
  LastRetry,   \* LAST_RETRY
  MaxTime,     \* bound: the clock
  MaxFaults    \* bound: faults

ASSUME CollectorsAssumption ==
  /\ IsFiniteSet(Records) /\ Records = 1 .. Cardinality(Records)
  /\ Rejected \subseteq Records /\ Notices \subseteq Records
  /\ Rejected \cap Notices = {}
  /\ Started \in [Records -> Int]
  /\ \A r \in Records, s \in Records : r <= s => Started[r] <= Started[s]
  /\ SourceKinds \subseteq {"cliproxy", "litellm"}
  /\ \* a poll that takes less than a tick misses no row that lands in time
     Lateness \in Nat /\ Overlap \in Nat /\ Lateness <= Overlap
  /\ {PageSize, PopCount, BatchRecords, PushBacklog, LastRetry} \subseteq Nat \ {0}
  /\ {MaxTime, MaxFaults} \subseteq Nat

VARIABLES
  kind,      \* the source's kind
  made,      \* the records the gateway has made
  queued,    \* CLIProxy: the records that wait to be popped
  attached,  \* CLIProxy: whether it sees a subscriber
  pushed,    \* what was pushed and not yet taken from the channel
  unsaved,   \* Unsaved: taken from the gateway and not yet committed
  pc,        \* where the collector is
  after,     \* where it goes once the batch is stored
  brought,   \* what the last batch brought in
  start,     \* the start of the poll's window
  pages,     \* the pages this poll has read
  delay,     \* Backoff.delay
  stored,    \* usage_event
  letters,   \* dead_letter: its rows, the copies of a record numbered from 0, and
             \* whether the collector or a post brought each
  received,  \* collector_state.records_received
  connected, \* collector_state.connected_since
  failures,  \* collector_state.consecutive_failures
  now, faults, boot,
  lost,      \* records gone with a reply or with the process (history variable)
  dropped,   \* records gone with a session's channel (history variable)
  pruned     \* dead letters that were pruned (history variable)

gateway == <<kind, made>>
queue == <<queued, attached, pushed>>
poll == <<start, pages>>
tables == <<stored, letters>>
health == <<connected, failures>>
gone == <<lost, dropped, pruned>>
vars == <<gateway, queue, unsaved, pc, after, brought, poll, delay, tables, received,
          health, now, faults, boot, gone>>

Init ==
  /\ kind \in SourceKinds
  /\ made = {} /\ queued = {} /\ attached = FALSE /\ pushed = {}
  /\ unsaved = {} /\ pc = "down" /\ after = "pop" /\ brought = 0
  /\ start = 0 /\ pages = 0 /\ delay = 1
  /\ stored = {} /\ letters = {}
  /\ received = 0 /\ connected = FALSE /\ failures = 0
  /\ now = 0 /\ faults = 0 /\ boot = 0 /\ lost = {} /\ dropped = {} /\ pruned = {}

Fault == faults < MaxFaults /\ faults' = faults + 1

-----------------------------------------------------------------------------
(* ingest(): one transaction; the record hash makes a second copy a        *)
(* duplicate, and a rejected record has none.                              *)

Unreadable == Rejected \cup Notices

Accepted(batch) == batch \ (Unreadable \cup stored)

Copies(r) == Cardinality({l \in letters \cup pruned : l.record = r})

Refused(batch, by) ==
  {[record |-> r, copy |-> Copies(r), by |-> by] : r \in batch \cap Unreadable}

\* Mutant: a duplicate counts as received.
IngestCountingDuplicates(batch) ==
  /\ stored' = stored \cup Accepted(batch)
  /\ letters' = letters \cup Refused(batch, "collector")
  /\ brought' = Cardinality(batch)

Ingest(batch) ==
  /\ stored' = stored \cup Accepted(batch)
  /\ letters' = letters \cup Refused(batch, "collector")
  /\ brought' = Cardinality(Accepted(batch)) + Cardinality(Refused(batch, "collector"))

\* Progress::received: duplicates are not counted, and a batch of nothing else skips it.
Count ==
  /\ pc = "count"
  /\ received' = received + brought /\ brought' = 0
  /\ pc' = after
  /\ UNCHANGED <<gateway, queue, unsaved, after, poll, delay, tables, health, now, faults,
                 boot, gone>>

\* POST /sources/:id/events hands queue records to ingest() too.  One that is stored is a
\* duplicate and changes nothing; one that cannot be read is a dead letter each time.
Post(r) ==
  /\ kind = "cliproxy" /\ r \in made \ stored /\ Fault
  /\ stored' = stored \cup Accepted({r})
  /\ letters' = letters \cup Refused({r}, "post")
  /\ UNCHANGED <<gateway, queue, unsaved, pc, after, brought, poll, delay,
                 received, health, now, boot, gone>>

\* DeadLetter::prune, once a day: those behind RETENTION go.  Which have been received
\* that long ago is left open.
Prune(old) ==
  /\ old # {} /\ old \subseteq letters
  /\ letters' = letters \ old
  /\ pruned' = pruned \cup old
  /\ UNCHANGED <<gateway, queue, unsaved, pc, after, brought, poll, delay, stored,
                 received, health, now, faults, boot, lost, dropped>>

-----------------------------------------------------------------------------
(* The queue's server. *)

\* The first of these records.
Oldest(records) == {r \in records : \A s \in records : r <= s}

\* A record is made: it goes to the subscriber, or waits when there is none or when a
\* full one is dropped.
Produce(r) ==
  /\ kind = "cliproxy" /\ r \in Oldest(Records \ made)
  /\ made' = made \cup {r}
  /\ IF attached /\ Cardinality(pushed) < PushBacklog
     THEN pushed' = pushed \cup {r} /\ UNCHANGED <<queued, attached>>
     ELSE queued' = queued \cup {r} /\ attached' = FALSE /\ UNCHANGED pushed
  /\ UNCHANGED <<kind, unsaved, pc, after, brought, poll, delay, tables, received, health,
                 now, faults, boot, gone>>

\* The subscription breaks; what the reader took before is still forwarded.
Cut ==
  /\ attached /\ Fault
  /\ attached' = FALSE
  /\ UNCHANGED <<gateway, queued, pushed, unsaved, pc, after, brought, poll, delay, tables,
                 received, health, now, boot, gone>>

-----------------------------------------------------------------------------
(* cliproxy::session *)

\* keep(): a notice is no record.
Keep(batch) == unsaved \cup (batch \ Notices)

\* Subscribed and confirmed, and what an earlier session left is stored first.
Connect ==
  /\ pc = "down" /\ kind = "cliproxy"
  /\ attached' = TRUE /\ pushed' = {}
  /\ connected' = TRUE /\ failures' = 0 /\ delay' = 1
  /\ pc' = "store" /\ after' = "pop"
  /\ UNCHANGED <<gateway, queued, unsaved, brought, poll, tables, received, now, faults,
                 boot, gone>>

\* store(): the batch is committed and only then forgotten.
Store ==
  /\ pc = "store"
  /\ IF unsaved = {}
     THEN pc' = after /\ UNCHANGED <<tables, unsaved, brought>>
     ELSE pc' = "count" /\ Ingest(unsaved) /\ unsaved' = {}
  /\ UNCHANGED <<gateway, queue, after, poll, delay, received, health, now, faults, boot, gone>>

\* LPOP until the queue answers nothing.
Popped == {r \in queued : Cardinality({s \in queued : s < r}) < PopCount}

Pop ==
  /\ pc = "pop"
  /\ unsaved' = Keep(Popped)
  /\ queued' = queued \ Popped
  /\ pc' = IF queued = {} THEN "live" ELSE "store"
  /\ after' = IF queued = {} THEN "live" ELSE "pop"
  /\ UNCHANGED <<gateway, attached, pushed, brought, poll, delay, tables, received, health,
                 now, faults, boot, gone>>

\* A pushed record opens a batch, and more join it until the window closes.
Take(r) ==
  /\ pc \in {"live", "batch"} /\ r \in Oldest(pushed)
  /\ pc = "batch" => Cardinality(unsaved) < BatchRecords
  /\ unsaved' = Keep({r})
  /\ pushed' = pushed \ {r}
  /\ pc' = "batch"
  /\ UNCHANGED <<gateway, queued, attached, after, brought, poll, delay, tables, received,
                 health, now, faults, boot, gone>>

CloseBatch ==
  /\ pc = "batch"
  /\ pc' = "store" /\ after' = "live"
  /\ UNCHANGED <<gateway, queue, unsaved, brought, poll, delay, tables, received, health,
                 now, faults, boot, gone>>

\* The session is over: its channel goes, what is unsaved stays, and the failure is noted.
EndSession ==
  /\ attached' = FALSE /\ pushed' = {}
  /\ dropped' = dropped \cup (pushed \ (Notices \cup stored))
  /\ connected' = FALSE /\ failures' = failures + 1
  /\ pc' = "backoff" /\ brought' = 0
  /\ UNCHANGED <<gateway, after, poll, delay, tables, received, now, boot, pruned>>

\* Mutant: what is unsaved belongs to the session.
EndSessionForgetting == EndSession /\ unsaved' = {}

EndSessionKeeping == EndSession /\ unsaved' = unsaved

\* The reader forwards its failure after all it read.
Disconnected ==
  /\ pc \in {"live", "batch"} /\ ~attached /\ pushed = {}
  /\ EndSessionKeeping /\ UNCHANGED <<queued, faults, lost>>

\* A command, a commit or a progress row fails.
SessionFails ==
  /\ kind = "cliproxy" /\ pc \in {"down", "pop", "store", "count"} /\ Fault
  /\ EndSessionKeeping /\ UNCHANGED <<queued, lost>>

\* The records were popped and the reply never came.
PopReplyLost ==
  /\ pc = "pop" /\ queued # {} /\ Fault
  /\ queued' = queued \ Popped
  /\ lost' = lost \cup Popped
  /\ EndSessionKeeping

-----------------------------------------------------------------------------
(* litellm::poll *)

\* A row is written when its request ends, some time after it started.
Land(r) ==
  /\ now < MaxTime
  /\ kind = "litellm" /\ r \in Records \ (made \cup Notices)
  /\ Started[r] <= now /\ now <= Started[r] + Lateness
  /\ made' = made \cup {r}
  /\ UNCHANGED <<kind, queue, unsaved, pc, after, brought, poll, delay, tables, received,
                 health, now, faults, boot, gone>>

Newest == CHOOSE at \in {Started[r] : r \in stored} : \A r \in stored : Started[r] <= at

\* Mutant: the window starts at the newest event.
WindowWithoutOverlap == IF stored = {} THEN 0 ELSE Newest

\* Back past the newest event, or FIRST_WINDOW when there is none.
Window == IF stored = {} THEN 0 ELSE Newest - Overlap

Begin ==
  /\ kind = "litellm" /\ pc = "down"
  /\ start' = Window /\ pages' = 0 /\ pc' = "fetch"
  /\ UNCHANGED <<gateway, queue, unsaved, after, brought, delay, tables, received, health,
                 now, faults, boot, gone>>

\* The rows of the window as the proxy has them at this request, and one page of them.
InWindow == {r \in made : Started[r] >= start}
Before(r) == Cardinality({s \in InWindow : s < r})
Page == {r \in InWindow : pages * PageSize <= Before(r) /\ Before(r) < (pages + 1) * PageSize}

\* Each page is committed as it arrives; a short one is the last.
Fetch ==
  /\ pc = "fetch"
  /\ IF Page = {} THEN UNCHANGED <<tables, brought>> ELSE Ingest(Page)
  /\ pages' = pages + 1
  /\ LET then == IF Cardinality(Page) < PageSize THEN "polled" ELSE "fetch" IN
     /\ after' = then
     /\ pc' = IF Page = {} THEN then ELSE "count"
  /\ UNCHANGED <<gateway, queue, unsaved, start, delay, received, health, now, faults, boot,
                 gone>>

\* Progress::polled, then the task sleeps for POLL_INTERVAL.
Polled ==
  /\ pc = "polled"
  /\ connected' = TRUE /\ failures' = 0 /\ delay' = 1
  /\ pc' = "asleep"
  /\ UNCHANGED <<gateway, queue, unsaved, after, brought, poll, tables, received, now, faults,
                 boot, gone>>

\* The proxy refuses or cannot be reached, or a commit or a progress row fails.
PollFails ==
  /\ kind = "litellm" /\ pc \in {"fetch", "count", "polled"} /\ Fault
  /\ connected' = FALSE /\ failures' = failures + 1
  /\ pc' = "backoff" /\ brought' = 0
  /\ UNCHANGED <<gateway, queue, unsaved, after, poll, delay, tables, received, now, boot,
                 gone>>

-----------------------------------------------------------------------------
(* run(), the process and the clock. *)

\* Backoff::wait: the delay doubles to LAST_RETRY.
Retry ==
  /\ pc = "backoff"
  /\ pc' = "down"
  /\ delay' = IF 2 * delay < LastRetry THEN 2 * delay ELSE LastRetry
  /\ UNCHANGED <<gateway, queue, unsaved, after, brought, poll, tables, received, health,
                 now, faults, boot, gone>>

\* The process dies: what it held in memory is gone.
Crash ==
  /\ Fault /\ boot' = boot + 1
  /\ lost' = lost \cup ((pushed \cup unsaved) \ (Notices \cup stored))
  /\ attached' = FALSE /\ pushed' = {} /\ unsaved' = {}
  /\ pc' = "down" /\ after' = "pop" /\ brought' = 0 /\ delay' = 1
  /\ UNCHANGED <<gateway, queued, poll, tables, received, health, now, dropped,
                 pruned>>

\* A tick is a POLL_INTERVAL; a poll and the commits of its pages take less.
Tick ==
  /\ now < MaxTime /\ pc \notin {"fetch", "count", "polled"}
  /\ kind = "litellm"
  /\ now' = now + 1
  /\ pc' = IF pc = "asleep" THEN "down" ELSE pc
  /\ UNCHANGED <<gateway, queue, unsaved, after, brought, poll, delay, tables, received,
                 health, faults, boot, gone>>

Session ==
  \/ Connect \/ Store \/ Count \/ Pop \/ (\E r \in Records : Take(r)) \/ CloseBatch
  \/ Disconnected \/ Retry
Poll == Begin \/ Fetch \/ Polled
Faulty == Cut \/ SessionFails \/ PopReplyLost \/ PollFails \/ Crash
Outside ==
  \/ \E r \in Records : Produce(r) \/ Land(r) \/ Post(r)
  \/ \E old \in SUBSET letters : Prune(old)
  \/ Tick

Next == Session \/ Poll \/ Faulty \/ Outside

Spec == Init /\ [][Next]_vars

\* The collector's task and the clock run on; nothing is asked of the gateway.
FairSpec == Spec /\ WF_vars(Session \/ Poll) /\ WF_vars(Tick)

-----------------------------------------------------------------------------
(* Properties. *)

TypeOK ==
  /\ kind \in SourceKinds /\ made \subseteq Records
  /\ queued \subseteq Records /\ pushed \subseteq Records /\ unsaved \subseteq Records \ Notices
  /\ attached \in BOOLEAN /\ connected \in BOOLEAN
  /\ pc \in {"down", "store", "count", "pop", "live", "batch", "backoff", "fetch", "polled", "asleep"}
  /\ after \in {"pop", "live", "fetch", "polled"}
  /\ brought \in Nat /\ start \in Int /\ pages \in Nat /\ delay \in 1 .. LastRetry
  /\ stored \subseteq Records \ Unreadable
  /\ letters \cup pruned \subseteq [record : Unreadable, copy : Nat, by : {"collector", "post"}]
  /\ received \in Nat /\ failures \in Nat
  /\ now \in Nat /\ faults \in Nat /\ boot \in Nat /\ lost \subseteq Records
  /\ dropped \subseteq Records

\* The dead letters the collector wrote, whether or not they are still kept.
Collected == {l \in letters \cup pruned : l.by = "collector"}

Filed(r) == r \in stored \/ \E l \in Collected : l.record = r

\* What the destructive pop or the channel handed over is lost only with the process,
\* however many sessions, commits and progress rows fail (cliproxy::Unsaved).
KeptUntilFiled ==
  [][boot' = boot => \A r \in unsaved : r \in unsaved' \/ Filed(r)']_vars

\* The collector dead-letters a queue record at most once, and the count of what a source
\* brought in never runs ahead of the events stored and the dead letters the collector
\* wrote, whatever is retried, posted in between or polled again.  (A post adds a dead
\* letter each time and is not counted, and dead letters are pruned in the end.)
FiledOnce ==
  /\ kind = "cliproxy" => \A l \in Collected, m \in Collected : l.record = m.record => l = m
  /\ received + brought <= Cardinality(stored) + Cardinality(Collected)

\* What was made and is not filed still waits somewhere, or was taken by a reply, a
\* channel or the process: a session, a failed commit and a retry lose nothing else.
NothingVanishes == kind = "cliproxy" => \A r \in made \ Notices :
  Filed(r) \/ r \in queued \cup pushed \cup unsaved \cup lost \cup dropped

-----------------------------------------------------------------------------
(* What the properties rest on: a queue record is in one place. *)

Lettered == {l.record : l \in Collected}

OnePlace ==
  /\ queued \cap pushed = {} /\ queued \cap unsaved = {} /\ pushed \cap unsaved = {}
  /\ (queued \cup pushed \cup unsaved) \cap Lettered = {}
  /\ queued \cup pushed \cup unsaved \cup Lettered \subseteq made

\* A poll is a proxy's alone.
NoPoll == pc \notin {"fetch", "polled"} /\ after \in {"pop", "live"}

\* Between sessions nothing is subscribed.
OffLine == pc \in {"down", "backoff"} => ~ attached /\ pushed = {}

QueueInv == kind = "cliproxy" =>
  /\ NoPoll /\ OffLine /\ OnePlace
  /\ \A l \in Collected, m \in Collected : l.record = m.record => l = m

\* A proxy's rows are requests.
RowsInv == kind = "litellm" => made \cap Notices = {}

\* The copies of a record are numbered from 0.
LettersInv ==
  IsFiniteSet(letters \cup pruned) /\ \A l \in letters \cup pruned : l.copy < Copies(l.record)

CollectorsInv == TypeOK /\ QueueInv /\ RowsInv /\ LettersInv /\ FiledOnce /\ NothingVanishes

-----------------------------------------------------------------------------
\* Every request is filed in the end, apart from those a reply, a channel or the process
\* took with it; a proxy's row always is, between failed pages and behind newer rows.
EveryRecordFiled == \A r \in Records \ Notices :
  r \in made ~> Filed(r) \/ (kind = "cliproxy" /\ r \in lost \cup dropped)
=============================================================================
