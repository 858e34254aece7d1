----------------------------- MODULE ChangeFeed -----------------------------
(***************************************************************************)
(* The change feed: writes record changes in their own transaction, a      *)
(* commit wakes the long polls, a sweep prunes what is older than the      *)
(* retention, and clients follow GET /events from the cursor they hold.    *)
(* A subject stands for a kind and what it names.                          *)
(***************************************************************************)
EXTENDS Integers, Sequences, FiniteSets

CONSTANTS
  Readers, Subjects,
  Wants,      \* Wants[r]: the subjects of the kinds reader r asks for
  PageSize,   \* PAGE: the most changes in an answer
  Retention,  \* RETENTION, in ticks of the wall clock
  MaxChanges, \* bound: changes ever committed
  MaxBatch,   \* bound: changes of one transaction
  MaxTime,    \* bound: the wall clock
  MaxFaults   \* bound: restarts and cancelled commits

ASSUME WantsAssumption == Wants \in [Readers -> SUBSET Subjects]
ASSUME BoundsAssumption ==
  /\ PageSize \in Nat \ {0}
  /\ {Retention, MaxChanges, MaxBatch, MaxTime, MaxFaults} \subseteq Nat

VARIABLES
  change,        \* the rows kept: cursor, subject, recorded_at
  prunedThrough, \* change_horizon.pruned_through
  wakes,         \* commits whose send_replace has not run yet
  dropped,       \* a commit was cancelled before its send_replace
  now,           \* the wall clock; it may step back
  faults,        \* restarts and cancelled commits so far
  pc,            \* where a reader's request is
  cursor,        \* the cursor a client holds
  from,          \* the cursor its request reads from
  woken,         \* its subscription saw a wake
  page,          \* the answer on its way: subjects and cursor
  unread,        \* the subjects whose list a client has yet to read
  view,          \* how much of the history each list it read covered
  history        \* every change ever committed (history variable)

store == <<change, prunedThrough, history>>
wake == <<wakes, dropped>>
client == <<cursor, unread, view>>
request == <<pc, from, woken, page>>
vars == <<store, wake, now, faults, client, request>>

Places ==
  {"away", "reading", "idle", "polling", "empty", "waiting", "answered", "expired"}
Subscribed == {"polling", "empty", "waiting"}
NoPage == [subjects |-> {}, cursor |-> 0]

Init ==
  /\ change = {} /\ prunedThrough = 0 /\ history = <<>>
  /\ wakes = 0 /\ dropped = FALSE
  /\ now = 0 /\ faults = 0
  /\ pc = [r \in Readers |-> "away"]
  /\ cursor = [r \in Readers |-> 0]
  /\ from = [r \in Readers |-> 0]
  /\ woken = [r \in Readers |-> FALSE]
  /\ page = [r \in Readers |-> NoPage]
  /\ unread = [r \in Readers |-> {}]
  /\ view = [r \in Readers |-> [s \in Subjects |-> 0]]

-----------------------------------------------------------------------------
(* Writes. *)

Batches == UNION {[1 .. n -> Subjects] : n \in 0 .. MaxBatch}

\* The rows Change::record adds: AUTOINCREMENT numbers them on from the last one ever.
Rows(batch) == {[cursor |-> Len(history) + i, subject |-> batch[i], at |-> now] :
                  i \in DOMAIN batch}

\* A write transaction commits: SQLite admits one writer at a time and readers see none
\* of it before.  Its wake is due only if it recorded a change.
Commit(batch) ==
  /\ Len(history) + Len(batch) <= MaxChanges
  /\ change' = change \cup Rows(batch)
  /\ history' = history \o batch
  /\ wakes' = IF batch = <<>> THEN wakes ELSE wakes + 1
  /\ UNCHANGED <<prunedThrough, dropped, now, faults, client, request>>

Wake ==
  /\ wakes > 0
  /\ wakes' = wakes - 1
  /\ woken' = [r \in Readers |-> woken[r] \/ pc[r] \in Subscribed]
  /\ UNCHANGED <<store, dropped, now, faults, client, pc, from, page>>

\* The future that commits is dropped once the commit is through.
CancelWake ==
  /\ wakes > 0 /\ faults < MaxFaults
  /\ wakes' = wakes - 1 /\ dropped' = TRUE /\ faults' = faults + 1
  /\ UNCHANGED <<store, now, client, request>>

-----------------------------------------------------------------------------
(* Pruning. *)

Old == {c \in change : c.at < now - Retention}

Horizon(S) == CHOOSE n \in S : \A m \in S : m <= n

\* Mutant: the changes go and the horizon stays.
PruneSilently ==
  /\ change' = change \ Old
  /\ UNCHANGED <<prunedThrough, history, wake, now, faults, client, request>>

\* One transaction: the horizon rises over what goes.
Prune ==
  /\ prunedThrough' = Horizon({c.cursor : c \in Old} \cup {prunedThrough})
  /\ change' = change \ Old
  /\ UNCHANGED <<history, wake, now, faults, client, request>>

Tick ==
  /\ now < MaxTime /\ now' = now + 1
  /\ UNCHANGED <<store, wake, faults, client, request>>

\* The wall clock is set back.
StepBack ==
  /\ now > 0 /\ faults < MaxFaults
  /\ now' = now - 1 /\ faults' = faults + 1
  /\ UNCHANGED <<store, wake, client, request>>

-----------------------------------------------------------------------------
(* Reading. *)

Latest == Horizon({c.cursor : c \in change} \cup {prunedThrough})

Expired(n) == n < prunedThrough \/ n > Latest

Wanted(r, n) == {c \in change : c.cursor > n /\ c.subject \in Wants[r]}

\* The first PAGE rows wanted: ORDER BY cursor LIMIT.
IsPage(p, r, n) ==
  /\ \A c \in p, d \in Wanted(r, n) : d.cursor < c.cursor => d \in p
  /\ Cardinality(p) <= PageSize
  /\ Cardinality(p) = PageSize \/ p = Wanted(r, n)

\* Mutant: a full page answers the latest cursor too.
AlwaysLatest(p) == Latest

\* Mutant: the cursor to follow from is the next one to be given out.
NextCursor(p) == Len(history) + 1

PageCursor(p) ==
  IF Cardinality(p) = PageSize THEN Horizon({c.cursor : c \in p}) ELSE Latest

\* Without a cursor: the latest one at once, and every list to read.
Join(r) ==
  /\ pc[r] = "away"
  /\ pc' = [pc EXCEPT ![r] = "reading"]
  /\ cursor' = [cursor EXCEPT ![r] = Latest]
  /\ unread' = [unread EXCEPT ![r] = Wants[r]]
  /\ UNCHANGED <<store, wake, now, faults, view, from, woken, page>>

\* The client reads one list it was told to.
ReadList(r, s) ==
  /\ s \in unread[r]
  /\ unread' = [unread EXCEPT ![r] = @ \ {s}]
  /\ view' = [view EXCEPT ![r][s] = Len(history)]
  /\ UNCHANGED <<store, wake, now, faults, cursor, request>>

\* The lists are read: the next request is sent, and subscribes before it reads.
Poll(r) ==
  /\ pc[r] \in {"reading", "idle"} /\ unread[r] = {}
  /\ pc' = [pc EXCEPT ![r] = "polling"]
  /\ from' = [from EXCEPT ![r] = cursor[r]]
  /\ woken' = [woken EXCEPT ![r] = FALSE]
  /\ UNCHANGED <<store, wake, now, faults, client, page>>

\* The request's subscription and its own cursor go with it.
Unsubscribe(r) ==
  /\ from' = [from EXCEPT ![r] = 0]
  /\ woken' = [woken EXCEPT ![r] = FALSE]

AnswerExpired(r) ==
  /\ pc[r] = "polling" /\ Expired(from[r])
  /\ pc' = [pc EXCEPT ![r] = "expired"]
  /\ page' = [page EXCEPT ![r] = [subjects |-> Wants[r], cursor |-> Latest]]
  /\ Unsubscribe(r)
  /\ UNCHANGED <<store, wake, now, faults, client>>

AnswerPage(r) ==
  /\ pc[r] = "polling" /\ ~Expired(from[r])
  /\ \E p \in SUBSET Wanted(r, from[r]) :
       /\ p # {} /\ IsPage(p, r, from[r])
       /\ page' = [page EXCEPT ![r] = [subjects |-> {c.subject : c \in p},
                                       cursor |-> PageCursor(p)]]
  /\ pc' = [pc EXCEPT ![r] = "answered"]
  /\ Unsubscribe(r)
  /\ UNCHANGED <<store, wake, now, faults, client>>

\* Nothing wanted: the request passes over what it read.
ReadNothing(r) ==
  /\ pc[r] = "polling" /\ ~Expired(from[r]) /\ Wanted(r, from[r]) = {}
  /\ pc' = [pc EXCEPT ![r] = "empty"]
  /\ from' = [from EXCEPT ![r] = Latest]
  /\ UNCHANGED <<store, wake, now, faults, client, woken, page>>

\* Mutant: the wake is subscribed to only when the wait begins.
WaitSubscribing(r) ==
  /\ pc[r] = "empty"
  /\ pc' = [pc EXCEPT ![r] = "waiting"]
  /\ woken' = [woken EXCEPT ![r] = FALSE]
  /\ UNCHANGED <<store, wake, now, faults, client, from, page>>

\* It waits for a commit later than its subscription.
Wait(r) ==
  /\ pc[r] = "empty"
  /\ pc' = [pc EXCEPT ![r] = "waiting"]
  /\ UNCHANGED <<store, wake, now, faults, client, from, woken, page>>

Woken(r) ==
  /\ pc[r] = "waiting" /\ woken[r]
  /\ pc' = [pc EXCEPT ![r] = "polling"]
  /\ woken' = [woken EXCEPT ![r] = FALSE]
  /\ UNCHANGED <<store, wake, now, faults, client, from, page>>

\* Mutant: the deadline is looked at only after a wake.
TimeOutOnceWoken(r) ==
  /\ pc[r] = "waiting" /\ woken[r]
  /\ pc' = [pc EXCEPT ![r] = "answered"]
  /\ page' = [page EXCEPT ![r] = [subjects |-> {}, cursor |-> from[r]]]
  /\ Unsubscribe(r)
  /\ UNCHANGED <<store, wake, now, faults, client>>

\* The deadline passes: the empty page last read is answered.
TimeOut(r) ==
  /\ pc[r] = "waiting"
  /\ pc' = [pc EXCEPT ![r] = "answered"]
  /\ page' = [page EXCEPT ![r] = [subjects |-> {}, cursor |-> from[r]]]
  /\ Unsubscribe(r)
  /\ UNCHANGED <<store, wake, now, faults, client>>

\* A page or a 410 arrives: both leave lists to read and the cursor to follow from.
Receive(r) ==
  /\ pc[r] \in {"answered", "expired"}
  /\ pc' = [pc EXCEPT ![r] = "reading"]
  /\ cursor' = [cursor EXCEPT ![r] = page[r].cursor]
  /\ unread' = [unread EXCEPT ![r] = page[r].subjects]
  /\ page' = [page EXCEPT ![r] = NoPage]
  /\ UNCHANGED <<store, wake, now, faults, view, from, woken>>

\* The connection breaks at any point: the client still holds the cursor it sent.
Lose(r) ==
  /\ pc[r] \in {"polling", "empty", "waiting", "answered", "expired"}
  /\ pc' = [pc EXCEPT ![r] = "idle"]
  /\ Unsubscribe(r)
  /\ page' = [page EXCEPT ![r] = NoPage]
  /\ UNCHANGED <<store, wake, now, faults, client>>

\* The process restarts: pending wakes and requests are gone.
Restart ==
  /\ faults < MaxFaults /\ faults' = faults + 1
  /\ wakes' = 0
  /\ pc' = [r \in Readers |-> IF pc[r] \in {"away", "reading"} THEN pc[r] ELSE "idle"]
  /\ from' = [r \in Readers |-> 0] /\ page' = [r \in Readers |-> NoPage]
  /\ woken' = [r \in Readers |-> FALSE]
  /\ UNCHANGED <<store, dropped, now, client>>

-----------------------------------------------------------------------------
Writer == (\E batch \in Batches : Commit(batch)) \/ Wake \/ CancelWake

Reader(r) ==
  \/ Join(r) \/ (\E s \in Subjects : ReadList(r, s)) \/ Poll(r)
  \/ AnswerExpired(r) \/ AnswerPage(r) \/ ReadNothing(r) \/ Wait(r) \/ Woken(r) \/ TimeOut(r)
  \/ Receive(r) \/ Lose(r)

Next == Writer \/ Prune \/ Tick \/ StepBack \/ Restart \/ \E r \in Readers : Reader(r)

Spec == Init /\ [][Next]_vars

\* Every request is served and times out, and a client reads what it is told to and
\* polls again; connections that break do not break for ever at the same point.
Fairness == \A r \in Readers :
  /\ WF_vars(\E s \in Subjects : ReadList(r, s)) /\ WF_vars(Poll(r))
  /\ SF_vars(AnswerExpired(r) \/ AnswerPage(r) \/ ReadNothing(r)) /\ SF_vars(Wait(r))
  /\ SF_vars(TimeOut(r)) /\ SF_vars(Receive(r))

FairSpec == Spec /\ Fairness

-----------------------------------------------------------------------------
(* Properties. *)

TypeOK ==
  /\ change \subseteq [cursor : 1 .. Len(history), subject : Subjects, at : Nat]
  /\ prunedThrough \in 0 .. Len(history)
  /\ history \in Seq(Subjects)
  /\ wakes \in Nat /\ dropped \in BOOLEAN /\ now \in Nat /\ faults \in Nat
  /\ pc \in [Readers -> Places]
  /\ cursor \in [Readers -> 0 .. Len(history)]
  /\ from \in [Readers -> 0 .. Len(history)]
  /\ woken \in [Readers -> BOOLEAN]
  /\ page \in [Readers -> [subjects : SUBSET Subjects, cursor : 0 .. Len(history)]]
  /\ unread \in [Readers -> SUBSET Subjects]
  /\ view \in [Readers -> [Subjects -> 0 .. Len(history)]]

\* The changes a reader follows that its lists do not show yet.
Behind(r) == {i \in 1 .. Len(history) :
                /\ history[i] \in Wants[r] \ unread[r]
                /\ i > view[r][history[i]]}

Kept(i) == \E c \in change : c.cursor = i /\ c.subject = history[i]

\* No change is skipped: what a reader's lists do not show lies after its cursor, and is
\* kept for it, or its cursor is below the horizon and answers 410 (Change::after).
NothingMissed == \A r \in Readers : pc[r] # "away" =>
  \A i \in Behind(r) : i > cursor[r] /\ (Kept(i) \/ Expired(cursor[r]))

\* A poll never sleeps over a change: one that waits has read everything committed, or
\* a wake has reached it or is due, unless a cancelled commit took its wake with it.
NoSleepOver == \A r \in Readers :
  pc[r] = "waiting" /\ ~woken[r] /\ wakes = 0 /\ ~dropped => Wanted(r, from[r]) = {}

\* Wakes lost, answers lost, horizons passed: a follower shows every change in the end.
CatchesUp == \A r \in Readers :
  (pc[r] # "away" /\ Behind(r) # {}) ~> (Behind(r) = {} /\ unread[r] = {})

Log == INSTANCE ChangeLog WITH log <- history, pos <- cursor, owed <- unread

\* The table that forgets, its long polls and its pages implement the endless log.
FollowsLog == Log!Spec

-----------------------------------------------------------------------------
(* The inductive invariant behind the safety properties. *)

\* A row is the change of its cursor.
RowsTrue == \A c \in change : c.subject = history[c.cursor]

\* Every change above the horizon has its row.
RowsKept == \A i \in prunedThrough + 1 .. Len(history) : \E c \in change : c.cursor = i

\* A request has told everything between the client's cursor and its own, and its
\* answer tells the rest up to the cursor it carries.
Follows(r) ==
  /\ pc[r] \in Subscribed \cup {"answered", "expired"} => unread[r] = {}
  /\ pc[r] \in Subscribed =>
       cursor[r] <= from[r] /\ Log!Told(r, cursor[r], from[r]) = {}
  /\ pc[r] \in {"answered", "expired"} => cursor[r] <= page[r].cursor
  /\ pc[r] = "answered" => page[r].subjects = Log!Told(r, cursor[r], page[r].cursor)
  /\ pc[r] = "expired" => page[r].subjects = Wants[r]

\* A list that was read shows everything the cursor has passed.
Covers(r) == pc[r] # "away" => \A i \in Behind(r) : i > cursor[r]

\* What a request found empty stays empty until a wake is due.
StaysEmpty(r) ==
  pc[r] \in {"empty", "waiting"} /\ ~woken[r] /\ wakes = 0 /\ ~dropped
    => Wanted(r, from[r]) = {}

FeedInv ==
  /\ TypeOK
  /\ RowsTrue /\ RowsKept
  /\ \A r \in Readers : Follows(r) /\ Covers(r) /\ StaysEmpty(r)
=============================================================================
