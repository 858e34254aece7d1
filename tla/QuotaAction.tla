---------------------------- MODULE QuotaAction ----------------------------
(***************************************************************************)
(* The journal of human quota actions: src/src/http/quota_action.rs,       *)
(* quota_action_store.rs, quota_action_owner.rs and src/src/quota/reuse.rs.*)
(*                                                                         *)
(* Every POST that refreshes, syncs or resets quota is a worker task that  *)
(* first claims a durable row (or joins one already there), then takes its *)
(* provider family's lock, runs, and writes its result into the row.  A    *)
(* worker outlives its caller.  The row outlives the worker and the        *)
(* process, so a claim also closes rows whose worker is gone.              *)
(*                                                                         *)
(* Abstractions.                                                           *)
(*  - A response is its class: "ok" (2xx), "client" (4xx), "server" (5xx), *)
(*    "interrupted" (503 of a closed row, 500 of a panic), "none" (NULL).  *)
(*  - covers is what the reuse queries read from after_state: the accounts *)
(*    in it, for a refresh or a reset only those whose hard_refreshed_at is *)
(*    not before the row's requested_at.  Disabled accounts are left out.  *)
(*  - Each SQLite write transaction is one step (BEGIN IMMEDIATE holds the *)
(*    only writer); a commit may fail, which rolls the step's rows back.   *)
(*  - Before and after snapshots, request history rows and the change feed *)
(*    are left out.  What a reset spends is in ManualReset.                *)
(* A request slot is used once: Requests bounds the number of requests.    *)
(***************************************************************************)
EXTENDS Integers

CONSTANTS
  Requests,      \* worker tasks, one per HTTP request or recovery attempt
  Accounts,      \* accounts, as scopes name them
  Sources,       \* sources, the scopes of a soft refresh
  All,           \* the scope that names no account or source
  Keys,          \* (credential, Idempotency-Key) pairs
  NoKey,         \* a request without Idempotency-Key
  None,          \* nobody holds the lock
  Scopes,        \* the scopes requested in this instance
  InvalidKinds,  \* kinds for which an invalid request may arrive
  ReuseFor,      \* REUSE_FOR, in ticks
  MaxTime,       \* bound on the clock
  MaxActions,    \* bound on journal rows
  MaxBoots,      \* bound on process starts
  CommitMayFail, \* whether the commit of a claim may fail
  PersistMayFail \* whether the completion of an action may fail to be stored

Kinds == {"soft_refresh", "hard_refresh", "quota_reset", "cooldown_reset"}
Scope == [kind : Kinds, target : Accounts \cup Sources \cup {All}]
Ids == 1 .. MaxActions
NoId == 0

ASSUME ConstantsAssumption ==
  /\ Scopes \subseteq Scope
  /\ \A s \in Scopes :
       /\ s.kind = "soft_refresh" => s.target \in Sources \cup {All}
       /\ s.kind = "hard_refresh" => s.target \in Accounts \cup {All}
       /\ s.kind \in {"quota_reset", "cooldown_reset"} => s.target \in Accounts
  /\ InvalidKinds \subseteq Kinds
  /\ All \notin Accounts \cup Sources
  /\ NoKey \notin Keys /\ None \notin Requests
  /\ ReuseFor \in Nat /\ MaxTime \in Nat \ {0}
  /\ MaxActions \in Nat \ {0} /\ MaxBoots \in Nat \ {0}
  /\ CommitMayFail \in BOOLEAN /\ PersistMayFail \in BOOLEAN

VARIABLES
  now,         \* wall clock, from 1; 0 stands for NULL
  boot,        \* boot_id of the running process
  rows,        \* table quota_action
  last,        \* sqlite_sequence: the newest committed action_id
  keys,        \* table quota_action_key: what each key is bound to
  leases,      \* ActionOwners.leases: who held the lease each entry points to
  undone,      \* ids leased in this process by a claim that did not commit
               \* (history variable)
  family,      \* quota_action_locks: who holds each provider family
  manual,      \* manual_reset_lock: who holds it
  refreshedAt, \* credential_state.hard_refreshed_at of each account
  pc,          \* where each worker is
  req,         \* what each worker was asked
  act,         \* the action each worker claimed or joined
  fresh,       \* whether the worker's claim started the action
  started,     \* when the worker's endpoint began, 0 before
  todo,        \* accounts a running hard refresh has still to fetch
  result,      \* the class of the response the endpoint gave
  reused       \* actions whose observations the run used instead of calling

store == <<rows, last, keys>>
owners == <<leases, undone>>
worker == <<req, act, fresh, started, todo, result, reused>>
vars == <<now, boot, rows, last, keys, leases, undone, family, manual, refreshedAt, pc,
          req, act, fresh, started, todo, result, reused>>

Statuses == {"none", "ok", "client", "server", "interrupted"}
Row == [scope : Scope, at : Nat, boot : Nat, fin : Nat, status : Statuses,
        shared : BOOLEAN, covers : SUBSET Accounts]
Places == {"idle", "arrived", "conflict", "queued", "entered", "working",
           "ended", "waiting", "done", "lost"}

\* The worker holds the lease it got at its claim: it owns its action.
Live(r) == pc[r] \in {"queued", "entered", "working", "ended"}

Exists(i) == i \in 1 .. last
Unfinished(i) == Exists(i) /\ rows[i].fin = 0

-----------------------------------------------------------------------------
(* Claims *)

\* Slip: a worker would own its action only once it holds the family's lock.
AbandonedWhileQueued ==
  {i \in DOMAIN leases : pc[leases[i]] \notin {"entered", "working", "ended"}}

\* Lease entries whose Weak no longer upgrades.
Abandoned == {i \in DOMAIN leases : ~Live(leases[i])}

\* Rows a claim closes first: another boot's, and this boot's abandoned ones.
Orphaned(i) == Unfinished(i) /\ (rows[i].boot # boot \/ i \in Abandoned)

Closed(row) == [row EXCEPT !.fin = now, !.status = "interrupted", !.shared = FALSE]

\* Slip: the closing UPDATE without its finished_at IS NULL.
ClosingFinishedToo ==
  [i \in Ids |-> IF Exists(i) /\ (rows[i].boot # boot \/ i \in Abandoned)
                 THEN Closed(rows[i]) ELSE rows[i]]

AfterClosing == [i \in Ids |-> IF Orphaned(i) THEN Closed(rows[i]) ELSE rows[i]]

Newest(S) == IF S = {} THEN NoId ELSE CHOOSE i \in S : \A j \in S : j <= i

\* Slip: account_id = ?2, which SQL answers NULL for the scope that names none.
PendingBySqlEquals(s) ==
  Newest({i \in Ids : /\ Unfinished(i) /\ ~Orphaned(i) /\ rows[i].scope = s
                      /\ s.target # All})

\* An unfinished action of exactly this scope, once orphans are closed.
Pending(s) == Newest({i \in Ids : Unfinished(i) /\ ~Orphaned(i) /\ rows[i].scope = s})

\* A reset claimed after action i makes what i saw of the target old.
ResetSince(i, target) ==
  \E j \in (i + 1) .. last :
    /\ rows[j].scope.kind = "quota_reset"
    /\ target = All \/ rows[j].scope.target = target

SameTarget(i, s) ==
  \/ rows[i].scope.target = s.target
  \/ rows[i].scope.target = All /\ s.target \in rows[i].covers

\* Slip: the window measured from the request instead of the completion.
AnswersSinceRequested(i, s, t) ==
  /\ Exists(i) /\ ~Unfinished(i)
  /\ rows[i].scope.kind = s.kind
  /\ SameTarget(i, s)
  /\ s.kind = "hard_refresh" => ~ResetSince(i, s.target)
  /\ rows[i].shared /\ rows[i].status # "client"
  /\ rows[i].at >= t - ReuseFor

\* A finished action whose result answers scope s for a request made at t.
Answers(i, s, t) ==
  /\ Exists(i) /\ ~Unfinished(i)
  /\ rows[i].scope.kind = s.kind
  /\ SameTarget(i, s)
  /\ s.kind = "hard_refresh" => ~ResetSince(i, s.target)
  /\ rows[i].shared /\ rows[i].status # "client"
  /\ rows[i].fin >= t - ReuseFor

Saved(s, t) == Newest({i \in Ids : Answers(i, s, t)})

\* Slip: a key whose action was interrupted would be free again.
JoinedUnlessInterrupted(r) ==
  LET s == req[r].scope
      k == req[r].key
  IN IF k \in DOMAIN keys /\ AfterClosing[keys[k].action].status # "interrupted"
     THEN keys[k].action
     ELSE IF Pending(s) # NoId THEN Pending(s)
     ELSE Saved(s, req[r].at)

\* The action a claim joins: its key's, else a pending one, else a recent one.
Joined(r) ==
  LET s == req[r].scope
      k == req[r].key
  IN IF k \in DOMAIN keys THEN keys[k].action
     ELSE IF Pending(s) # NoId THEN Pending(s)
     ELSE Saved(s, req[r].at)

KeyConflicts(r) ==
  req[r].key \in DOMAIN keys /\ keys[req[r].key].scope # req[r].scope

\* Slip: a request without a key would be recorded under the empty one.
BindWithoutKey(r, i) ==
  IF req[r].key \in DOMAIN keys THEN keys
  ELSE [k \in DOMAIN keys \cup {req[r].key} |->
          IF k = req[r].key THEN [scope |-> req[r].scope, action |-> i] ELSE keys[k]]

\* ON CONFLICT DO NOTHING: a bound key keeps its action.
Bind(r, i) ==
  IF req[r].key = NoKey \/ req[r].key \in DOMAIN keys THEN keys
  ELSE [k \in DOMAIN keys \cup {req[r].key} |->
          IF k = req[r].key THEN [scope |-> req[r].scope, action |-> i] ELSE keys[k]]

Forget(L, S) == [i \in DOMAIN L \ S |-> L[i]]
Lease(i, r) == [j \in DOMAIN leases \cup {i} |-> IF j = i THEN r ELSE leases[j]]

Moved(r, to) == pc' = [pc EXCEPT ![r] = to]
Take(r, i, isFresh) ==
  /\ act' = [act EXCEPT ![r] = i]
  /\ fresh' = [fresh EXCEPT ![r] = isFresh]

\* A validated request reaches the claim with the instant it was requested at.
Arrive(r) ==
  /\ pc[r] = "idle"
  /\ \E s \in Scopes, k \in Keys \cup {NoKey} :
       req' = [req EXCEPT ![r] = [scope |-> s, key |-> k, at |-> now]]
  /\ Moved(r, "arrived")
  /\ UNCHANGED <<now, boot, store, owners, family, manual, refreshedAt,
                 act, fresh, started, todo, result, reused>>

\* The journal row of a refused request: no scope, finished, never shared.
AppendRejected(kind) ==
  /\ last < MaxActions
  /\ last' = last + 1
  /\ rows' = [rows EXCEPT ![last + 1] =
                [scope |-> [kind |-> kind, target |-> All], at |-> now, boot |-> 0,
                 fin |-> now, status |-> "client", shared |-> FALSE, covers |-> {}]]
  /\ UNCHANGED keys

RejectInvalid(r) ==
  /\ pc[r] = "idle"
  /\ \E kind \in InvalidKinds : AppendRejected(kind)
  /\ Moved(r, "done")
  /\ UNCHANGED <<now, boot, owners, family, manual, refreshedAt, worker>>

\* Slip: the conflict's early return would forget the abandoned leases as well.
ClaimConflictForgets(r) ==
  /\ pc[r] = "arrived" /\ KeyConflicts(r)
  /\ leases' = Forget(leases, Abandoned)
  /\ Moved(r, "conflict")
  /\ UNCHANGED <<now, boot, store, undone, family, manual, refreshedAt, worker>>

\* The claim of a key bound to another scope rolls back, its closings included.
ClaimConflict(r) ==
  /\ pc[r] = "arrived" /\ KeyConflicts(r)
  /\ Moved(r, "conflict")
  /\ UNCHANGED <<now, boot, store, owners, family, manual, refreshedAt, worker>>

RejectConflict(r) ==
  /\ pc[r] = "conflict"
  /\ AppendRejected(req[r].scope.kind)
  /\ Moved(r, "done")
  /\ UNCHANGED <<now, boot, owners, family, manual, refreshedAt, worker>>

ClaimReused(r) ==
  /\ pc[r] = "arrived" /\ ~KeyConflicts(r) /\ Joined(r) # NoId
  /\ rows' = AfterClosing
  /\ keys' = Bind(r, Joined(r))
  /\ leases' = Forget(leases, Abandoned)
  /\ Take(r, Joined(r), FALSE)
  /\ Moved(r, "waiting")
  /\ UNCHANGED <<now, boot, last, undone, family, manual, refreshedAt, req, started, todo,
                 result, reused>>

ClaimFresh(r) ==
  /\ pc[r] = "arrived" /\ ~KeyConflicts(r) /\ Joined(r) = NoId
  /\ last < MaxActions
  /\ last' = last + 1
  /\ rows' = [AfterClosing EXCEPT ![last + 1] =
                [scope |-> req[r].scope, at |-> req[r].at, boot |-> boot, fin |-> 0,
                 status |-> "none", shared |-> TRUE, covers |-> {}]]
  /\ keys' = Bind(r, last + 1)
  /\ leases' = Forget(Lease(last + 1, r), Abandoned)
  /\ Take(r, last + 1, TRUE)
  /\ Moved(r, "queued")
  /\ UNCHANGED <<now, boot, undone, family, manual, refreshedAt, req, started, todo,
                 result, reused>>

\* A write or the commit fails.  A fresh claim has entered its lease by the commit;
\* the returned error drops it, and the rolled back action_id will be given out again.
ClaimFails(r) ==
  /\ CommitMayFail
  /\ pc[r] = "arrived" /\ ~KeyConflicts(r)
  /\ \/ UNCHANGED owners
     \/ /\ Joined(r) = NoId /\ last < MaxActions
        /\ leases' = Lease(last + 1, r)
        /\ undone' = undone \cup {last + 1}
  /\ Moved(r, "done")
  /\ UNCHANGED <<now, boot, store, family, manual, refreshedAt, worker>>

-----------------------------------------------------------------------------
(* Execution, under the family's lock *)

Family(kind) ==
  IF kind = "soft_refresh" THEN 0 ELSE IF kind = "cooldown_reset" THEN 1 ELSE 2
KindOf(r) == req[r].scope.kind
TargetOf(r) == req[r].scope.target

Enter(r) ==
  /\ pc[r] = "queued" /\ family[Family(KindOf(r))] = None
  /\ family' = [family EXCEPT ![Family(KindOf(r))] = r]
  /\ started' = [started EXCEPT ![r] = now]
  /\ Moved(r, "entered")
  /\ UNCHANGED <<now, boot, store, owners, manual, refreshedAt, req, act, fresh, todo,
                 result, reused>>

\* An observation of account a that a run started at t may use instead of a call.
Observes(i, kind, a, t) ==
  /\ Exists(i)
  /\ rows[i].shared /\ rows[i].status # "none" /\ rows[i].fin >= t - ReuseFor
  /\ \/ rows[i].scope.kind = kind
     \/ kind = "hard_refresh" /\ rows[i].scope.kind = "quota_reset"
  /\ a \in rows[i].covers
  /\ kind = "hard_refresh" => ~ResetSince(i, a)

Recent(kind, a, t) == Newest({i \in Ids : Observes(i, kind, a, t)})

\* Slip: an endpoint that fails would keep manual_reset_lock.
EndsKeepingManual(r, status) ==
  /\ result' = [result EXCEPT ![r] = status]
  /\ Moved(r, "ended")
  /\ manual' = IF manual = r /\ status = "ok" THEN None ELSE manual

\* The endpoint answers, or panics and is caught: its locks but the family's go.
Ends(r, status) ==
  /\ result' = [result EXCEPT ![r] = status]
  /\ Moved(r, "ended")
  /\ manual' = IF manual = r THEN None ELSE manual

\* Only what the scope names, an account or a source, can be refused with a 4xx.
Fails(r) ==
  /\ pc[r] \in {"entered", "working"}
  /\ \/ Ends(r, "server")
     \/ Ends(r, "interrupted")
     \/ pc[r] = "entered" /\ TargetOf(r) # All /\ Ends(r, "client")
  /\ todo' = [todo EXCEPT ![r] = {}]
  /\ UNCHANGED <<now, boot, store, owners, family, refreshedAt, req, act, fresh, started, reused>>

SoftRefresh(r) ==
  /\ pc[r] = "entered" /\ KindOf(r) = "soft_refresh"
  /\ Ends(r, "ok")
  /\ UNCHANGED <<now, boot, store, owners, family, refreshedAt, req, act, fresh,
                 started, todo, reused>>

\* refresh_inner: under manual_reset_lock, skip what was just observed.
StartRefresh(r) ==
  /\ pc[r] = "entered" /\ KindOf(r) = "hard_refresh" /\ manual = None
  /\ manual' = r
  /\ \E targets \in IF TargetOf(r) = All THEN SUBSET Accounts ELSE {{TargetOf(r)}} :
       LET skipped == {a \in targets : Recent("hard_refresh", a, started[r]) # NoId}
       IN /\ todo' = [todo EXCEPT ![r] = targets \ skipped]
          /\ reused' = [reused EXCEPT ![r] =
                          {Recent("hard_refresh", a, started[r]) : a \in skipped}]
  /\ Moved(r, "working")
  /\ UNCHANGED <<now, boot, store, owners, family, refreshedAt, req, act, fresh, started, result>>

\* record(): a provider that reports its grants closes the account's open resets.
Reconciled(a) ==
  [i \in Ids |-> IF Unfinished(i) /\ rows[i].scope = [kind |-> "quota_reset", target |-> a]
                 THEN [rows[i] EXCEPT !.fin = now, !.shared = FALSE]
                 ELSE rows[i]]

Fetch(r) ==
  /\ pc[r] = "working" /\ KindOf(r) = "hard_refresh"
  /\ \E a \in todo[r] :
       /\ todo' = [todo EXCEPT ![r] = @ \ {a}]
       /\ refreshedAt' = [refreshedAt EXCEPT ![a] = now]
       /\ rows' = Reconciled(a) \/ UNCHANGED rows
  /\ UNCHANGED <<now, boot, last, keys, owners, family, manual, pc, req, act, fresh,
                 started, result, reused>>

EndRefresh(r) ==
  /\ pc[r] = "working" /\ KindOf(r) = "hard_refresh" /\ todo[r] = {}
  /\ Ends(r, "ok")
  /\ UNCHANGED <<now, boot, store, owners, family, refreshedAt, req, act, fresh,
                 started, todo, reused>>

StartReset(r) ==
  /\ pc[r] = "entered" /\ KindOf(r) \in {"quota_reset", "cooldown_reset"} /\ manual = None
  /\ manual' = r
  /\ Moved(r, "working")
  /\ UNCHANGED <<now, boot, store, owners, family, refreshedAt, worker>>

\* The provider confirmed the reset; the follow-up observation is recorded.
QuotaReset(r) ==
  /\ pc[r] = "working" /\ KindOf(r) = "quota_reset"
  /\ refreshedAt' = [refreshedAt EXCEPT ![TargetOf(r)] = now]
  /\ Ends(r, "ok")
  /\ UNCHANGED <<now, boot, store, owners, family, req, act, fresh, started, todo, reused>>

\* Clears the gateway's cooldown unless a recent action did; an account that is
\* not listed is refused.
CooldownReset(r) ==
  /\ pc[r] = "working" /\ KindOf(r) = "cooldown_reset"
  /\ \/ /\ Recent("cooldown_reset", TargetOf(r), started[r]) # NoId
        /\ reused' = [reused EXCEPT ![r] = {Recent("cooldown_reset", TargetOf(r), started[r])}]
        /\ Ends(r, "ok")
     \/ /\ Recent("cooldown_reset", TargetOf(r), started[r]) = NoId
        /\ Ends(r, "ok") /\ UNCHANGED reused
     \/ Ends(r, "client") /\ UNCHANGED reused
  /\ UNCHANGED <<now, boot, store, owners, family, refreshedAt, req, act, fresh, started,
                 todo>>

-----------------------------------------------------------------------------
(* Completion, replay, time and restarts *)

\* The worker's future is dropped with everything it held.
Gone(r) ==
  /\ Moved(r, "done")
  /\ started' = [started EXCEPT ![r] = 0]
  /\ result' = [result EXCEPT ![r] = "none"]
  /\ reused' = [reused EXCEPT ![r] = {}]

Release(r) == family' = [family EXCEPT ![Family(KindOf(r))] = None]

\* The accounts a list read now shows as covered by the worker's action: observed
\* since it was requested, except that a cooldown reset observes no quota.
Covered(r) ==
  {a \in Accounts : KindOf(r) = "cooldown_reset" \/ refreshedAt[a] >= req[r].at}

\* Those the row shows: the after snapshot lists the action's scope.  When it is
\* missing the saved response stands in, which lists every account if it is a 200.
Shown(r) ==
  {{a \in Covered(r) : TargetOf(r) \in {a, All}},
   IF result[r] = "ok" THEN Covered(r) ELSE {}}

\* The result is stored over whatever the row says.
Complete(r) ==
  /\ pc[r] = "ended"
  /\ \E seen \in Shown(r) :
       rows' = [rows EXCEPT ![act[r]] =
                 [rows[act[r]] EXCEPT
                    !.fin = now, !.status = result[r], !.covers = seen,
                    !.shared = rows[act[r]].shared /\ result[r] # "interrupted"]]
  /\ Release(r)
  /\ Gone(r)
  /\ UNCHANGED <<now, boot, last, keys, owners, manual, refreshedAt, req, act, fresh, todo>>

\* Storing the result fails or panics: the worker ends, the row stays open.
CompletionLost(r) ==
  /\ PersistMayFail
  /\ pc[r] = "ended"
  /\ Release(r)
  /\ Gone(r)
  /\ UNCHANGED <<now, boot, store, owners, manual, refreshedAt, req, act, fresh, todo>>

\* A joined caller gets the row's result, or 409 when it holds none.
Replay(r) ==
  /\ pc[r] = "waiting" /\ ~Unfinished(act[r])
  /\ Moved(r, "done")
  /\ UNCHANGED <<now, boot, store, owners, family, manual, refreshedAt, worker>>

\* HTTP_WAIT passed: the joined caller gets 202.
GiveUp(r) ==
  /\ pc[r] = "waiting" /\ Unfinished(act[r])
  /\ Moved(r, "done")
  /\ UNCHANGED <<now, boot, store, owners, family, manual, refreshedAt, worker>>

Tick ==
  /\ now < MaxTime
  /\ now' = now + 1
  /\ UNCHANGED <<boot, store, owners, family, manual, refreshedAt, pc, worker>>

Restart ==
  /\ boot < MaxBoots
  /\ boot' = boot + 1
  /\ leases' = [i \in {} |-> None] /\ undone' = {}
  /\ family' = [f \in 0 .. 2 |-> None]
  /\ manual' = None
  /\ pc' = [r \in Requests |-> IF pc[r] \in {"idle", "done"} THEN pc[r] ELSE "lost"]
  /\ started' = [r \in Requests |-> 0]
  /\ todo' = [r \in Requests |-> {}]
  /\ result' = [r \in Requests |-> "none"]
  /\ reused' = [r \in Requests |-> {}]
  /\ UNCHANGED <<now, store, refreshedAt, req, act, fresh>>

Init ==
  /\ now = 1 /\ boot = 1
  /\ rows = [i \in Ids |-> [scope |-> [kind |-> "soft_refresh", target |-> All],
                            at |-> 0, boot |-> 0, fin |-> 0, status |-> "none",
                            shared |-> FALSE, covers |-> {}]]
  /\ last = 0
  /\ keys = [k \in {} |-> None]
  /\ leases = [i \in {} |-> None] /\ undone = {}
  /\ family = [f \in 0 .. 2 |-> None]
  /\ manual = None
  /\ refreshedAt = [a \in Accounts |-> 0]
  /\ pc = [r \in Requests |-> "idle"]
  /\ req = [r \in Requests |-> [scope |-> [kind |-> "soft_refresh", target |-> All],
                                key |-> NoKey, at |-> 0]]
  /\ act = [r \in Requests |-> NoId]
  /\ fresh = [r \in Requests |-> FALSE]
  /\ started = [r \in Requests |-> 0]
  /\ todo = [r \in Requests |-> {}]
  /\ result = [r \in Requests |-> "none"]
  /\ reused = [r \in Requests |-> {}]

Claim(r) == ClaimConflict(r) \/ ClaimReused(r) \/ ClaimFresh(r) \/ ClaimFails(r)
Run(r) == \/ SoftRefresh(r) \/ StartRefresh(r) \/ Fetch(r) \/ EndRefresh(r)
          \/ StartReset(r) \/ QuotaReset(r) \/ CooldownReset(r) \/ Fails(r)
Finish(r) == Complete(r) \/ CompletionLost(r)

Next ==
  \/ \E r \in Requests :
       \/ Arrive(r) \/ RejectInvalid(r) \/ Claim(r) \/ RejectConflict(r)
       \/ Enter(r) \/ Run(r) \/ Finish(r) \/ Replay(r) \/ GiveUp(r)
  \/ Tick
  \/ Restart

Spec == Init /\ [][Next]_vars

(***************************************************************************)
(* tokio runs every ready task, so a worker that can step does.  Its       *)
(* mutexes are FIFO: a lock released again and again reaches each waiter,  *)
(* hence strong fairness where a step waits for one.  Nothing is assumed   *)
(* of callers, of failures or of the clock.                                *)
(***************************************************************************)
Fairness ==
  \A r \in Requests :
    /\ SF_vars(Enter(r)) /\ SF_vars(StartRefresh(r)) /\ SF_vars(StartReset(r))
    /\ WF_vars(SoftRefresh(r)) /\ WF_vars(Fetch(r)) /\ WF_vars(EndRefresh(r))
    /\ WF_vars(QuotaReset(r)) /\ WF_vars(CooldownReset(r)) /\ WF_vars(Complete(r))

FairSpec == Spec /\ Fairness

-----------------------------------------------------------------------------
(* Properties *)

\* Types of every variable.
TypeOK ==
  /\ now \in Nat \ {0} /\ boot \in Nat \ {0}
  /\ rows \in [Ids -> Row]
  /\ last \in 0 .. MaxActions
  /\ DOMAIN keys \subseteq Keys
  /\ \A k \in DOMAIN keys : keys[k] \in [scope : Scope, action : Ids]
  /\ DOMAIN leases \subseteq Ids
  /\ \A i \in DOMAIN leases : leases[i] \in Requests
  /\ undone \subseteq Ids
  /\ family \in [0 .. 2 -> Requests \cup {None}]
  /\ manual \in Requests \cup {None}
  /\ refreshedAt \in [Accounts -> Nat]
  /\ pc \in [Requests -> Places]
  /\ req \in [Requests -> [scope : Scope, key : Keys \cup {NoKey}, at : Nat]]
  /\ act \in [Requests -> Ids \cup {NoId}]
  /\ fresh \in [Requests -> BOOLEAN]
  /\ started \in [Requests -> Nat]
  /\ todo \in [Requests -> SUBSET Accounts]
  /\ result \in [Requests -> Statuses]
  /\ reused \in [Requests -> SUBSET (Ids \cup {NoId})]

\* The journal never holds two open actions of one scope, whatever failed or
\* restarted: claim() compares complete scopes under the writer lock.
OneOpenActionPerScope ==
  \A i, j \in Ids :
    Unfinished(i) /\ Unfinished(j) /\ rows[i].scope = rows[j].scope => i = j

\* README: concurrent requests for the same scope and action share one call.
\* Two workers never own actions of one scope at once.
SharesOneCall ==
  \A r1, r2 \in Requests :
    Live(r1) /\ Live(r2) /\ req[r1].scope = req[r2].scope => r1 = r2

\* The same for every kind but quota_reset, whose open rows a refresh may close.
SharesOneCallButResets ==
  \A r1, r2 \in Requests :
    Live(r1) /\ Live(r2) /\ req[r1].scope = req[r2].scope
      => r1 = r2 \/ KindOf(r1) = "quota_reset"

\* No claim closes the action of a live worker (quota_action_owner.rs): its row
\* stays open until it ends, or was closed unanswered by a refresh of the account.
LiveOwnsItsRow ==
  \A r \in Requests : Live(r) =>
    /\ fresh[r] /\ Exists(act[r])
    /\ rows[act[r]].boot = boot /\ rows[act[r]].scope = req[r].scope
    /\ \/ Unfinished(act[r])
       \/ /\ KindOf(r) = "quota_reset"
          /\ rows[act[r]].status = "none" /\ ~rows[act[r]].shared

\* The row's worker is there, or a lease entry tells the next claim that it is gone.
Attended(i) == (\E r \in Requests : Live(r) /\ act[r] = i) \/ i \in Abandoned

\* src/README.md:12: "An abandoned worker's action closes so the next request can run."
\* Whatever completions are lost and whichever claims fail, an open row of this process
\* is closed by its worker or by the next claim, with one exception: a row whose id an
\* earlier claim of this process leased and rolled back.  The claim that is given the id
\* again forgets its own entry with the abandoned one, and if its completion is lost too
\* the row stays open for the life of the process (claim() of quota_action_store.rs,
\* forget of ActionOwners).
OnlyReusedIdsStrand ==
  \A i \in Ids : Unfinished(i) /\ rows[i].boot = boot /\ i \notin undone => Attended(i)

\* An unknown result never starts another operation for its Idempotency-Key, and
\* no action is started twice: crashes, lost completions and 409s included.
KeyNeverRunsTwice ==
  \A r1, r2 \in Requests :
    r1 # r2 /\ fresh[r1] /\ fresh[r2] =>
      /\ act[r1] # act[r2]
      /\ req[r1].key = NoKey \/ req[r1].key # req[r2].key

\* A journal row that holds a response keeps it: neither a late completion nor a
\* later claim's closing rewrites what callers were told.
AnswersStand ==
  [][\A i \in Ids : Exists(i) /\ rows[i].status # "none" => rows'[i] = rows[i]]_rows

\* README: recent requests for the same scope and action share one call.  A claim
\* starts no action when one of its scope gave a result within REUSE_FOR, unless a
\* reset was journaled since or a refresh closed that action before it answered.
RecentWorkIsShared ==
  [][\A r \in Requests : ~fresh[r] /\ fresh'[r] =>
       \A i \in Ids :
         /\ Exists(i) /\ rows[i].scope = req[r].scope
         /\ rows[i].status \in {"ok", "server"}
         /\ rows[i].fin + ReuseFor >= req[r].at
         => \/ KindOf(r) = "hard_refresh" /\ ResetSince(i, TargetOf(r))
            \/ KindOf(r) = "quota_reset" /\ ~rows[i].shared]_fresh

\* Every started action finishes: no worker waits forever for a lock.
ActionsFinish == \A i \in Ids : Unfinished(i) ~> ~Unfinished(i)

-----------------------------------------------------------------------------
(* The inductive invariant behind the safety properties *)

\* A worker past validation was asked one of the scopes.
ScopesAreValid ==
  \A r \in Requests : pc[r] \notin {"idle", "done"} => req[r].scope \in Scopes

\* A worker's claim is made once: before it, the worker has started nothing.
StartsOnce ==
  /\ \A r \in Requests : pc[r] \in {"idle", "arrived", "conflict"} => ~fresh[r]
  /\ \A r \in Requests : fresh[r] => Exists(act[r])
  /\ \A r1, r2 \in Requests : fresh[r1] /\ fresh[r2] /\ act[r1] = act[r2] => r1 = r2

\* A lease entry of a live worker's action is that worker's lease.
LeasesAreOwned ==
  \A i \in DOMAIN leases : \A r \in Requests : Live(r) /\ act[r] = i => leases[i] = r

\* An open row holds no response.
OpenRowsAreBlank == \A i \in Ids : Unfinished(i) => rows[i].status = "none"

\* A key of a started action is bound to that action.
KeysFollowActions ==
  \A r \in Requests : fresh[r] /\ req[r].key # NoKey =>
    req[r].key \in DOMAIN keys /\ keys[req[r].key].action = act[r]

JournalInv ==
  /\ TypeOK
  /\ ScopesAreValid
  /\ StartsOnce
  /\ LeasesAreOwned
  /\ OpenRowsAreBlank
  /\ KeysFollowActions
  /\ LiveOwnsItsRow
  /\ OneOpenActionPerScope

\* Only a reset is closed before it answers, and only a refusal or an unknown outcome
\* is kept from others.
AnswersAreShared ==
  \A i \in Ids : Exists(i) /\ ~rows[i].shared =>
    rows[i].scope.kind = "quota_reset" \/ rows[i].status \in {"client", "interrupted"}

\* What keeps rows from being stranded: an entry is for a row of the journal or for an
\* id that was rolled back, and any other open row of this process has its entry.
LeaseInv ==
  /\ DOMAIN leases \subseteq (1 .. last) \cup undone
  /\ \A i \in Ids : rows[i].boot <= boot
  /\ \A i \in Ids : Unfinished(i) /\ rows[i].boot = boot /\ i \notin undone =>
       i \in DOMAIN leases /\ act[leases[i]] = i /\ fresh[leases[i]]
=============================================================================
