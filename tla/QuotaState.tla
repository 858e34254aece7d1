---------------------------- MODULE QuotaState -----------------------------
(***************************************************************************)
(* What metered-usage keeps of a gateway's credentials and of the quota    *)
(* evidence in their traffic: src/quota/{mod,credential,recovery,response, *)
(* sign_in}.rs.                                                            *)
(*                                                                         *)
(* Three tasks read the gateway's credential list and store it, each in    *)
(* its own transaction and with no lock between them: the sync loop, a     *)
(* batch that brought a new credential, and a hard refresh.  The loop then *)
(* tries every expired sign-in again, after a deadline kept in the         *)
(* database.  Usage records of a Meta credential arrive late and out of    *)
(* order, and say whether its subscription was exhausted.                  *)
(*                                                                         *)
(* Simplified: one source; every credential is one that its provider can   *)
(* hard refresh and recover automatically; a listed entry is on or off     *)
(* (disabled) and its other fields follow the same update.  Instants count *)
(* intervals of the loop.  After MaxTime the clock stands and only the     *)
(* recovery deadlines, kept as the time left, go on: the gateway is not    *)
(* changed then, so no later stamp could tell two listings apart.          *)
(***************************************************************************)
EXTENDS Naturals, FiniteSets, FiniteSetsExt

CONSTANTS
  Accounts,      \* credentials of the source
  MetaAccount,   \* the one whose responses are read for exhaustion
  Records,       \* usage records of MetaAccount: [at, failed, resets]
  InitialDelay,  \* INITIAL_DELAY, 180 s
  MaxDelay,      \* MAX_DELAY, 6 h
  MaxAttempts,   \* MAX_ATTEMPTS, 8
  Syncers,       \* the tasks that read lists: "loop", "ingest", "refresh"
  None,          \* a null column
  MaxTime,       \* bound: the last instant of the clock
  MaxMoves,      \* bound: changes at the gateway
  MaxFaults      \* bound: failed or partial reads and restarts

\* The rows of credential_state, and the meta-subscription window
CredentialRow == [soft : 0..MaxTime, removed : 0..MaxTime \cup {None}, off : BOOLEAN,
                  signIn : BOOLEAN]
MarkerRow == [at : 0..MaxTime, resets : {r.resets : r \in Records}]

ASSUME QuotaStateAssumption ==
  /\ None \notin CredentialRow \cup MarkerRow
  /\ MetaAccount \in Accounts
  /\ Syncers \subseteq {"loop", "ingest", "refresh"}
  /\ Records \subseteq [at : Nat, failed : BOOLEAN, resets : Nat]
  /\ {InitialDelay, MaxDelay, MaxAttempts, MaxTime, MaxMoves, MaxFaults} \subseteq Nat
  /\ InitialDelay >= 1 /\ MaxDelay >= InitialDelay

Entries == {"on", "off", "gone"}

VARIABLES
  now,         \* the clock
  gateway,     \* per credential its entry in the list, and whether its sign-in is valid
  listing,     \* per syncer the list it read and has not stored
  credential,  \* credential_state
  recovery,    \* quota_recovery, with the time left instead of next_attempt_at
  loop,        \* the sync loop: syncing or recovering
  expired,     \* the accounts recover_expired has still to try
  job,         \* the hard refresh that holds manual_reset_lock
  marker,      \* the meta-subscription window
  arrived,     \* the records ingested
  latest,      \* history: the newest instant of a stored list, and whom lists of it named
  moves,       \* gateway changes so far
  faults       \* faults so far

vars == <<now, gateway, listing, credential, recovery, loop, expired, job, marker,
          arrived, latest, moves, faults>>

Lists == [at : 0..MaxTime, named : UNION {[S -> {"on", "off"}] : S \in SUBSET Accounts},
          whole : BOOLEAN]
Jobs == [at : {"idle", "list", "fetch", "record"}, account : Accounts \cup {None},
         automatic : BOOLEAN, result : {None, "ok", "expired", "failed"}]
Idle == [at |-> "idle", account |-> None, automatic |-> FALSE, result |-> None]

Init ==
  /\ now = 0
  /\ gateway = [a \in Accounts |-> [entry |-> "on", valid |-> TRUE]]
  /\ listing = [s \in Syncers |-> None]
  /\ credential = [a \in Accounts |-> None]
  /\ recovery = [a \in Accounts |-> None]
  /\ loop = "sync" /\ expired = {} /\ job = Idle
  /\ marker = None /\ arrived = {}
  /\ latest = [at |-> 0, named |-> {}]
  /\ moves = 0 /\ faults = 0

-----------------------------------------------------------------------------
(* The credential list. *)

Listed == {a \in Accounts : gateway[a].entry # "gone"}

Reads(s) ==
  CASE s = "loop" -> loop = "sync"
    [] s = "refresh" -> job.at = "list"
    [] OTHER -> TRUE

\* auth_files(): the gateway stamps the list when it reads its own state.
ReadWhole(s) ==
  /\ Reads(s) /\ listing[s] = None
  /\ listing' = [listing EXCEPT ![s] =
       [at |-> now, named |-> [a \in Listed |-> gateway[a].entry], whole |-> TRUE]]
  /\ UNCHANGED <<now, gateway, credential, recovery, loop, expired, job, marker, arrived,
                 latest, moves, faults>>

\* An entry that cannot be read, or that has no auth_index, makes the list partial.
ReadPartly(s) ==
  /\ Reads(s) /\ listing[s] = None /\ faults < MaxFaults
  /\ \E skipped \in Listed :
       listing' = [listing EXCEPT ![s] =
         [at |-> now, named |-> [a \in Listed \ {skipped} |-> gateway[a].entry],
          whole |-> FALSE]]
  /\ faults' = faults + 1
  /\ UNCHANGED <<now, gateway, credential, recovery, loop, expired, job, marker, arrived,
                 latest, moves>>

\* Mutant of Observe: a credential that comes back stays marked.
ObserveStillRemoved(c, entry, at) ==
  IF c = None THEN [soft |-> at, removed |-> None, off |-> entry = "off", signIn |-> FALSE]
  ELSE IF at >= c.soft THEN [c EXCEPT !.soft = at, !.off = (entry = "off")] ELSE c

\* QuotaAccount::observe() of a listed entry
Observe(c, entry, at) ==
  IF c = None THEN [soft |-> at, removed |-> None, off |-> entry = "off", signIn |-> FALSE]
  ELSE IF at >= c.soft
       THEN [c EXCEPT !.soft = at, !.removed = None, !.off = (entry = "off")]
       ELSE c

\* Mutant of MarkUnlisted: the list's instant is not compared.
MarkUnlistedWithoutStamp(c, at) ==
  IF c # None /\ c.removed = None /\ c.soft # at THEN [c EXCEPT !.removed = at] ELSE c

\* QuotaAccount::mark_unlisted()
MarkUnlisted(c, at) ==
  IF c # None /\ c.removed = None /\ c.soft < at THEN [c EXCEPT !.removed = at] ELSE c

\* store(): the entries, then the marks a whole list makes, in one transaction
Stored(list) ==
  LET observed == [a \in Accounts |->
        IF a \in DOMAIN list.named THEN Observe(credential[a], list.named[a], list.at)
        ELSE credential[a]]
  IN IF list.whole THEN [a \in Accounts |-> MarkUnlisted(observed[a], list.at)] ELSE observed

\* SignIn::expired()
Expired(creds) ==
  {a \in Accounts : creds[a] # None /\ creds[a].signIn /\ creds[a].removed = None /\ ~creds[a].off}

\* refresh_inner() after store(): the asked account is a target only if the list named it.
Targeted(list) ==
  IF job.account \in DOMAIN list.named THEN [job EXCEPT !.at = "fetch"] ELSE Idle

StoreList(s) ==
  /\ listing[s] # None
  /\ LET list == listing[s]
     IN /\ credential' = Stored(list)
        /\ latest' = IF list.at > latest.at THEN [at |-> list.at, named |-> DOMAIN list.named]
                     ELSE IF list.at = latest.at
                     THEN [latest EXCEPT !.named = @ \cup DOMAIN list.named]
                     ELSE latest
        /\ job' = IF s = "refresh" THEN Targeted(list) ELSE job
  /\ IF s = "loop" THEN loop' = "recover" /\ expired' = Expired(credential')
                   ELSE UNCHANGED <<loop, expired>>
  /\ listing' = [listing EXCEPT ![s] = None]
  /\ UNCHANGED <<now, gateway, recovery, marker, arrived, moves, faults>>

\* The gateway does not answer, or the transaction fails.
ListFails(s) ==
  /\ Reads(s) /\ faults < MaxFaults
  /\ listing' = [listing EXCEPT ![s] = None]
  /\ IF s = "loop" THEN loop' = "recover" /\ expired' = Expired(credential)
                   ELSE UNCHANGED <<loop, expired>>
  /\ job' = IF s = "refresh" THEN Idle ELSE job
  /\ faults' = faults + 1
  /\ UNCHANGED <<now, gateway, credential, recovery, marker, arrived, latest, moves>>

-----------------------------------------------------------------------------
(* Recovery::claim_due() and the refreshes. *)

Delay(attempts) == Min({InitialDelay * 2 ^ attempts, MaxDelay})

\* Mutant of Reserve: every check writes the initial delay again.
ReserveAgain(r) ==
  [attempts |-> IF r = None THEN 0 ELSE r.attempts, left |-> InitialDelay]

\* One reservation: the row of a first failure waits the initial delay.
Reserve(r) == IF r = None THEN [attempts |-> 0, left |-> InitialDelay] ELSE r

Backoff(r) ==
  LET attempts == Min({r.attempts + 1, MaxAttempts})
  IN [attempts |-> attempts, left |-> Delay(attempts)]

\* Not eligible any more, or not due: automatic_recovery() answers 204 at once.
NotDue(a) ==
  /\ loop = "recover" /\ a \in expired
  /\ a \notin Expired(credential) \/ Reserve(recovery[a]).left > 0
  /\ recovery' = IF a \in Expired(credential)
                 THEN [recovery EXCEPT ![a] = Reserve(@)] ELSE recovery
  /\ expired' = expired \ {a}
  /\ UNCHANGED <<now, gateway, listing, credential, loop, job, marker, arrived, latest,
                 moves, faults>>

\* The deadline is moved before the attempt, which then asks for the lock.
ClaimDue(a) ==
  /\ loop = "recover" /\ a \in expired /\ job = Idle
  /\ a \in Expired(credential) /\ Reserve(recovery[a]).left = 0
  /\ recovery' = [recovery EXCEPT ![a] = Backoff(Reserve(@))]
  /\ expired' = expired \ {a}
  /\ job' = [Idle EXCEPT !.at = "list", !.account = a, !.automatic = TRUE]
  /\ UNCHANGED <<now, gateway, listing, credential, loop, marker, arrived, latest, moves, faults>>

\* recover_expired() awaits each attempt, and the loop goes round.
EndRecovery ==
  /\ loop = "recover" /\ expired = {} /\ ~job.automatic
  /\ loop' = "sync"
  /\ UNCHANGED <<now, gateway, listing, credential, recovery, expired, job, marker, arrived,
                 latest, moves, faults>>

\* A person's hard refresh of one account.
Ask(a) ==
  /\ job = Idle /\ credential[a] # None
  /\ job' = [Idle EXCEPT !.at = "list", !.account = a]
  /\ UNCHANGED <<now, gateway, listing, credential, recovery, loop, expired, marker, arrived,
                 latest, moves, faults>>

\* provider.fetch(): what the provider says of the sign-in, or no answer
Fetch ==
  /\ job.at = "fetch"
  /\ \/ /\ job' = [job EXCEPT !.at = "record",
                              !.result = IF gateway[job.account].valid THEN "ok" ELSE "expired"]
        /\ UNCHANGED faults
     \/ /\ faults < MaxFaults /\ faults' = faults + 1
        /\ job' = [job EXCEPT !.at = "record", !.result = "failed"]
  /\ UNCHANGED <<now, gateway, listing, credential, recovery, loop, expired, marker, arrived,
                 latest, moves>>

\* QuotaAccount::refreshed(): only a read clears the error, only an expiry sets it.
Refreshed(c, result) ==
  [c EXCEPT !.signIn = IF result = "ok" THEN FALSE ELSE @ \/ result = "expired"]

\* QuotaWindow::replace() keeps the reserved window.
Replaced(window) == window

Record ==
  /\ job.at = "record"
  /\ credential' = [credential EXCEPT ![job.account] = Refreshed(@, job.result)]
  /\ recovery' = IF job.result = "ok" THEN [recovery EXCEPT ![job.account] = None] ELSE recovery
  /\ marker' = IF job.result = "ok" /\ job.account = MetaAccount THEN Replaced(marker) ELSE marker
  /\ job' = Idle
  /\ UNCHANGED <<now, gateway, listing, loop, expired, arrived, latest, moves, faults>>

-----------------------------------------------------------------------------
(* response.rs *)

\* Mutant of Newer: the usage history is not asked.
NeverNewer(r) == FALSE

\* A success so new that the record says nothing about now.
Newer(r) == \E s \in arrived : ~s.failed /\ s.at > r.at

\* observe(): an exhaustion with a reset still to come, or a success
Evidence(r) ==
  IF (r.failed /\ r.resets <= now) \/ Newer(r) THEN marker
  ELSE IF r.failed
  THEN IF marker = None \/ r.at >= marker.at THEN [at |-> r.at, resets |-> r.resets] ELSE marker
  ELSE IF marker # None /\ marker.at <= r.at THEN None ELSE marker

\* ingest() runs it only for a record it has not stored yet.
Ingest(r) ==
  /\ r \in Records \ arrived /\ r.at <= now
  /\ marker' = Evidence(r)
  /\ arrived' = arrived \cup {r}
  /\ UNCHANGED <<now, gateway, listing, credential, recovery, loop, expired, job, latest,
                 moves, faults>>

\* expire(), each second
Expire ==
  /\ marker # None /\ marker.resets <= now
  /\ marker' = None
  /\ UNCHANGED <<now, gateway, listing, credential, recovery, loop, expired, job, arrived,
                 latest, moves, faults>>

-----------------------------------------------------------------------------
(* The gateway's own changes, the clock and the process. *)

Move(a) ==
  /\ now < MaxTime /\ moves < MaxMoves
  /\ \E entry \in Entries, valid \in BOOLEAN :
       gateway' = [gateway EXCEPT ![a] = [entry |-> entry, valid |-> valid]]
  /\ moves' = moves + 1
  /\ UNCHANGED <<now, listing, credential, recovery, loop, expired, job, marker, arrived,
                 latest, faults>>

Tick ==
  /\ now < MaxTime \/ \E a \in Accounts : recovery[a] # None /\ recovery[a].left > 0
  /\ now' = IF now < MaxTime THEN now + 1 ELSE now
  /\ recovery' = [a \in Accounts |->
       IF recovery[a] # None /\ recovery[a].left > 0
       THEN [recovery[a] EXCEPT !.left = @ - 1] ELSE recovery[a]]
  /\ UNCHANGED <<gateway, listing, credential, loop, expired, job, marker, arrived, latest,
                 moves, faults>>

Restart ==
  /\ faults < MaxFaults
  /\ listing' = [s \in Syncers |-> None]
  /\ loop' = "sync" /\ expired' = {} /\ job' = Idle
  /\ faults' = faults + 1
  /\ UNCHANGED <<now, gateway, credential, recovery, marker, arrived, latest, moves>>

Sync(s) == ReadWhole(s) \/ ReadPartly(s) \/ StoreList(s) \/ ListFails(s)
Recover(a) == NotDue(a) \/ ClaimDue(a)
Refresh == Fetch \/ Record

Next ==
  \/ \E s \in Syncers : Sync(s)
  \/ \E a \in Accounts : Recover(a) \/ Ask(a) \/ Move(a)
  \/ \E r \in Records : Ingest(r)
  \/ Refresh \/ EndRecovery \/ Expire \/ Tick \/ Restart

Spec == Init /\ [][Next]_vars

\* Every task goes on, each list that was read is stored, and time passes.  Nothing makes
\* a person ask, a record arrive or the gateway change.
Fairness ==
  /\ WF_vars(Sync("loop")) /\ WF_vars(Sync("refresh"))
  /\ \A s \in Syncers : WF_vars(StoreList(s))
  /\ \A a \in Accounts : WF_vars(NotDue(a)) /\ SF_vars(ClaimDue(a))
  /\ WF_vars(EndRecovery) /\ WF_vars(Refresh) /\ WF_vars(Tick)

FairSpec == Spec /\ Fairness

-----------------------------------------------------------------------------

\* The rows and what is on its way to them
RowsOK ==
  /\ now \in 0..MaxTime
  /\ gateway \in [Accounts -> [entry : Entries, valid : BOOLEAN]]
  /\ listing \in [Syncers -> Lists \cup {None}]
  /\ credential \in [Accounts -> CredentialRow \cup {None}]
  /\ latest \in [at : 0..MaxTime, named : SUBSET Accounts]
  /\ job \in Jobs
  /\ job.at \in {"fetch", "record"} => job.account \in Accounts /\ credential[job.account] # None

TypeOK ==
  /\ RowsOK
  /\ recovery \in [Accounts -> {None} \cup [attempts : 0..MaxAttempts, left : 0..MaxDelay]]
  /\ loop \in {"sync", "recover"} /\ expired \subseteq Accounts
  /\ marker \in MarkerRow \cup {None} /\ arrived \subseteq Records
  /\ moves \in 0..MaxMoves /\ faults \in 0..MaxFaults

(***************************************************************************)
(* Lists are stored in any order.  A credential that the newest stored     *)
(* list names is never marked removed, whatever older list is stored after *)
(* it: observe() and mark_unlisted() compare the list's own instant.       *)
(***************************************************************************)
NamedIsListed == \A a \in latest.named : credential[a] # None /\ credential[a].removed = None

(***************************************************************************)
(* Once every list read has been stored, the loop brings the database to   *)
(* what the gateway lists: who is there, and who is turned off.            *)
(***************************************************************************)
AsGateway(a) ==
  IF gateway[a].entry = "gone" THEN credential[a] # None => credential[a].removed # None
  ELSE /\ credential[a] # None /\ credential[a].removed = None
       /\ credential[a].off = (gateway[a].entry = "off")

ListingSettles == <>[](\A a \in Accounts : AsGateway(a))

(***************************************************************************)
(* A sign-in error ends without a person's help once the sign-in is valid  *)
(* again and stays so: the deadlines back off, but no restart, shared      *)
(* failure or repeated check puts one off for ever.                        *)
(***************************************************************************)
ExpiredRecovers ==
  \A a \in Accounts :
    <>[](gateway[a].valid /\ gateway[a].entry = "on")
      => <>[](credential[a] # None /\ ~credential[a].signIn)

(***************************************************************************)
(* Late records neither resurrect an exhaustion nor clear a newer one:     *)
(* whatever the order they were ingested in, and whatever hard refresh     *)
(* came between, the stored marker is what the newest one says.            *)
(***************************************************************************)
EvidenceIsNewest ==
  \A r \in arrived :
    (\A s \in arrived \ {r} : s.at < r.at) =>
      IF r.failed THEN r.resets > now => marker = [at |-> r.at, resets |-> r.resets]
      ELSE marker = None

-----------------------------------------------------------------------------
(* Why they hold, step by step. *)

\* No credential is stamped later than the newest list, and those it named are
\* stamped by it, so that no older list can touch them.
StampsOK ==
  /\ \A a \in Accounts : credential[a] # None => credential[a].soft <= latest.at
  /\ \A a \in latest.named :
       credential[a] # None /\ credential[a].soft = latest.at /\ credential[a].removed = None

\* A marker is an exhaustion some record told.
MarkerOK ==
  /\ arrived \subseteq {r \in Records : r.at <= now}
  /\ marker # None =>
       \E s \in arrived : s.failed /\ marker = [at |-> s.at, resets |-> s.resets]

=============================================================================
