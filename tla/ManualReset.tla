---------------------------- MODULE ManualReset ----------------------------
(***************************************************************************)
(* Spending the manual resets of one account: src/src/quota/manual_reset.rs*)
(* and the hard refreshes of quota/mod.rs that read its grants back.       *)
(*                                                                         *)
(* A reset costs money and the provider cannot tell a repeat from a second *)
(* one.  So spend() commits the removal of the stored grants before it     *)
(* sends, and only a list read from the provider stores grants again.      *)
(*                                                                         *)
(* Abstractions.                                                           *)
(*  - The account is one whose provider spends resets (Codex).  grants is  *)
(*    SUM(remaining) of its unexpired rows, upstream what the provider     *)
(*    would list.                                                          *)
(*  - A request to the provider goes through the gateway and is applied or *)
(*    lost there at any later time, also after its sender is gone.         *)
(*  - Windows, plan and labels of an observation are left out.             *)
(* manual_reset_lock is held from the listing to the record.               *)
(***************************************************************************)
EXTENDS Integers

CONSTANTS
  Workers,   \* workers running an action on the account
  None,      \* nobody holds the lock
  MaxGrants, \* bound on the provider's grants
  MaxBoots   \* bound on process starts

ASSUME ConstantsAssumption ==
  None \notin Workers /\ MaxGrants \in Nat /\ MaxBoots \in Nat \ {0}

VARIABLES
  boot,     \* process starts
  pc,       \* where each worker is
  job,      \* "reset", "refresh" (a person's) or "recovery" (automatic)
  lock,     \* manual_reset_lock
  grants,   \* manual_reset: unexpired resets stored for the account
  read,     \* the list a worker's observation reported, or Unchanged
  upstream, \* resets the provider has left
  flight,   \* consuming requests the provider may still apply
  applied,  \* consuming requests the provider applied
  signIn,   \* credential_state.sign_in_error is set
  licensed, \* history: a list was stored since the last consuming request
  sent      \* history: consuming requests sent

provider == <<upstream, flight, applied>>
history == <<licensed, sent>>
vars == <<boot, pc, job, lock, grants, read, upstream, flight, applied, signIn,
          licensed, sent>>

Jobs == {"reset", "refresh", "recovery"}
Unchanged == -1
Failed == -2
Places == {"idle", "waiting", "locked", "listed", "counted", "cleared", "sent",
           "reading", "fetched", "done", "lost"}

\* The worker is between the listing and the record, where it holds the lock.
Holds(w) == pc[w] \in {"locked", "listed", "counted", "cleared", "sent", "reading", "fetched"}

Moved(w, to) == pc' = [pc EXCEPT ![w] = to]

\* The worker answers and drops its guard.
Leaves(w) == Moved(w, "done") /\ lock' = None

-----------------------------------------------------------------------------
(* Both operations: lock, then read the credential list *)

\* A person asks, or recovery finds the sign-in expired.
Ask(w) ==
  /\ pc[w] = "idle"
  /\ \E j \in Jobs :
       /\ j = "recovery" => signIn
       /\ job' = [job EXCEPT ![w] = j]
  /\ Moved(w, "waiting")
  /\ UNCHANGED <<boot, lock, grants, read, provider, signIn, history>>

Lock(w) ==
  /\ pc[w] = "waiting" /\ lock = None
  /\ lock' = w
  /\ Moved(w, "locked")
  /\ UNCHANGED <<boot, job, grants, read, provider, signIn, history>>

\* The gateway lists the credential as usable.
List(w) ==
  /\ pc[w] = "locked"
  /\ Moved(w, IF job[w] = "reset" THEN "listed" ELSE "reading")
  /\ UNCHANGED <<boot, job, lock, grants, read, provider, signIn, history>>

\* The gateway is unreachable, or the credential is absent, disabled or of a
\* provider that cannot do this; or the database fails before anything is sent.
Refuse(w) ==
  /\ pc[w] \in {"locked", "listed", "counted", "fetched"}
  /\ Leaves(w)
  /\ UNCHANGED <<boot, job, grants, read, provider, signIn, history>>

-----------------------------------------------------------------------------
(* spend() *)

\* unexpired_count: nothing is sent without a stored grant.
Count(w) ==
  /\ pc[w] = "listed"
  /\ IF grants = 0 THEN Leaves(w) ELSE Moved(w, "counted") /\ UNCHANGED lock
  /\ UNCHANGED <<boot, job, grants, read, provider, signIn, history>>

\* Slip: the transaction that clears the grants would be dropped uncommitted.
ClearRolledBack(w) ==
  /\ pc[w] = "counted"
  /\ Moved(w, "cleared")
  /\ UNCHANGED <<boot, job, lock, grants, read, provider, signIn, history>>

Clear(w) ==
  /\ pc[w] = "counted"
  /\ grants' = 0
  /\ Moved(w, "cleared")
  /\ UNCHANGED <<boot, job, lock, read, provider, signIn, history>>

Send(w) ==
  /\ pc[w] = "cleared"
  /\ flight' = flight \cup {w}
  /\ sent' = sent + 1
  /\ licensed' = FALSE
  /\ Moved(w, "sent")
  /\ UNCHANGED <<boot, job, lock, grants, read, upstream, applied, signIn>>

\* Slip: the quota would be read back by refresh(), which takes the lock itself.
ConfirmThenRefresh(w) ==
  /\ pc[w] = "sent" /\ w \in applied
  /\ Moved(w, "waiting")
  /\ UNCHANGED <<boot, job, lock, grants, read, provider, signIn, history>>

\* The provider said "reset" or "already_redeemed".
Confirm(w) ==
  /\ pc[w] = "sent" /\ w \in applied
  /\ Moved(w, "reading")
  /\ UNCHANGED <<boot, job, lock, grants, read, provider, signIn, history>>

\* Slip: an unknown outcome would hand the worker's grants back.
OutcomeUnknownRestores(w) ==
  /\ pc[w] = "sent"
  /\ Leaves(w)
  /\ grants' = 1
  /\ UNCHANGED <<boot, job, read, provider, signIn, history>>

\* Any other answer, a timeout or an unreachable gateway: OutcomeUnknown.
OutcomeUnknown(w) ==
  /\ pc[w] = "sent"
  /\ Leaves(w)
  /\ UNCHANGED <<boot, job, grants, read, provider, signIn, history>>

-----------------------------------------------------------------------------
(* fetch() and record() *)

\* The observation: quota with the grant list or without it, or an error.
Fetch(w) ==
  /\ pc[w] = "reading"
  /\ \E answer \in {upstream, Unchanged, Failed} : read' = [read EXCEPT ![w] = answer]
  /\ Moved(w, "fetched")
  /\ UNCHANGED <<boot, job, lock, grants, provider, signIn, history>>

\* Slip: an observation without a list would be stored like one with it.
RecordUnchanged(w) ==
  /\ pc[w] = "fetched"
  /\ IF read[w] = Failed THEN signIn' \in {signIn, TRUE} ELSE signIn' = FALSE
  /\ IF read[w] # Failed THEN grants' = read[w] /\ licensed' = TRUE
                          ELSE UNCHANGED <<grants, licensed>>
  /\ Leaves(w)
  /\ UNCHANGED <<boot, job, read, provider, sent>>

\* Stores it: a success clears the sign-in error, a reported list replaces the
\* grants, and a failure may be the news that the sign-in expired.
Record(w) ==
  /\ pc[w] = "fetched"
  /\ IF read[w] = Failed THEN signIn' \in {signIn, TRUE} ELSE signIn' = FALSE
  /\ IF read[w] >= 0 THEN grants' = read[w] /\ licensed' = TRUE
                     ELSE UNCHANGED <<grants, licensed>>
  /\ Leaves(w)
  /\ UNCHANGED <<boot, job, read, provider, sent>>

-----------------------------------------------------------------------------
(* The provider, time and restarts *)

Apply(w) ==
  /\ w \in flight
  /\ flight' = flight \ {w}
  /\ IF upstream > 0 THEN upstream' = upstream - 1 /\ applied' = applied \cup {w}
                     ELSE UNCHANGED <<upstream, applied>>
  /\ UNCHANGED <<boot, pc, job, lock, grants, read, signIn, history>>

Lose(w) ==
  /\ w \in flight
  /\ flight' = flight \ {w}
  /\ UNCHANGED <<boot, pc, job, lock, grants, read, upstream, applied, signIn, history>>

\* The provider grants a reset.
Grant ==
  /\ upstream < MaxGrants
  /\ upstream' = upstream + 1
  /\ UNCHANGED <<boot, pc, job, lock, grants, read, flight, applied, signIn, history>>

\* A stored grant passes its expiry, and so does the provider's.
Expire ==
  /\ grants > 0
  /\ grants' = grants - 1
  /\ upstream' = IF upstream > 0 THEN upstream - 1 ELSE 0
  /\ UNCHANGED <<boot, pc, job, lock, read, flight, applied, signIn, history>>

Restart ==
  /\ boot < MaxBoots
  /\ boot' = boot + 1
  /\ pc' = [w \in Workers |-> IF pc[w] \in {"idle", "done"} THEN pc[w] ELSE "lost"]
  /\ lock' = None
  /\ UNCHANGED <<job, grants, read, provider, signIn, history>>

Init ==
  /\ boot = 1
  /\ pc = [w \in Workers |-> "idle"]
  /\ job = [w \in Workers |-> "refresh"]
  /\ lock = None
  /\ upstream \in 0 .. MaxGrants
  /\ grants = 0
  /\ read = [w \in Workers |-> Unchanged]
  /\ flight = {} /\ applied = {}
  /\ signIn \in BOOLEAN
  /\ licensed = FALSE /\ sent = 0

Spends(w) == Count(w) \/ Clear(w) \/ Send(w) \/ Confirm(w) \/ OutcomeUnknown(w)

Next ==
  \/ \E w \in Workers :
       \/ Ask(w) \/ Lock(w) \/ List(w) \/ Refuse(w) \/ Spends(w)
       \/ Fetch(w) \/ Record(w) \/ Apply(w) \/ Lose(w)
  \/ Grant \/ Expire \/ Restart

Spec == Init /\ [][Next]_vars

\* A step of a worker that holds the lock.
Works(w) == List(w) \/ Spends(w) \/ Fetch(w) \/ Record(w)

(***************************************************************************)
(* tokio's mutex is FIFO, so a waiter gets it; calls to the gateway have a *)
(* timeout, so a holder steps on.                                          *)
(***************************************************************************)
Fairness == \A w \in Workers : SF_vars(Lock(w)) /\ WF_vars(Works(w))

FairSpec == Spec /\ Fairness

-----------------------------------------------------------------------------
(* Properties *)

\* Types of every variable.
TypeOK ==
  /\ boot \in Nat
  /\ pc \in [Workers -> Places]
  /\ job \in [Workers -> Jobs]
  /\ lock \in Workers \cup {None}
  /\ grants \in Nat
  /\ read \in [Workers -> Int]
  /\ upstream \in Nat
  /\ flight \subseteq Workers /\ applied \subseteq Workers
  /\ signIn \in BOOLEAN /\ licensed \in BOOLEAN
  /\ sent \in Nat

\* A reset is sent only on a list read since the last one was sent, across clients,
\* unknown outcomes and restarts (http/api/quota.rs: an unknown outcome blocks another
\* reset until a hard refresh reads the list).
License == INSTANCE ResetLicense WITH licensed <- licensed, sent <- sent
SpendsOnLicense == License!Spec

\* manual_resets stays empty until a provider list is read successfully: no stored
\* grant outlives a request that may have consumed it.
NothingOfferedUnread == ~licensed => grants = 0

\* Every worker that took the lock gives it back, so a reset or a refresh that waits
\* for it ends.
AskedEnds == \A w \in Workers : pc[w] = "waiting" ~> pc[w] \in {"done", "lost"}

-----------------------------------------------------------------------------
(* The inductive invariant behind the licence *)

\* The lock's holder is the only worker between listing and record.
LockHeld == \A w \in Workers : Holds(w) => lock = w

\* A worker about to send holds the licence, and the grants it spends are gone.
SpendersAreLicensed ==
  \A w \in Workers :
    /\ pc[w] \in {"counted", "cleared"} => licensed
    /\ pc[w] = "cleared" => grants = 0

SpendInv == TypeOK /\ LockHeld /\ SpendersAreLicensed /\ NothingOfferedUnread
=============================================================================
