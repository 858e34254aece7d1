------------------------------ MODULE Accounts -----------------------------
(***************************************************************************)
(* The accounts of one source, the plans paid for them and what a reader   *)
(* of the change feed knows of both: src/account/{mod,continuation,read}.rs,*)
(* src/plan/mod.rs, src/plan/leverage.rs and src/change/snapshot.rs.       *)
(*                                                                         *)
(* An account is a credential the gateway named.  When a person signs in   *)
(* again the gateway lists a new credential: the old one may be suggested  *)
(* to continue in the new one, may be read as replaced by it when nothing  *)
(* else could be meant, and is joined with it only by an explicit merge.   *)
(* A replacement is computed from the rows each time, so any write may     *)
(* make one appear or go.                                                  *)
(*                                                                         *)
(* Every write is one transaction under the writer lock: it changes the    *)
(* rows and records the subjects that changed.  seen is a reader that      *)
(* reads a subject again when, and only when, it was recorded.             *)
(*                                                                         *)
(* Simplified: one source, provider, sign-in kind and plan type, which     *)
(* every pair therefore shares; a label is a value of Labels, and Like     *)
(* says which are alike but for case and blanks.  Lists are stored in      *)
(* order here; QuotaState has the orders.                                  *)
(***************************************************************************)
EXTENDS Naturals, FiniteSets

CONSTANTS
  Accounts,   \* credentials, by their upstream key
  Plans,      \* plans
  Events,     \* usage events
  LabelsOf,   \* the labels the gateway may give each credential, None for none
  Like,       \* pairs of labels that are alike
  MayBeOff,   \* credentials that the gateway may list as disabled
  None,       \* a null column
  MaxTime,       \* bound: the last instant
  MaxDismissals  \* bound: decisions kept

Labels == (UNION {LabelsOf[a] : a \in Accounts}) \ {None}

\* The rows of `account`
AccountRow == [label : Labels \cup {None}, first : 0..MaxTime, merged : Accounts \cup {None}]

ASSUME AccountsAssumption ==
  /\ IsFiniteSet(Accounts) /\ IsFiniteSet(Plans) /\ IsFiniteSet(Events)
  /\ DOMAIN LabelsOf = Accounts /\ MayBeOff \subseteq Accounts
  /\ Like \subseteq Labels \X Labels
  /\ \A l \in Labels : <<l, l>> \in Like
  /\ \A p \in Like, q \in Like :
       /\ <<p[2], p[1]>> \in Like
       /\ p[2] = q[1] => <<p[1], q[2]>> \in Like
  /\ None \notin Accounts /\ None \notin AccountRow
  /\ MaxTime \in Nat /\ MaxDismissals \in Nat

VARIABLES
  db,     \* the rows: account, credential_state, plan, usage_event.account_id, dismissals
  now,    \* the clock
  seen    \* the reader's copy of each subject

vars == <<db, now, seen>>

Rows == [account : [Accounts -> AccountRow \cup {None}],
         credential : [Accounts -> {None, "on", "off", "removed"}],
         plan : [Plans -> Accounts \cup {None}],
         charged : [Events -> Accounts \cup {None}],
         dismissed : SUBSET {{a, b} : a, b \in Accounts}]

Known(d) == {a \in Accounts : d.account[a] # None}
Unmerged(d) == {a \in Known(d) : d.account[a].merged = None}
HasPlan(d, a) == \E p \in Plans : d.plan[p] = a

-----------------------------------------------------------------------------
(* continuation.rs *)

Alike(d, a, b) ==
  /\ d.account[a].label # None /\ d.account[b].label # None
  /\ <<d.account[a].label, d.account[b].label>> \in Like

\* SELECT: a removed credential with a plan, and a newer listed one without
Continues(d, old, new) ==
  /\ d.credential[old] = "removed" /\ d.credential[new] = "on"
  /\ {old, new} \subseteq Unmerged(d)
  /\ Alike(d, old, new)
  /\ d.account[new].first > d.account[old].first
  /\ HasPlan(d, old) /\ ~HasPlan(d, new)
  /\ {old, new} \notin d.dismissed

\* Mutant of IsReplacement: other credentials under the label do not matter.
IsReplacementOfSome(d, old, new) ==
  Continues(d, old, new) /\ d.account[old].label = d.account[new].label

\* is_replacement: nothing else could be the pair
IsReplacement(d, old, new) ==
  /\ Continues(d, old, new)
  /\ d.account[old].label = d.account[new].label
  /\ ~\E other \in Unmerged(d) \ {old, new} : Alike(d, other, old)

\* Account::replacements()
Replacement(d, a) ==
  IF d.credential[a] # "removed" THEN None
  ELSE LET new == {b \in Accounts : IsReplacement(d, a, b)}
       IN IF new = {} THEN None ELSE CHOOSE b \in new : TRUE

-----------------------------------------------------------------------------
(* snapshot.rs *)

\* ACCOUNTS, with the accounts merged into it, and the replacement
AccountView(d, links, a) ==
  IF d.account[a] = None THEN None
  ELSE [label |-> d.account[a].label, merged |-> d.account[a].merged,
        credential |-> d.credential[a], replaced |-> links[a],
        previous |-> {<<b, d.account[b].label, d.account[b].first>> :
                        b \in {c \in Known(d) : d.account[c].merged = a}}]

\* PLANS
PlanView(d, links, p) ==
  IF d.plan[p] = None THEN None ELSE [account |-> d.plan[p], replaced |-> links[d.plan[p]]]

Subjects == ({"account"} \X Accounts) \cup ({"plan"} \X Plans)

View(d) ==
  LET links == [a \in Accounts |-> Replacement(d, a)]
  IN [s \in Subjects |-> IF s[1] = "account" THEN AccountView(d, links, s[2])
                                            ELSE PlanView(d, links, s[2])]

\* record_changes(): the subjects of the source that read differently
SnapshotChanges(d, e) ==
  LET before == View(d)
      after == View(e)
  IN {s \in Subjects : before[s] # after[s]}

\* record_link_changes(): the replaced accounts whose replacement moved, and their plans now
LinkChanges(d, e) ==
  LET moved == {a \in Accounts : Replacement(d, a) # Replacement(e, a)}
  IN ({"account"} \X moved) \cup ({"plan"} \X {p \in Plans : e.plan[p] \in moved})

\* The transaction commits and the reader reads what it recorded.
Commit(e, changed) ==
  /\ db' = e
  /\ seen' = LET after == View(e)
             IN [s \in Subjects |-> IF s \in changed THEN after[s] ELSE seen[s]]
  /\ UNCHANGED now

-----------------------------------------------------------------------------
(* Records and lists. *)

Least(i, j) == IF i < j THEN i ELSE j

\* The seen window widened to an earlier instant
Widened(row, at) == [row EXCEPT !.first = Least(row.first, at)]

Target(d, a) == IF d.account[a].merged = None THEN a ELSE d.account[a].merged

\* The upsert of resolve() and register(); only traffic widens the seen window.
UpsertRow(row, label, at, widens) ==
  IF row = None THEN [label |-> label, first |-> at, merged |-> None]
  ELSE [label |-> IF label = None THEN row.label ELSE label,
        first |-> IF widens THEN Least(row.first, at) ELSE row.first,
        merged |-> row.merged]

Upsert(d, a, label, at, widens) ==
  [d EXCEPT !.account[a] = UpsertRow(@, label, at, widens)]

\* resolve(), and the event charged to the account it answers
Resolved(d, a, label, at, event) ==
  LET e == Upsert(d, a, label, at, TRUE)
      target == Target(e, a)
  IN [e EXCEPT !.account[target] = Widened(@, at), !.charged[event] = target]

\* ingest() of one record of credential a, which happened at `at`
Ingest(a, event) ==
  /\ db.charged[event] = None
  /\ \E label \in LabelsOf[a], at \in 0..now :
       \E e \in {Resolved(db, a, label, at, event)} : Commit(e, SnapshotChanges(db, e))

\* store(): register() and observe() of each entry [label, status], then the marks
Listed(d, named) ==
  LET known == [a \in Accounts |->
        IF a \in DOMAIN named THEN Upsert(d, a, named[a].label, now, FALSE).account[a]
        ELSE d.account[a]]
      observed(b) == {a \in DOMAIN named : Target([d EXCEPT !.account = known], a) = b}
  IN [d EXCEPT !.account = known,
               !.credential = [b \in Accounts |->
                  IF observed(b) # {} THEN named[CHOOSE a \in observed(b) : TRUE].status
                  ELSE IF d.credential[b] = None THEN None ELSE "removed"]]

\* What the gateway may say of a credential
Entries(a) ==
  [label : LabelsOf[a], status : {"on"} \cup (IF a \in MayBeOff THEN {"off"} ELSE {})]

\* The status of an account is its last entry's; here its entries agree.
Agree(d, named) ==
  \A a, b \in DOMAIN named \cap Known(d) :
    Target(d, a) = Target(d, b) => named[a].status = named[b].status

Store ==
  \E S \in SUBSET Accounts :
    \E named \in {f \in [S -> UNION {Entries(a) : a \in S}] : \A a \in S : f[a] \in Entries(a)} :
      /\ Agree(db, named)
      /\ \E e \in {Listed(db, named)} : Commit(e, SnapshotChanges(db, e))

-----------------------------------------------------------------------------
(* People's writes. *)

\* merge(): the events and plans of a, then its row, those merged into it and b's window
MovedEvents(d, a, b) == [x \in Events |-> IF d.charged[x] = a THEN b ELSE d.charged[x]]
MovedPlans(d, a, b) == [p \in Plans |-> IF d.plan[p] = a THEN b ELSE d.plan[p]]
MergedRows(d, a, b) ==
  [x \in Accounts |->
     IF x = b THEN Widened(d.account[b], d.account[a].first)
     ELSE IF x = a \/ (d.account[x] # None /\ d.account[x].merged = a)
     THEN [d.account[x] EXCEPT !.merged = b]
     ELSE d.account[x]]

\* Mutants of Merged: plans stay; accounts merged before still point at the one merged now.
MergedWithoutPlans(d, a, b) ==
  [d EXCEPT !.charged = MovedEvents(d, a, b), !.account = MergedRows(d, a, b)]

MergedAlone(d, a, b) ==
  [d EXCEPT !.charged = MovedEvents(d, a, b), !.plan = MovedPlans(d, a, b),
            !.account[a].merged = b, !.account[b] = Widened(@, d.account[a].first)]

Merged(d, a, b) ==
  [d EXCEPT !.charged = MovedEvents(d, a, b), !.plan = MovedPlans(d, a, b),
            !.account = MergedRows(d, a, b)]

Merge(a, b) ==
  /\ a # b /\ {a, b} \subseteq Unmerged(db)
  /\ \E e \in {Merged(db, a, b)} : Commit(e, SnapshotChanges(db, e))

\* The merge a suggestion offers: the pair is read again under the lock.
Continue(a, b) == Continues(db, a, b) /\ Merge(a, b)

Dismissable(a, b) == a # b /\ {a, b} \subseteq Unmerged(db)

\* Repeating a decision records nothing.
Dismiss(a, b) ==
  /\ Dismissable(a, b) /\ {a, b} \notin db.dismissed
  /\ Cardinality(db.dismissed) < MaxDismissals
  /\ \E e \in {[db EXCEPT !.dismissed = @ \cup {{a, b}}]} :
       Commit(e, {<<"account", a>>, <<"account", b>>} \cup LinkChanges(db, e))

\* Mutant of PlanChanges: only the plan.
PlanChangesAlone(d, e, p) == {<<"plan", p>>}

\* What create, update and delete record.
PlanChanges(d, e, p) == {<<"plan", p>>} \cup LinkChanges(d, e)

WritePlan(p, a) ==
  \E e \in {[db EXCEPT !.plan[p] = a]} : Commit(e, PlanChanges(db, e, p))

CreatePlan(p, a) == db.plan[p] = None /\ a \in Known(db) /\ WritePlan(p, a)
UpdatePlan(p, a) == db.plan[p] \notin {None, a} /\ a \in Known(db) /\ WritePlan(p, a)
DeletePlan(p) == db.plan[p] # None /\ WritePlan(p, None)

Tick == now < MaxTime /\ now' = now + 1 /\ UNCHANGED <<db, seen>>

Init ==
  /\ db = [account |-> [a \in Accounts |-> None], credential |-> [a \in Accounts |-> None],
           plan |-> [p \in Plans |-> None], charged |-> [x \in Events |-> None],
           dismissed |-> {}]
  /\ now = 0
  /\ seen = [s \in Subjects |-> None]

Next ==
  \/ \E a \in Accounts, event \in Events : Ingest(a, event)
  \/ Store
  \/ \E a, b \in Accounts : Merge(a, b) \/ Continue(a, b) \/ Dismiss(a, b)
  \/ \E p \in Plans : DeletePlan(p) \/ \E a \in Accounts : CreatePlan(p, a) \/ UpdatePlan(p, a)
  \/ Tick

Spec == Init /\ [][Next]_vars

-----------------------------------------------------------------------------

TypeOK ==
  /\ db \in Rows /\ now \in 0..MaxTime
  /\ \A pair \in db.dismissed : Cardinality(pair) = 2
  /\ DOMAIN seen = Subjects

(***************************************************************************)
(* Resolution never follows more than one step: an account that others     *)
(* were merged into is not merged itself, whatever the order of the        *)
(* merges, and no event is charged to a merged account.                    *)
(***************************************************************************)
LinkedInOneStep(d) ==
  /\ \A a \in Known(d) : d.account[a].merged # None => d.account[a].merged \in Unmerged(d)
  /\ \A x \in Events : d.charged[x] # None => d.charged[x] \in Unmerged(d)

OneStep == LinkedInOneStep(db)

\* leverage.rs: the events that count towards the plans of an account
Counted(d, a) == {x \in Events : d.charged[x] # None /\ d.charged[x] \in {a, Replacement(d, a)}}

(***************************************************************************)
(* An event counts towards the plans of at most one account: no credential *)
(* replaces two others, and none that was replaced has plans of its own    *)
(* that count the same requests.                                           *)
(***************************************************************************)
EventCountsOnce ==
  \A x \in Events : \A a, b \in Accounts :
    HasPlan(db, a) /\ HasPlan(db, b) /\ x \in Counted(db, a) \cap Counted(db, b) => a = b

(***************************************************************************)
(* The reader's copies are right after every write, though a write may     *)
(* move the replacement of an account it never named.                      *)
(***************************************************************************)
ReaderKnows == seen = View(db)

(***************************************************************************)
(* Joining a replaced credential with its replacement changes no plan's    *)
(* leverage: the plan moves to the account that holds exactly the events   *)
(* that counted towards it before.                                         *)
(***************************************************************************)
Joins(a) ==
  /\ db.account[a] # None /\ db.account[a].merged = None /\ Replacement(db, a) # None
  /\ db'.account[a].merged = Replacement(db, a)

MergeKeepsLeverage ==
  [][\A a \in Accounts : Joins(a) =>
       \A p \in Plans : db.plan[p] = a => Counted(db', db'.plan[p]) = Counted(db, a)]_vars

=============================================================================
