------------------------- MODULE QuotaActionProofs -------------------------
(* Proofs about QuotaAction: types, the journal's inductive invariant and   *)
(* the promises that follow from it.                                        *)
EXTENDS QuotaAction, TLAPS, WellFoundedInduction

\* The journal's bound, apart from what is assumed of the other constants.
LEMMA Bound == MaxActions \in Nat \ {0}
BY ConstantsAssumption

\* Requests name scopes of the four kinds.
LEMMA ScopesType == Scopes \subseteq Scope /\ InvalidKinds \subseteq Kinds
BY ConstantsAssumption

\* A nonempty set of journal rows has a newest one, so Newest answers a member:
\* claim()'s ORDER BY action_id DESC LIMIT 1 finds a row whenever one matches.
LEMMA NewestIsMember ==
  ASSUME NEW S, S \subseteq Ids, S # {}
  PROVE  Newest(S) \in S /\ Newest(S) # NoId
<1>. DEFINE Gaps == {MaxActions - i : i \in S}
<1>1. Gaps \subseteq Nat /\ Gaps # {}
  <2>1. ASSUME NEW i \in S PROVE MaxActions - i \in Nat
    BY Bound DEF Ids
  <2>2. PICK i \in S : TRUE
    OBVIOUS
  <2>3. MaxActions - i \in Gaps
    OBVIOUS
  <2>. QED BY <2>1, <2>3
<1>2. PICK d \in Gaps : \A g \in Gaps : ~ (<<g, d>> \in OpToRel(<, Nat))
  <2>. HIDE DEF Gaps
  <2>. QED BY <1>1, NatLessThanWellFounded, WFMin
<1>3. \A g \in Gaps : ~ (g < d)
  BY <1>1, <1>2 DEF OpToRel
<1>4. PICK m \in S : d = MaxActions - m
  OBVIOUS
<1>5. \A j \in S : j <= m
  <2>. SUFFICES ASSUME NEW j \in S PROVE j <= m
    OBVIOUS
  <2>1. MaxActions - j \in Gaps
    OBVIOUS
  <2>2. ~ (MaxActions - j < MaxActions - m)
    BY <1>3, <1>4, <2>1
  <2>. QED BY <2>2, Bound DEF Ids
<1>6. Newest(S) \in S
  BY <1>5 DEF Newest
<1>. QED BY <1>6 DEF Ids, NoId

\* Newest of a set of rows is one of them, or NoId when there is none.
LEMMA NewestType ==
  ASSUME NEW S, S \subseteq Ids
  PROVE  /\ Newest(S) \in Ids \cup {NoId}
         /\ Newest(S) = NoId <=> S = {}
         /\ Newest(S) # NoId => Newest(S) \in S
BY NewestIsMember DEF Newest, NoId, Ids

-----------------------------------------------------------------------------
(* Types *)

\* A closed row is a row: only its answer changed.
LEMMA ClosedType ==
  ASSUME TypeOK, NEW row \in Row
  PROVE  /\ Closed(row) \in Row
         /\ Closed(row).scope = row.scope /\ Closed(row).boot = row.boot
         /\ Closed(row).fin = now /\ now # 0
BY DEF TypeOK, Closed, Row, Statuses

\* Closing orphans keeps the journal a journal and touches open rows only.
LEMMA ClosingType ==
  ASSUME TypeOK
  PROVE  /\ AfterClosing \in [Ids -> Row]
         /\ \A i \in Ids : AfterClosing[i].scope = rows[i].scope
         /\ \A i \in Ids : AfterClosing[i].boot = rows[i].boot
         /\ \A i \in Ids : ~Orphaned(i) => AfterClosing[i] = rows[i]
         /\ \A i \in Ids : Orphaned(i) => AfterClosing[i].fin # 0
<1>1. rows \in [Ids -> Row]
  BY DEF TypeOK
<1>2. \A i \in Ids : AfterClosing[i] = IF Orphaned(i) THEN Closed(rows[i]) ELSE rows[i]
  BY DEF AfterClosing
<1>. QED BY <1>1, <1>2, ClosedType DEF AfterClosing

\* The action a claim joins is a row, or none.
LEMMA JoinedType ==
  ASSUME TypeOK, NEW r \in Requests
  PROVE  Joined(r) \in Ids \cup {NoId}
<1>1. Pending(req[r].scope) \in Ids \cup {NoId}
  BY NewestType DEF Pending
<1>2. Saved(req[r].scope, req[r].at) \in Ids \cup {NoId}
  BY NewestType DEF Saved
<1>. QED BY <1>1, <1>2 DEF Joined, TypeOK

\* A refused request appends a row of its kind.
LEMMA RejectedType ==
  ASSUME TypeOK, NEW kind \in Kinds, AppendRejected(kind)
  PROVE  rows' \in [Ids -> Row] /\ last' \in 0 .. MaxActions /\ keys' = keys
<1>1. last + 1 \in Ids /\ last' \in 0 .. MaxActions
  BY Bound DEF AppendRejected, TypeOK, Ids
<1>2. [scope |-> [kind |-> kind, target |-> All], at |-> now, boot |-> 0,
       fin |-> now, status |-> "client", shared |-> FALSE, covers |-> {}] \in Row
  BY DEF TypeOK, Row, Scope, Statuses
<1>. QED BY <1>1, <1>2 DEF AppendRejected, TypeOK

\* Binding a key to a row gives keys of rows.
LEMMA BindType ==
  ASSUME TypeOK, NEW r \in Requests, NEW i \in Ids
  PROVE  /\ DOMAIN Bind(r, i) \subseteq Keys
         /\ \A k \in DOMAIN Bind(r, i) : Bind(r, i)[k] \in [scope : Scope, action : Ids]
<1>1. req[r].key \in Keys \cup {NoKey} /\ req[r].scope \in Scope
  BY DEF TypeOK
<1>. QED BY <1>1 DEF Bind, TypeOK

\* What an endpoint's end changes keeps its types.
LEMMA EndsType ==
  ASSUME TypeOK, NEW r \in Requests, NEW status \in Statuses, Ends(r, status)
  PROVE  /\ result' \in [Requests -> Statuses]
         /\ pc' \in [Requests -> Places]
         /\ manual' \in Requests \cup {None}
BY DEF Ends, TypeOK, Moved, Places

\* The observation a run uses instead of a call is a row's, or none.
LEMMA RecentType ==
  ASSUME NEW kind, NEW a, NEW t
  PROVE  Recent(kind, a, t) \in Ids \cup {NoId}
BY NewestType DEF Recent

\* Reconciling an account's resets keeps the journal a journal.
LEMMA ReconciledType ==
  ASSUME TypeOK, NEW a
  PROVE  Reconciled(a) \in [Ids -> Row]
<1>1. \A row \in Row : [row EXCEPT !.fin = now, !.shared = FALSE] \in Row
  BY DEF TypeOK, Row
<1>. QED BY <1>1 DEF TypeOK, Reconciled

\* A completed row is a row.
LEMMA CompletedType ==
  ASSUME TypeOK, NEW row \in Row, NEW r \in Requests, NEW seen \in Shown(r)
  PROVE  [row EXCEPT !.fin = now, !.status = result[r], !.covers = seen,
                     !.shared = row.shared /\ result[r] # "interrupted"] \in Row
<1>1. seen \subseteq Accounts
  BY DEF Shown, Covered
<1>2. now \in Nat /\ result[r] \in Statuses
  BY DEF TypeOK
<1>3. ASSUME NEW sh \in BOOLEAN
      PROVE  [row EXCEPT !.fin = now, !.status = result[r], !.covers = seen, !.shared = sh]
               \in Row
  BY <1>1, <1>2 DEF Row
<1>. QED BY <1>3

\* A worker that ends leaves nothing but its types.
LEMMA GoneType ==
  ASSUME TypeOK, NEW r \in Requests, Gone(r), Release(r)
  PROVE  /\ pc' \in [Requests -> Places]
         /\ started' \in [Requests -> Nat]
         /\ result' \in [Requests -> Statuses]
         /\ reused' \in [Requests -> SUBSET (Ids \cup {NoId})]
         /\ family' \in [0 .. 2 -> Requests \cup {None}]
BY DEF Gone, Release, TypeOK, Moved, Places, Statuses

\* A hard refresh names an account or none.
LEMMA HardTargets ==
  ASSUME TypeOK, ScopesAreValid, NEW r \in Requests, KindOf(r) = "hard_refresh",
         pc[r] \notin {"idle", "done"}
  PROVE  TargetOf(r) \in Accounts \cup {All}
BY ConstantsAssumption DEF ScopesAreValid, KindOf, TargetOf

\* Every step keeps the types, given that a live worker's action is a row.
LEMMA TypeStep ==
  ASSUME TypeOK, ScopesAreValid, LiveOwnsItsRow, [Next]_vars
  PROVE  TypeOK'
<1>. USE DEF store, worker, owners
<1>1. ASSUME NEW r \in Requests, Arrive(r) PROVE TypeOK'
  <2>1. req' \in [Requests -> [scope : Scope, key : Keys \cup {NoKey}, at : Nat]]
    BY <1>1, ScopesType DEF Arrive, TypeOK
  <2>. QED BY <1>1, <2>1 DEF Arrive, TypeOK, Moved, Places
<1>2. ASSUME NEW r \in Requests, RejectInvalid(r) PROVE TypeOK'
  BY <1>2, ScopesType, RejectedType DEF RejectInvalid, TypeOK, Moved, Places
<1>3. ASSUME NEW r \in Requests, ClaimConflict(r) PROVE TypeOK'
  BY <1>3 DEF ClaimConflict, TypeOK, Moved, Places
<1>4. ASSUME NEW r \in Requests, ClaimReused(r) PROVE TypeOK'
  <2>1. Joined(r) \in Ids
    BY <1>4, JoinedType DEF ClaimReused
  <2>2. /\ DOMAIN keys' \subseteq Keys
        /\ \A k \in DOMAIN keys' : keys'[k] \in [scope : Scope, action : Ids]
    BY <1>4, <2>1, BindType DEF ClaimReused
  <2>3. DOMAIN leases' \subseteq Ids /\ \A i \in DOMAIN leases' : leases'[i] \in Requests
    BY <1>4 DEF ClaimReused, Forget, TypeOK
  <2>. QED BY <1>4, <2>1, <2>2, <2>3, ClosingType DEF ClaimReused, TypeOK, Moved, Places, Take
<1>5. ASSUME NEW r \in Requests, ClaimFresh(r) PROVE TypeOK'
  <2>1. last + 1 \in Ids /\ last' \in 0 .. MaxActions
    BY SMTT(30), <1>5, Bound DEF ClaimFresh, TypeOK, Ids
  <2>2. /\ DOMAIN keys' \subseteq Keys
        /\ \A k \in DOMAIN keys' : keys'[k] \in [scope : Scope, action : Ids]
    BY <1>5, <2>1, BindType DEF ClaimFresh
  <2>3. DOMAIN leases' \subseteq Ids /\ \A i \in DOMAIN leases' : leases'[i] \in Requests
    BY <1>5, <2>1 DEF ClaimFresh, Forget, Lease, TypeOK
  <2>4. rows' \in [Ids -> Row]
    BY <1>5, <2>1, ClosingType DEF ClaimFresh, TypeOK, Row, Statuses
  <2>. QED BY <1>5, <2>1, <2>2, <2>3, <2>4 DEF ClaimFresh, TypeOK, Moved, Places, Take
<1>6. ASSUME NEW r \in Requests, ClaimFails(r) PROVE TypeOK'
  <2>1. /\ DOMAIN leases' \subseteq Ids /\ undone' \subseteq Ids
        /\ \A i \in DOMAIN leases' : leases'[i] \in Requests
    <3>1. CASE UNCHANGED owners
      BY <3>1 DEF TypeOK
    <3>2. CASE /\ last < MaxActions /\ leases' = Lease(last + 1, r)
               /\ undone' = undone \cup {last + 1}
      <4>1. last + 1 \in Ids
        BY <3>2, Bound DEF TypeOK, Ids
      <4>. QED BY <3>2, <4>1 DEF Lease, TypeOK
    <3>. QED BY <1>6, <3>1, <3>2 DEF ClaimFails
  <2>. QED BY <1>6, <2>1 DEF ClaimFails, TypeOK, Moved, Places
<1>7. ASSUME NEW r \in Requests, RejectConflict(r) PROVE TypeOK'
  <2>1. req[r].scope.kind \in Kinds
    BY DEF TypeOK, Scope
  <2>. QED BY <1>7, <2>1, RejectedType DEF RejectConflict, TypeOK, Moved, Places
<1>8. ASSUME NEW r \in Requests, Enter(r) PROVE TypeOK'
  BY <1>8 DEF Enter, TypeOK, Moved, Places
<1>9. ASSUME NEW r \in Requests, SoftRefresh(r) \/ EndRefresh(r) \/ QuotaReset(r) PROVE TypeOK'
  <2>1. Ends(r, "ok")
    BY <1>9 DEF SoftRefresh, EndRefresh, QuotaReset
  <2>2. refreshedAt' \in [Accounts -> Nat]
    BY <1>9 DEF SoftRefresh, EndRefresh, QuotaReset, TypeOK
  <2>3. UNCHANGED <<now, boot, store, owners, family, req, act, fresh, started, todo, reused>>
    BY <1>9 DEF SoftRefresh, EndRefresh, QuotaReset
  <2>. QED BY <2>1, <2>2, <2>3, EndsType DEF TypeOK, Statuses
<1>10. ASSUME NEW r \in Requests, StartRefresh(r) PROVE TypeOK'
  <2>1. TargetOf(r) \in Accounts \cup {All}
    BY <1>10, HardTargets DEF StartRefresh
  <2>2. PICK targets \in SUBSET Accounts :
          LET skipped == {a \in targets : Recent("hard_refresh", a, started[r]) # NoId}
          IN /\ todo' = [todo EXCEPT ![r] = targets \ skipped]
             /\ reused' = [reused EXCEPT ![r] =
                             {Recent("hard_refresh", a, started[r]) : a \in skipped}]
    BY <1>10, <2>1 DEF StartRefresh
  <2>. QED BY <1>10, <2>2, RecentType DEF StartRefresh, TypeOK, Moved, Places
<1>11. ASSUME NEW r \in Requests, Fetch(r) PROVE TypeOK'
  <2>1. PICK a \in todo[r] :
          /\ todo' = [todo EXCEPT ![r] = todo[r] \ {a}]
          /\ refreshedAt' = [refreshedAt EXCEPT ![a] = now]
          /\ rows' = Reconciled(a) \/ UNCHANGED rows
    BY <1>11 DEF Fetch
  <2>2. rows' \in [Ids -> Row]
    BY <2>1, ReconciledType DEF TypeOK
  <2>3. todo' \in [Requests -> SUBSET Accounts] /\ refreshedAt' \in [Accounts -> Nat]
    BY <2>1 DEF TypeOK
  <2>. QED BY <1>11, <2>2, <2>3 DEF Fetch, TypeOK
<1>12. ASSUME NEW r \in Requests, StartReset(r) PROVE TypeOK'
  BY <1>12 DEF StartReset, TypeOK, Moved, Places
<1>13. ASSUME NEW r \in Requests, CooldownReset(r) PROVE TypeOK'
  <2>1. \E status \in {"ok", "client"} : Ends(r, status)
    BY <1>13 DEF CooldownReset
  <2>2. reused' \in [Requests -> SUBSET (Ids \cup {NoId})]
    BY <1>13, RecentType DEF CooldownReset, TypeOK
  <2>. QED BY <1>13, <2>1, <2>2, EndsType DEF CooldownReset, TypeOK, Statuses
<1>14. ASSUME NEW r \in Requests, Fails(r) PROVE TypeOK'
  <2>1. \E status \in {"server", "interrupted", "client"} : Ends(r, status)
    BY <1>14 DEF Fails
  <2>. QED BY <1>14, <2>1, EndsType DEF Fails, TypeOK, Statuses
<1>15. ASSUME NEW r \in Requests, Complete(r) PROVE TypeOK'
  <2>1. act[r] \in Ids
    BY <1>15, Bound DEF Complete, LiveOwnsItsRow, Live, Exists, TypeOK, Ids
  <2>2. rows' \in [Ids -> Row]
    <3>1. PICK seen \in Shown(r) :
            rows' = [rows EXCEPT ![act[r]] =
                      [rows[act[r]] EXCEPT
                         !.fin = now, !.status = result[r], !.covers = seen,
                         !.shared = rows[act[r]].shared /\ result[r] # "interrupted"]]
      BY <1>15 DEF Complete
    <3>2. rows \in [Ids -> Row] /\ rows[act[r]] \in Row
      BY <2>1 DEF TypeOK
    <3>. DEFINE row == [rows[act[r]] EXCEPT
                          !.fin = now, !.status = result[r], !.covers = seen,
                          !.shared = rows[act[r]].shared /\ result[r] # "interrupted"]
    <3>3. row \in Row
      BY <3>2, CompletedType
    <3>. HIDE DEF row
    <3>4. rows' = [rows EXCEPT ![act[r]] = row]
      BY <3>1 DEF row
    <3>. QED BY <2>1, <3>2, <3>3, <3>4
  <2>. QED BY <1>15, <2>2, GoneType DEF Complete, TypeOK
<1>16. ASSUME NEW r \in Requests, CompletionLost(r) PROVE TypeOK'
  BY <1>16, GoneType DEF CompletionLost, TypeOK
<1>17. ASSUME NEW r \in Requests, Replay(r) \/ GiveUp(r) PROVE TypeOK'
  BY <1>17 DEF Replay, GiveUp, TypeOK, Moved, Places
<1>18. ASSUME Tick PROVE TypeOK'
  BY <1>18 DEF Tick, TypeOK
<1>19. ASSUME Restart PROVE TypeOK'
  BY <1>19 DEF Restart, TypeOK, Places, Statuses
<1>20. ASSUME UNCHANGED vars PROVE TypeOK'
  BY <1>20 DEF vars, TypeOK
<1>. QED
  BY <1>1, <1>2, <1>3, <1>4, <1>5, <1>6, <1>7, <1>8, <1>9, <1>10, <1>11, <1>12, <1>13,
     <1>14, <1>15, <1>16, <1>17, <1>18, <1>19, <1>20
  DEF Next, Claim, Run, Finish

-----------------------------------------------------------------------------
(* The journal's invariant *)

\* A live worker's lease entry, when there is one, is not abandoned.
LEMMA LiveNotOrphaned ==
  ASSUME JournalInv, NEW r \in Requests, Live(r)
  PROVE  ~Orphaned(act[r])
<1>1. act[r] \notin Abandoned
  BY DEF JournalInv, LeasesAreOwned, Abandoned
<1>2. rows[act[r]].boot = boot
  BY DEF JournalInv, LiveOwnsItsRow
<1>. QED BY <1>1, <1>2 DEF Orphaned

\* What the invariant says of everything but workers' places survives a step that
\* moves one worker and changes neither the journal nor its leases.
LEMMA MoveStep ==
  ASSUME JournalInv, NEW r \in Requests, NEW to \in Places, Moved(r, to),
         UNCHANGED <<boot, rows, last, keys, leases, req, act, fresh>>,
         to \in {"entered", "working", "ended"} => Live(r),
         to \in {"conflict", "done", "entered", "working", "ended", "waiting"},
         to = "conflict" => pc[r] = "arrived",
         pc[r] \in {"idle", "done"} => to = "done"
  PROVE  /\ ScopesAreValid' /\ StartsOnce' /\ LeasesAreOwned' /\ OpenRowsAreBlank'
         /\ KeysFollowActions' /\ LiveOwnsItsRow' /\ OneOpenActionPerScope'
<1>1. \A q \in Requests : Live(q)' => Live(q)
  BY DEF JournalInv, TypeOK, Moved, Live
<1>2. ScopesAreValid'
  BY DEF JournalInv, TypeOK, ScopesAreValid, Moved
<1>3. StartsOnce'
  BY DEF JournalInv, TypeOK, StartsOnce, Moved, Exists
<1>4. LeasesAreOwned'
  BY <1>1 DEF JournalInv, LeasesAreOwned
<1>5. OpenRowsAreBlank' /\ OneOpenActionPerScope'
  BY DEF JournalInv, OpenRowsAreBlank, OneOpenActionPerScope, Unfinished, Exists
<1>6. KeysFollowActions'
  BY DEF JournalInv, KeysFollowActions
<1>7. LiveOwnsItsRow'
  BY <1>1 DEF JournalInv, LiveOwnsItsRow, Unfinished, Exists, KindOf
<1>. QED BY <1>2, <1>3, <1>4, <1>5, <1>6, <1>7

\* A refused request adds a finished row, which no worker or key refers to.
LEMMA AppendStep ==
  ASSUME JournalInv, TypeOK', NEW r \in Requests, NEW kind, AppendRejected(kind),
         Moved(r, "done"), UNCHANGED <<boot, leases, req, act, fresh>>
  PROVE  JournalInv'
<1>1. /\ last' = last + 1 /\ last + 1 \in Ids /\ last \in Nat /\ keys' = keys
      /\ rows'[last + 1].fin # 0
      /\ \A i \in Ids \ {last + 1} : rows'[i] = rows[i]
  BY Bound DEF AppendRejected, JournalInv, TypeOK, Ids
<1>2. \A i \in Ids : Exists(i)' <=> Exists(i) \/ i = last + 1
  BY <1>1, Bound DEF Exists, Ids
<1>3. \A i \in Ids : Unfinished(i)' <=> Unfinished(i)
  BY <1>1, <1>2, Bound DEF Unfinished, Exists, Ids
<1>4. \A i \in Ids : Exists(i) => rows'[i] = rows[i]
  BY <1>1 DEF Exists
<1>5. /\ \A q \in Requests : Live(q)' => Live(q) /\ q # r
      /\ \A q \in Requests : act[q] \in Ids \cup {NoId}
  BY DEF JournalInv, TypeOK, Moved, Live
<1>6. ScopesAreValid'
  BY DEF JournalInv, TypeOK, ScopesAreValid, Moved
<1>7. StartsOnce'
  <2>1. \A q \in Requests : Exists(act[q]) => Exists(act[q])'
    BY <1>1, <1>5 DEF Exists
  <2>2. \A q \in Requests : pc'[q] \in {"idle", "arrived", "conflict"} => pc'[q] = pc[q]
    BY DEF JournalInv, TypeOK, Moved
  <2>. QED BY <2>1, <2>2 DEF JournalInv, StartsOnce
<1>8. LeasesAreOwned'
  BY <1>5 DEF JournalInv, LeasesAreOwned
<1>9. OpenRowsAreBlank' /\ OneOpenActionPerScope'
  BY <1>3, <1>4 DEF JournalInv, OpenRowsAreBlank, OneOpenActionPerScope, Unfinished
<1>10. KeysFollowActions'
  BY <1>1 DEF JournalInv, KeysFollowActions
<1>11. LiveOwnsItsRow'
  <2>. SUFFICES ASSUME NEW q \in Requests, Live(q)'
                PROVE  /\ fresh[q] /\ Exists(act[q])'
                       /\ rows'[act[q]].boot = boot /\ rows'[act[q]].scope = req[q].scope
                       /\ \/ Unfinished(act[q])'
                          \/ /\ KindOf(q) = "quota_reset"
                             /\ rows'[act[q]].status = "none" /\ ~rows'[act[q]].shared
    BY DEF LiveOwnsItsRow, KindOf
  <2>1. act[q] \in Ids /\ Exists(act[q])
    BY <1>5, Bound DEF JournalInv, LiveOwnsItsRow, Exists, Ids, NoId, TypeOK
  <2>. QED BY <1>2, <1>3, <1>4, <1>5, <2>1 DEF JournalInv, LiveOwnsItsRow
<1>. QED BY <1>6, <1>7, <1>8, <1>9, <1>10, <1>11 DEF JournalInv

\* Rows that were closed, or finished otherwise, while their scope, boot and the
\* rest of the journal stayed: no open row appears and no live worker loses its own.
LEMMA CloseStep ==
  ASSUME JournalInv, TypeOK', UNCHANGED <<boot, last, leases, keys, pc, req, act, fresh>>,
         \A i \in Ids : /\ rows'[i].scope = rows[i].scope
                        /\ rows'[i].boot = rows[i].boot
                        /\ \/ rows'[i] = rows[i]
                           \/ /\ rows'[i].fin # 0 /\ rows'[i].status = rows[i].status
                              /\ rows[i].scope.kind = "quota_reset"
                              /\ Unfinished(i) /\ ~rows'[i].shared
  PROVE  JournalInv'
<1>1. \A i \in Ids : Unfinished(i)' => Unfinished(i) /\ rows'[i] = rows[i]
  BY DEF Unfinished, Exists
<1>2. ScopesAreValid' /\ StartsOnce' /\ LeasesAreOwned' /\ KeysFollowActions'
  BY DEF JournalInv, ScopesAreValid, StartsOnce, LeasesAreOwned, KeysFollowActions, Live, Exists
<1>3. OpenRowsAreBlank' /\ OneOpenActionPerScope'
  BY <1>1 DEF JournalInv, OpenRowsAreBlank, OneOpenActionPerScope
<1>4. LiveOwnsItsRow'
  <2>. SUFFICES ASSUME NEW q \in Requests, Live(q)
                PROVE  /\ fresh[q] /\ Exists(act[q])
                       /\ rows'[act[q]].boot = boot /\ rows'[act[q]].scope = req[q].scope
                       /\ \/ Unfinished(act[q])'
                          \/ /\ KindOf(q) = "quota_reset"
                             /\ rows'[act[q]].status = "none" /\ ~rows'[act[q]].shared
    BY DEF LiveOwnsItsRow, KindOf, Live, Exists
  <2>1. act[q] \in Ids /\ Exists(act[q])
    BY Bound DEF JournalInv, LiveOwnsItsRow, Exists, Ids, NoId, TypeOK
  <2>2. CASE rows'[act[q]] = rows[act[q]]
    BY <2>1, <2>2 DEF JournalInv, LiveOwnsItsRow, Unfinished, Exists
  <2>3. CASE rows'[act[q]] # rows[act[q]]
    BY <2>1, <2>3 DEF JournalInv, LiveOwnsItsRow, OpenRowsAreBlank, KindOf
  <2>. QED BY <2>2, <2>3
<1>. QED BY <1>2, <1>3, <1>4 DEF JournalInv

\* A claim closes no live worker's row: what is open after it was open before, and
\* what belongs to a live worker is untouched.
LEMMA ClosingStep ==
  ASSUME JournalInv
  PROVE  /\ \A i \in Ids : Exists(i) /\ AfterClosing[i].fin = 0 =>
              Unfinished(i) /\ ~Orphaned(i) /\ AfterClosing[i] = rows[i]
         /\ \A r \in Requests : Live(r) =>
              act[r] \in Ids /\ Exists(act[r]) /\ AfterClosing[act[r]] = rows[act[r]]
<1>1. TypeOK
  BY DEF JournalInv
<1>2. ASSUME NEW i \in Ids, Exists(i), AfterClosing[i].fin = 0
      PROVE  Unfinished(i) /\ ~Orphaned(i) /\ AfterClosing[i] = rows[i]
  <2>1. ~Orphaned(i)
    BY <1>1, <1>2, ClosingType
  <2>2. AfterClosing[i] = rows[i]
    BY <1>1, <2>1, ClosingType
  <2>. QED BY <1>2, <2>1, <2>2 DEF Unfinished
<1>3. ASSUME NEW r \in Requests, Live(r)
      PROVE  act[r] \in Ids /\ Exists(act[r]) /\ AfterClosing[act[r]] = rows[act[r]]
  <2>1. act[r] \in Ids /\ Exists(act[r])
    BY <1>3, Bound DEF JournalInv, LiveOwnsItsRow, Exists, Ids, NoId, TypeOK
  <2>. QED BY <1>1, <1>3, <2>1, LiveNotOrphaned, ClosingType
<1>. QED BY <1>2, <1>3

\* Joining an action: the caller owns nothing, so only the closings count.
LEMMA ReusedStep ==
  ASSUME JournalInv, TypeOK', NEW r \in Requests, ClaimReused(r)
  PROVE  JournalInv'
<1>1. /\ pc[r] = "arrived" /\ ~fresh[r] /\ rows' = AfterClosing /\ UNCHANGED <<boot, last, req>>
      /\ \A q \in Requests : Live(q)' => Live(q) /\ q # r
      /\ \A q \in Requests \ {r} : act'[q] = act[q] /\ fresh'[q] = fresh[q]
      /\ ~fresh'[r]
  BY DEF ClaimReused, JournalInv, TypeOK, StartsOnce, Take, Moved, Live
<1>2. \A i \in Ids : Unfinished(i)' => Unfinished(i) /\ rows'[i] = rows[i]
  BY <1>1, ClosingStep DEF Unfinished, Exists
<1>3. ScopesAreValid'
  BY <1>1 DEF ClaimReused, Moved, JournalInv, TypeOK, ScopesAreValid
<1>4. StartsOnce'
  BY <1>1 DEF ClaimReused, Moved, JournalInv, TypeOK, StartsOnce, Exists
<1>5. LeasesAreOwned'
  BY <1>1 DEF ClaimReused, Forget, JournalInv, LeasesAreOwned
<1>6. OpenRowsAreBlank' /\ OneOpenActionPerScope'
  BY <1>2 DEF JournalInv, OpenRowsAreBlank, OneOpenActionPerScope
<1>7. KeysFollowActions'
  <2>1. \A k \in DOMAIN keys : k \in DOMAIN keys' /\ keys'[k] = keys[k]
    BY DEF ClaimReused, Bind
  <2>. QED BY <1>1, <2>1 DEF JournalInv, KeysFollowActions
<1>8. LiveOwnsItsRow'
  <2>. SUFFICES ASSUME NEW q \in Requests, Live(q)'
                PROVE  /\ fresh'[q] /\ Exists(act[q])'
                       /\ rows'[act'[q]].boot = boot' /\ rows'[act'[q]].scope = req'[q].scope
                       /\ \/ Unfinished(act[q])'
                          \/ /\ KindOf(q)' = "quota_reset"
                             /\ rows'[act'[q]].status = "none" /\ ~rows'[act'[q]].shared
    BY DEF LiveOwnsItsRow
  <2>1. Live(q) /\ act'[q] = act[q] /\ fresh'[q] = fresh[q]
    BY <1>1
  <2>2. act[q] \in Ids /\ Exists(act[q]) /\ rows'[act[q]] = rows[act[q]]
    BY <1>1, <2>1, ClosingStep
  <2>. QED BY <1>1, <2>1, <2>2 DEF JournalInv, LiveOwnsItsRow, KindOf, Unfinished, Exists
<1>. QED BY <1>3, <1>4, <1>5, <1>6, <1>7, <1>8 DEF JournalInv

\* Starting an action: its scope has no other open one and its key no other action,
\* and the row number is newer than any a worker or a key knows.
LEMMA FreshStep ==
  ASSUME JournalInv, TypeOK', NEW r \in Requests, ClaimFresh(r)
  PROVE  JournalInv'
<1>. DEFINE new == last + 1
<1>1. /\ new \in Ids /\ last' = new /\ last \in Nat /\ ~Exists(new)
      /\ \A i \in Ids : Exists(i) => i # new
      /\ \A i : Exists(i)' <=> Exists(i) \/ i = new
  BY SMTT(30), Bound DEF ClaimFresh, JournalInv, TypeOK, Ids, Exists
<1>2. /\ pc[r] = "arrived" /\ UNCHANGED <<boot, req>>
      /\ \A q \in Requests \ {r} : act'[q] = act[q] /\ fresh'[q] = fresh[q] /\ pc'[q] = pc[q]
      /\ act'[r] = new /\ fresh'[r] /\ pc'[r] = "queued"
  BY DEF ClaimFresh, JournalInv, TypeOK, Take, Moved
<1>3. /\ \A i \in Ids \ {new} : rows'[i] = AfterClosing[i]
      /\ rows'[new].fin = 0 /\ rows'[new].status = "none"
      /\ rows'[new].boot = boot /\ rows'[new].scope = req[r].scope
  BY <1>1, ClosingType DEF ClaimFresh, JournalInv
<1>4. \A i \in Ids \ {new} : Unfinished(i)' => Unfinished(i) /\ ~Orphaned(i) /\ rows'[i] = rows[i]
  BY <1>1, <1>3, ClosingStep DEF Unfinished
<1>5. /\ Pending(req[r].scope) = NoId
      /\ req[r].key \notin DOMAIN keys
  <2>1. \A k \in DOMAIN keys : keys[k].action # NoId
    BY DEF JournalInv, TypeOK, Ids, NoId
  <2>. QED BY <2>1 DEF ClaimFresh, Joined
<1>6. \A i \in Ids : Unfinished(i) /\ ~Orphaned(i) => rows[i].scope # req[r].scope
  <2>1. {i \in Ids : Unfinished(i) /\ ~Orphaned(i) /\ rows[i].scope = req[r].scope} = {}
    BY <1>5, NewestIsMember DEF Pending
  <2>. QED BY <2>1
<1>7. ScopesAreValid'
  BY <1>2 DEF JournalInv, ScopesAreValid
<1>8. StartsOnce'
  <2>1. \A q \in Requests : fresh[q] => Exists(act[q]) /\ act[q] \in Ids
    BY Bound DEF JournalInv, StartsOnce, TypeOK, Exists, Ids, NoId
  <2>. QED BY <1>1, <1>2, <2>1 DEF JournalInv, StartsOnce
<1>9. LeasesAreOwned'
  <2>1. \A q \in Requests : Live(q) => act[q] # new
    BY <1>1, ClosingStep
  <2>2. \A i \in DOMAIN leases' : leases'[i] = IF i = new THEN r ELSE leases[i]
    BY DEF ClaimFresh, Forget, Lease
  <2>3. \A i \in DOMAIN leases' : i # new => i \in DOMAIN leases
    BY DEF ClaimFresh, Forget, Lease
  <2>4. \A q \in Requests \ {r} : Live(q)' => Live(q)
    BY <1>2 DEF Live
  <2>. QED BY <1>2, <2>1, <2>2, <2>3, <2>4 DEF JournalInv, LeasesAreOwned
<1>10. OpenRowsAreBlank'
  BY <1>3, <1>4 DEF JournalInv, OpenRowsAreBlank
<1>11. OneOpenActionPerScope'
  <2>. SUFFICES ASSUME NEW i \in Ids, NEW j \in Ids, Unfinished(i)', Unfinished(j)',
                       rows'[i].scope = rows'[j].scope
                PROVE  i = j
    BY DEF OneOpenActionPerScope
  <2>1. CASE i # new /\ j # new
    BY <1>4, <2>1 DEF JournalInv, OneOpenActionPerScope
  <2>2. CASE i # new /\ j = new
    BY <1>3, <1>4, <1>6, <2>2
  <2>3. CASE i = new /\ j # new
    BY <1>3, <1>4, <1>6, <2>3
  <2>. QED BY <2>1, <2>2, <2>3
<1>12. KeysFollowActions'
  <2>1. req[r].key # NoKey =>
          req[r].key \in DOMAIN keys' /\ keys'[req[r].key].action = new
    BY <1>5 DEF ClaimFresh, Bind
  <2>2. \A k \in DOMAIN keys : k \in DOMAIN keys' /\ keys'[k] = keys[k]
    BY <1>5 DEF ClaimFresh, Bind
  <2>. QED BY <1>2, <2>1, <2>2 DEF JournalInv, KeysFollowActions
<1>13. LiveOwnsItsRow'
  <2>. SUFFICES ASSUME NEW q \in Requests, Live(q)'
                PROVE  /\ fresh'[q] /\ Exists(act[q])'
                       /\ rows'[act'[q]].boot = boot' /\ rows'[act'[q]].scope = req'[q].scope
                       /\ \/ Unfinished(act[q])'
                          \/ /\ KindOf(q)' = "quota_reset"
                             /\ rows'[act'[q]].status = "none" /\ ~rows'[act'[q]].shared
    BY DEF LiveOwnsItsRow
  <2>1. CASE q = r
    BY <1>1, <1>2, <1>3, <2>1 DEF Unfinished
  <2>2. CASE q # r
    <3>1. Live(q) /\ act'[q] = act[q] /\ fresh'[q] = fresh[q]
      BY <1>2, <2>2 DEF Live
    <3>2. act[q] \in Ids /\ Exists(act[q]) /\ act[q] # new /\ rows'[act[q]] = rows[act[q]]
      BY <1>1, <1>3, <3>1, ClosingStep
    <3>3. Unfinished(act[q]) => Unfinished(act[q])'
      BY <1>1, <3>1, <3>2 DEF Unfinished
    <3>. QED BY <1>1, <1>2, <3>1, <3>2, <3>3 DEF JournalInv, LiveOwnsItsRow, KindOf
  <2>. QED BY <2>1, <2>2
<1>. QED BY <1>7, <1>8, <1>9, <1>10, <1>11, <1>12, <1>13 DEF JournalInv

\* A claim whose commit fails leaves at most a lease entry for a row never written.
LEMMA FailedClaimStep ==
  ASSUME JournalInv, TypeOK', NEW r \in Requests, ClaimFails(r)
  PROVE  JournalInv'
<1>1. /\ pc[r] = "arrived" /\ UNCHANGED <<boot, rows, last, keys, req, act, fresh>>
      /\ \A q \in Requests : Live(q)' => Live(q)
  BY DEF ClaimFails, JournalInv, TypeOK, Moved, Live, store, worker
<1>2. ScopesAreValid'
  BY <1>1 DEF ClaimFails, Moved, JournalInv, TypeOK, ScopesAreValid
<1>3. StartsOnce'
  BY <1>1 DEF ClaimFails, Moved, JournalInv, TypeOK, StartsOnce, Exists
<1>4. LeasesAreOwned'
  <2>1. CASE UNCHANGED leases
    BY <1>1, <2>1 DEF JournalInv, LeasesAreOwned
  <2>2. CASE leases' = Lease(last + 1, r)
    <3>1. \A q \in Requests : Live(q) => act[q] # last + 1
      BY Bound DEF JournalInv, LiveOwnsItsRow, Exists, TypeOK
    <3>. QED BY <1>1, <2>2, <3>1 DEF Lease, JournalInv, LeasesAreOwned
  <2>. QED BY <2>1, <2>2 DEF ClaimFails, owners
<1>5. OpenRowsAreBlank' /\ OneOpenActionPerScope' /\ KeysFollowActions'
  BY <1>1 DEF JournalInv, OpenRowsAreBlank, OneOpenActionPerScope, KeysFollowActions,
              Unfinished, Exists
<1>6. LiveOwnsItsRow'
  BY <1>1 DEF JournalInv, LiveOwnsItsRow, Unfinished, Exists, KindOf
<1>. QED BY <1>2, <1>3, <1>4, <1>5, <1>6 DEF JournalInv

\* Storing a result finishes the worker's own row, which no other worker owns.
LEMMA CompleteStep ==
  ASSUME JournalInv, TypeOK', NEW r \in Requests, Complete(r)
  PROVE  JournalInv'
<1>1. /\ Live(r) /\ act[r] \in Ids /\ Exists(act[r])
  BY Bound DEF Complete, Live, JournalInv, LiveOwnsItsRow, Exists, Ids, NoId, TypeOK
<1>2. /\ UNCHANGED <<boot, last, keys, leases, req, act, fresh>>
      /\ pc' = [pc EXCEPT ![r] = "done"]
      /\ \A q \in Requests : Live(q)' => Live(q) /\ q # r
  BY DEF Complete, Gone, Moved, JournalInv, TypeOK, Live, owners
<1>3. /\ \A i \in Ids \ {act[r]} : rows'[i] = rows[i]
      /\ rows'[act[r]].fin # 0
  <2>1. PICK seen \in Shown(r) :
          rows' = [rows EXCEPT ![act[r]] =
                    [rows[act[r]] EXCEPT
                       !.fin = now, !.status = result[r], !.covers = seen,
                       !.shared = rows[act[r]].shared /\ result[r] # "interrupted"]]
    BY DEF Complete
  <2>2. rows \in [Ids -> Row] /\ rows[act[r]] \in Row /\ now # 0
    BY <1>1 DEF JournalInv, TypeOK
  <2>3. [rows[act[r]] EXCEPT
           !.fin = now, !.status = result[r], !.covers = seen,
           !.shared = rows[act[r]].shared /\ result[r] # "interrupted"].fin = now
    BY <2>2 DEF Row
  <2>. QED BY <1>1, <2>1, <2>2, <2>3
<1>4. \A i \in Ids : Unfinished(i)' => i # act[r] /\ Unfinished(i) /\ rows'[i] = rows[i]
  BY <1>2, <1>3 DEF Unfinished, Exists
<1>5. ScopesAreValid' /\ StartsOnce'
  BY <1>2 DEF JournalInv, TypeOK, ScopesAreValid, StartsOnce, Exists
<1>6. LeasesAreOwned' /\ KeysFollowActions'
  BY <1>2 DEF JournalInv, LeasesAreOwned, KeysFollowActions
<1>7. OpenRowsAreBlank' /\ OneOpenActionPerScope'
  BY <1>4 DEF JournalInv, OpenRowsAreBlank, OneOpenActionPerScope
<1>8. LiveOwnsItsRow'
  <2>. SUFFICES ASSUME NEW q \in Requests, Live(q)'
                PROVE  /\ fresh[q] /\ Exists(act[q])'
                       /\ rows'[act[q]].boot = boot /\ rows'[act[q]].scope = req[q].scope
                       /\ \/ Unfinished(act[q])'
                          \/ /\ KindOf(q) = "quota_reset"
                             /\ rows'[act[q]].status = "none" /\ ~rows'[act[q]].shared
    BY <1>2 DEF LiveOwnsItsRow, KindOf
  <2>1. Live(q) /\ q # r
    BY <1>2
  <2>2. act[q] # act[r]
    BY <1>1, <2>1 DEF JournalInv, LiveOwnsItsRow, StartsOnce
  <2>3. act[q] \in Ids /\ rows'[act[q]] = rows[act[q]]
    BY <1>3, <2>1, <2>2, ClosingStep
  <2>. QED BY <1>2, <2>1, <2>3 DEF JournalInv, LiveOwnsItsRow, Unfinished, Exists
<1>. QED BY <1>5, <1>6, <1>7, <1>8 DEF JournalInv

\* A request that arrives has started nothing, whatever it asks.
LEMMA ArriveStep ==
  ASSUME JournalInv, TypeOK', NEW r \in Requests, Arrive(r)
  PROVE  JournalInv'
<1>1. /\ pc[r] = "idle" /\ pc' = [pc EXCEPT ![r] = "arrived"] /\ ~fresh[r]
      /\ UNCHANGED <<boot, rows, last, keys, leases, act, fresh>>
      /\ \A q \in Requests \ {r} : req'[q] = req[q]
      /\ \A q \in Requests : Live(q)' => Live(q) /\ q # r
  BY DEF Arrive, Moved, JournalInv, TypeOK, StartsOnce, Live, store, owners
<1>2. req'[r].scope \in Scopes
  BY DEF Arrive, JournalInv, TypeOK
<1>3. ScopesAreValid'
  BY <1>1, <1>2 DEF JournalInv, TypeOK, ScopesAreValid
<1>4. StartsOnce'
  BY <1>1 DEF JournalInv, TypeOK, StartsOnce, Exists
<1>5. LeasesAreOwned' /\ OpenRowsAreBlank' /\ OneOpenActionPerScope'
  BY <1>1 DEF JournalInv, LeasesAreOwned, OpenRowsAreBlank, OneOpenActionPerScope,
              Unfinished, Exists
<1>6. KeysFollowActions'
  BY <1>1 DEF JournalInv, KeysFollowActions
<1>7. LiveOwnsItsRow'
  BY <1>1 DEF JournalInv, LiveOwnsItsRow, Unfinished, Exists, KindOf
<1>. QED BY <1>3, <1>4, <1>5, <1>6, <1>7 DEF JournalInv

\* A restart loses every worker and keeps the journal.
LEMMA RestartStep ==
  ASSUME JournalInv, TypeOK', Restart
  PROVE  JournalInv'
<1>1. /\ UNCHANGED <<rows, last, keys, req, act, fresh>>
      /\ DOMAIN leases' = {}
      /\ \A q \in Requests : ~Live(q)'
      /\ \A q \in Requests : pc'[q] \in {"idle", "done"} => pc'[q] = pc[q]
      /\ \A q \in Requests : pc'[q] \in {"idle", "done", "lost"}
  BY DEF Restart, Live, store
<1>2. ScopesAreValid'
  BY <1>1 DEF Restart, JournalInv, ScopesAreValid
<1>3. StartsOnce'
  BY <1>1 DEF JournalInv, StartsOnce, Exists
<1>4. LeasesAreOwned' /\ LiveOwnsItsRow'
  BY <1>1 DEF LeasesAreOwned, LiveOwnsItsRow
<1>5. OpenRowsAreBlank' /\ OneOpenActionPerScope' /\ KeysFollowActions'
  BY <1>1 DEF JournalInv, OpenRowsAreBlank, OneOpenActionPerScope, KeysFollowActions,
              Unfinished, Exists
<1>. QED BY <1>2, <1>3, <1>4, <1>5 DEF JournalInv

\* The journal's invariant holds at the start.
LEMMA JournalInit == Init => JournalInv
<1>. SUFFICES ASSUME Init PROVE JournalInv
  OBVIOUS
<1>1. [kind |-> "soft_refresh", target |-> All] \in Scope
  BY DEF Scope, Kinds
<1>2. TypeOK
  BY <1>1, Bound DEF Init, TypeOK, Row, Places, Statuses, Ids, NoId
<1>3. \A i \in Ids : ~Unfinished(i)
  BY DEF Init, Unfinished, Exists
<1>4. \A r \in Requests : ~Live(r) /\ ~fresh[r] /\ pc[r] = "idle"
  BY DEF Init, Live
<1>. QED BY <1>2, <1>3, <1>4
  DEF JournalInv, ScopesAreValid, StartsOnce, LeasesAreOwned, OpenRowsAreBlank,
      KeysFollowActions, LiveOwnsItsRow, OneOpenActionPerScope

\* Every step keeps it.
LEMMA JournalStep ==
  ASSUME JournalInv, [Next]_vars
  PROVE  JournalInv'
<1>. USE DEF store, worker, owners
<1>1. TypeOK'
  BY TypeStep DEF JournalInv
<1>2. ASSUME NEW r \in Requests, Arrive(r) PROVE JournalInv'
  BY <1>1, <1>2, ArriveStep
<1>3. ASSUME NEW r \in Requests, RejectInvalid(r) PROVE JournalInv'
  BY <1>1, <1>3, AppendStep DEF RejectInvalid
<1>4. ASSUME NEW r \in Requests, RejectConflict(r) PROVE JournalInv'
  BY <1>1, <1>4, AppendStep DEF RejectConflict
<1>5. ASSUME NEW r \in Requests, ClaimConflict(r) PROVE JournalInv'
  BY <1>1, <1>5, MoveStep DEF ClaimConflict, Places, JournalInv
<1>6. ASSUME NEW r \in Requests, ClaimReused(r) PROVE JournalInv'
  BY <1>1, <1>6, ReusedStep
<1>7. ASSUME NEW r \in Requests, ClaimFresh(r) PROVE JournalInv'
  BY <1>1, <1>7, FreshStep
<1>8. ASSUME NEW r \in Requests, ClaimFails(r) PROVE JournalInv'
  BY <1>1, <1>8, FailedClaimStep
<1>9. ASSUME NEW r \in Requests, Enter(r) PROVE JournalInv'
  BY <1>1, <1>9, MoveStep DEF Enter, Places, Live, JournalInv
<1>10. ASSUME NEW r \in Requests, StartRefresh(r) \/ StartReset(r) PROVE JournalInv'
  BY <1>1, <1>10, MoveStep DEF StartRefresh, StartReset, Places, Live, JournalInv
<1>11. ASSUME NEW r \in Requests,
              \/ SoftRefresh(r) \/ EndRefresh(r) \/ QuotaReset(r)
              \/ CooldownReset(r) \/ Fails(r)
       PROVE  JournalInv'
  <2>1. Live(r) /\ Moved(r, "ended")
    BY <1>11 DEF SoftRefresh, EndRefresh, QuotaReset, CooldownReset, Fails, Ends, Live
  <2>2. UNCHANGED <<boot, rows, last, keys, leases, req, act, fresh>>
    BY <1>11 DEF SoftRefresh, EndRefresh, QuotaReset, CooldownReset, Fails
  <2>. QED BY <1>1, <2>1, <2>2, MoveStep DEF Places, Live, JournalInv
<1>12. ASSUME NEW r \in Requests, Fetch(r) PROVE JournalInv'
  <2>1. PICK a \in todo[r] : rows' = Reconciled(a) \/ UNCHANGED rows
    BY <1>12 DEF Fetch
  <2>2. now # 0 /\ rows \in [Ids -> Row]
    BY DEF JournalInv, TypeOK
  <2>3. \A i \in Ids :
          /\ rows'[i].scope = rows[i].scope /\ rows'[i].boot = rows[i].boot
          /\ \/ rows'[i] = rows[i]
             \/ /\ rows'[i].fin # 0 /\ rows'[i].status = rows[i].status
                /\ rows[i].scope.kind = "quota_reset"
                /\ Unfinished(i) /\ ~rows'[i].shared
    <3>1. \A row \in Row :
            LET closed == [row EXCEPT !.fin = now, !.shared = FALSE]
            IN /\ closed.scope = row.scope /\ closed.boot = row.boot
               /\ closed.fin = now /\ closed.status = row.status /\ ~closed.shared
      BY DEF Row
    <3>2. CASE rows' = Reconciled(a)
      <4>. SUFFICES ASSUME NEW i \in Ids, rows'[i] # rows[i]
                    PROVE  /\ rows'[i].scope = rows[i].scope
                           /\ rows'[i].boot = rows[i].boot
                           /\ rows'[i].fin # 0 /\ rows'[i].status = rows[i].status
                           /\ rows[i].scope.kind = "quota_reset"
                           /\ Unfinished(i) /\ ~rows'[i].shared
        BY <3>2
      <4>1. /\ Unfinished(i) /\ rows[i].scope = [kind |-> "quota_reset", target |-> a]
            /\ rows'[i] = [rows[i] EXCEPT !.fin = now, !.shared = FALSE]
        BY <3>2 DEF Reconciled
      <4>. QED BY <2>2, <3>1, <4>1
    <3>. QED BY <2>1, <3>2
  <2>. QED BY <1>1, <1>12, <2>3, CloseStep DEF Fetch
<1>13. ASSUME NEW r \in Requests, Complete(r) PROVE JournalInv'
  BY <1>1, <1>13, CompleteStep
<1>14. ASSUME NEW r \in Requests, CompletionLost(r) PROVE JournalInv'
  BY <1>1, <1>14, MoveStep DEF CompletionLost, Gone, Places, JournalInv
<1>15. ASSUME NEW r \in Requests, Replay(r) \/ GiveUp(r) PROVE JournalInv'
  BY <1>1, <1>15, MoveStep DEF Replay, GiveUp, Places, JournalInv
<1>16. ASSUME Tick \/ UNCHANGED vars PROVE JournalInv'
  BY <1>1, <1>16, CloseStep DEF Tick, vars
<1>17. ASSUME Restart PROVE JournalInv'
  BY <1>1, <1>17, RestartStep
<1>. QED
  BY <1>2, <1>3, <1>4, <1>5, <1>6, <1>7, <1>8, <1>9, <1>10, <1>11, <1>12, <1>13, <1>14,
     <1>15, <1>16, <1>17
  DEF Next, Claim, Run, Finish

\* Every reachable state satisfies the journal's invariant: the strengthening that
\* makes what a live worker owns survive claims, closings, failures and restarts.
THEOREM JournalCorrect == Spec => []JournalInv
BY JournalInit, JournalStep, PTL DEF Spec

-----------------------------------------------------------------------------
(* What follows from it *)

\* Every variable keeps its type in every reachable state.
THEOREM TypesCorrect == Spec => []TypeOK
<1>1. JournalInv => TypeOK
  BY DEF JournalInv
<1>. QED BY <1>1, JournalCorrect, PTL

\* claim() never leaves two open actions of one scope in the journal.
THEOREM OneOpenActionPerScopeCorrect == Spec => []OneOpenActionPerScope
<1>1. JournalInv => OneOpenActionPerScope
  BY DEF JournalInv
<1>. QED BY <1>1, JournalCorrect, PTL

\* No claim closes the action of a worker that is still running.
THEOREM LiveOwnsItsRowCorrect == Spec => []LiveOwnsItsRow
<1>1. JournalInv => LiveOwnsItsRow
  BY DEF JournalInv
<1>. QED BY <1>1, JournalCorrect, PTL

\* Requests for one scope share one call, except for quota resets.
THEOREM SharesOneCallCorrect == Spec => []SharesOneCallButResets
<1>1. ASSUME JournalInv PROVE SharesOneCallButResets
  <2>. SUFFICES ASSUME NEW r1 \in Requests, NEW r2 \in Requests, Live(r1), Live(r2),
                       req[r1].scope = req[r2].scope, KindOf(r1) # "quota_reset"
                PROVE  r1 = r2
    BY DEF SharesOneCallButResets
  <2>1. Unfinished(act[r1]) /\ Unfinished(act[r2])
    BY <1>1 DEF JournalInv, LiveOwnsItsRow, KindOf
  <2>2. act[r1] \in Ids /\ act[r2] \in Ids
    BY <1>1, ClosingStep
  <2>3. act[r1] = act[r2]
    BY <1>1, <2>1, <2>2 DEF JournalInv, LiveOwnsItsRow, OneOpenActionPerScope
  <2>. QED BY <1>1, <2>3 DEF JournalInv, LiveOwnsItsRow, StartsOnce
<1>. QED BY <1>1, JournalCorrect, PTL

\* An Idempotency-Key starts at most one action, and an action has one starter.
THEOREM KeyNeverRunsTwiceCorrect == Spec => []KeyNeverRunsTwice
<1>1. ASSUME JournalInv PROVE KeyNeverRunsTwice
  BY <1>1 DEF JournalInv, KeyNeverRunsTwice, StartsOnce, KeysFollowActions
<1>. QED BY <1>1, JournalCorrect, PTL

\* A journal row that holds a response keeps it: closings, reconciliations and
\* completions write only rows that hold none.
THEOREM AnswersStandCorrect == Spec => AnswersStand
<1>. DEFINE Answered(i) == Exists(i) /\ rows[i].status # "none"
<1>1. ASSUME JournalInv, [Next]_vars
      PROVE  \A i \in Ids : Answered(i) => rows'[i] = rows[i]
  <2>. SUFFICES ASSUME NEW i \in Ids, Answered(i) PROVE rows'[i] = rows[i]
    OBVIOUS
  <2>. USE DEF store, worker, owners
  <2>1. ~Unfinished(i) /\ ~Orphaned(i) /\ i \in 1 .. last /\ rows \in [Ids -> Row]
    BY <1>1 DEF JournalInv, OpenRowsAreBlank, Orphaned, Exists, TypeOK
  <2>2. AfterClosing[i] = rows[i]
    BY <1>1, <2>1, ClosingType DEF JournalInv
  <2>3. ASSUME NEW r \in Requests, RejectInvalid(r) \/ RejectConflict(r) PROVE rows'[i] = rows[i]
    <3>1. i # last + 1
      BY <1>1, <2>1 DEF JournalInv, TypeOK
    <3>. QED BY <2>1, <2>3, <3>1 DEF RejectInvalid, RejectConflict, AppendRejected
  <2>4. ASSUME NEW r \in Requests, ClaimReused(r) PROVE rows'[i] = rows[i]
    BY <2>2, <2>4 DEF ClaimReused
  <2>5. ASSUME NEW r \in Requests, ClaimFresh(r) PROVE rows'[i] = rows[i]
    <3>1. i # last + 1
      BY <1>1, <2>1 DEF JournalInv, TypeOK
    <3>. QED BY <2>2, <2>5, <3>1 DEF ClaimFresh, AfterClosing
  <2>6. ASSUME NEW r \in Requests, Fetch(r) PROVE rows'[i] = rows[i]
    BY <2>1, <2>6 DEF Fetch, Reconciled
  <2>7. ASSUME NEW r \in Requests, Complete(r) PROVE rows'[i] = rows[i]
    <3>1. act[r] # i
      BY <1>1, <2>1, <2>7
      DEF JournalInv, LiveOwnsItsRow, OpenRowsAreBlank, Complete, Live
    <3>. QED BY <2>1, <2>7, <3>1 DEF Complete
  <2>8. CASE UNCHANGED rows
    BY <2>8
  <2>. QED
    BY <1>1, <2>3, <2>4, <2>5, <2>6, <2>7, <2>8
    DEF Next, Claim, Run, Finish, vars, Arrive, ClaimConflict, ClaimFails, Enter, SoftRefresh,
        StartRefresh, EndRefresh, StartReset, QuotaReset, CooldownReset, Fails,
        CompletionLost, Replay, GiveUp, Tick, Restart
<1>2. ASSUME JournalInv, [Next]_vars
      PROVE  [\A i \in Ids : Exists(i) /\ rows[i].status # "none" => rows'[i] = rows[i]]_rows
  BY <1>1, <1>2
<1>. QED BY <1>2, JournalCorrect, PTL DEF Spec, AnswersStand

-----------------------------------------------------------------------------
(* Only a row with a rolled back id can be stranded *)

\* A step that leaves leases, starters and boots alone and opens no row.
LEMMA LeaseKept ==
  ASSUME JournalInv, LeaseInv, UNCHANGED <<boot, leases, undone, act, fresh>>,
         last \in Nat, last' \in {last, last + 1},
         \A i \in Ids : rows'[i].boot = rows[i].boot \/ rows'[i].boot = 0,
         \A i \in Ids : Unfinished(i)' => Unfinished(i) /\ rows'[i].boot = rows[i].boot
  PROVE  LeaseInv'
<1>1. boot \in Nat
  BY DEF JournalInv, TypeOK
<1>2. DOMAIN leases' \subseteq (1 .. last') \cup undone'
  BY DEF LeaseInv
<1>3. \A i \in Ids : rows'[i].boot <= boot'
  BY <1>1 DEF LeaseInv
<1>. QED BY <1>2, <1>3 DEF LeaseInv

\* A claim that commits forgets exactly the entries whose rows it closed, and gives
\* the row it opens an entry of its own.
LEMMA LeaseClaimed ==
  ASSUME JournalInv, LeaseInv, NEW r \in Requests, ClaimReused(r) \/ ClaimFresh(r)
  PROVE  LeaseInv'
<1>. DEFINE new == last + 1
<1>1. /\ pc[r] = "arrived" /\ boot' = boot /\ boot \in Nat /\ last \in Nat /\ undone' = undone
      /\ \A q \in Requests \ {r} : act'[q] = act[q] /\ fresh'[q] = fresh[q]
      /\ \A i \in DOMAIN leases \ Abandoned : leases[i] \in Requests \ {r}
  BY DEF ClaimReused, ClaimFresh, JournalInv, TypeOK, Take, Abandoned, Live, owners
<1>2. \A i \in Ids : AfterClosing[i].boot = rows[i].boot
  BY ClosingType DEF JournalInv
<1>3. ASSUME NEW i \in Ids, Exists(i), AfterClosing[i].fin = 0, rows[i].boot = boot,
             i \notin undone
      PROVE  /\ i \in DOMAIN leases \ Abandoned
             /\ act'[leases[i]] = i /\ fresh'[leases[i]]
  <2>1. Unfinished(i) /\ ~Orphaned(i)
    BY <1>3, ClosingStep
  <2>2. i \in DOMAIN leases \ Abandoned
    BY <1>3, <2>1 DEF Orphaned, LeaseInv
  <2>. QED BY <1>1, <1>3, <2>1, <2>2 DEF LeaseInv
<1>4. CASE ClaimReused(r)
  <2>1. rows' = AfterClosing /\ last' = last /\ leases' = Forget(leases, Abandoned)
    BY <1>4 DEF ClaimReused
  <2>2. DOMAIN leases' = DOMAIN leases \ Abandoned
        /\ \A i \in DOMAIN leases' : leases'[i] = leases[i]
    BY <2>1 DEF Forget
  <2>3. \A i \in Ids : Unfinished(i)' => Exists(i) /\ AfterClosing[i].fin = 0
    BY <2>1 DEF Unfinished, Exists
  <2>. QED BY <1>1, <1>2, <1>3, <2>1, <2>2, <2>3 DEF LeaseInv
<1>5. CASE ClaimFresh(r)
  <2>1. /\ new \in Ids /\ last' = new /\ ~Exists(new)
        /\ act'[r] = new /\ fresh'[r] /\ leases' = Forget(Lease(new, r), Abandoned)
    BY SMTT(30), <1>1, <1>5, Bound DEF ClaimFresh, JournalInv, TypeOK, Ids, Exists, Take
  <2>2. new \notin undone => new \notin Abandoned
    BY <2>1 DEF LeaseInv, Exists, Abandoned
  <2>3. /\ DOMAIN leases' = (DOMAIN leases \cup {new}) \ Abandoned
        /\ new \notin Abandoned => leases'[new] = r
        /\ \A i \in DOMAIN leases \ Abandoned : i # new => leases'[i] = leases[i]
    BY <2>1 DEF Forget, Lease
  <2>4. /\ \A i \in Ids \ {new} : rows'[i] = AfterClosing[i]
        /\ rows'[new].boot = boot
    BY <1>5, <2>1, ClosingType DEF ClaimFresh, JournalInv
  <2>5. \A i \in Ids \ {new} : Unfinished(i)' => Exists(i) /\ AfterClosing[i].fin = 0
    BY <1>1, <2>1, <2>4 DEF Unfinished, Exists
  <2>6. DOMAIN leases' \subseteq (1 .. last') \cup undone'
    BY <1>1, <2>1, <2>3 DEF LeaseInv
  <2>7. \A i \in Ids : rows'[i].boot <= boot'
    BY <1>1, <1>2, <2>4 DEF LeaseInv
  <2>8. ASSUME NEW i \in Ids, Unfinished(i)', rows'[i].boot = boot', i \notin undone'
        PROVE  i \in DOMAIN leases' /\ act'[leases'[i]] = i /\ fresh'[leases'[i]]
    <3>1. CASE i = new
      BY <1>1, <2>1, <2>2, <2>3, <2>8, <3>1
    <3>2. CASE i # new
      BY <1>1, <1>2, <1>3, <2>3, <2>4, <2>5, <2>8, <3>2
    <3>. QED BY <3>1, <3>2
  <2>. QED BY <2>6, <2>7, <2>8 DEF LeaseInv
<1>. QED BY <1>4, <1>5

\* A claim that fails leaves no entry but for the id it rolled back.
LEMMA LeaseUndone ==
  ASSUME JournalInv, LeaseInv, NEW r \in Requests, ClaimFails(r)
  PROVE  LeaseInv'
<1>1. /\ UNCHANGED <<boot, rows, last, act, fresh>> /\ last \in Nat
      /\ \A i : Unfinished(i)' <=> Unfinished(i)
  BY DEF ClaimFails, store, worker, JournalInv, TypeOK, Unfinished, Exists
<1>2. CASE UNCHANGED owners
  BY <1>1, <1>2 DEF owners, LeaseInv
<1>3. CASE leases' = Lease(last + 1, r) /\ undone' = undone \cup {last + 1}
  <2>1. /\ DOMAIN leases' = DOMAIN leases \cup {last + 1}
        /\ \A i \in DOMAIN leases : i # last + 1 => leases'[i] = leases[i]
    BY <1>3 DEF Lease
  <2>2. DOMAIN leases' \subseteq (1 .. last') \cup undone'
    BY <1>1, <1>3, <2>1 DEF LeaseInv
  <2>3. ASSUME NEW i \in Ids, Unfinished(i)', rows'[i].boot = boot', i \notin undone'
        PROVE  i \in DOMAIN leases' /\ act'[leases'[i]] = i /\ fresh'[leases'[i]]
    BY <1>1, <1>3, <2>1, <2>3 DEF LeaseInv
  <2>4. \A i \in Ids : rows'[i].boot <= boot'
    BY <1>1 DEF LeaseInv
  <2>. QED BY <2>2, <2>3, <2>4 DEF LeaseInv
<1>. QED BY <1>2, <1>3 DEF ClaimFails

\* Every step keeps the leases complete but for the ids rolled back.
LEMMA LeaseStep ==
  ASSUME JournalInv, LeaseInv, [Next]_vars
  PROVE  LeaseInv'
<1>. USE DEF store, worker, owners
<1>1. last \in Nat /\ rows \in [Ids -> Row] /\ boot \in Nat /\ now # 0
  BY DEF JournalInv, TypeOK
<1>2. ASSUME NEW r \in Requests, RejectInvalid(r) \/ RejectConflict(r) PROVE LeaseInv'
  <2>1. /\ last' = last + 1 /\ last + 1 \in Ids
        /\ rows'[last + 1].boot = 0 /\ rows'[last + 1].fin = now
        /\ \A i \in Ids \ {last + 1} : rows'[i] = rows[i]
    <3>1. \E kind \in Kinds \cup {req[r].scope.kind} : AppendRejected(kind)
      BY <1>2, ScopesType DEF RejectInvalid, RejectConflict
    <3>2. last + 1 \in Ids
      BY <1>1, <3>1, Bound DEF AppendRejected, Ids
    <3>. QED BY <1>1, <3>1, <3>2 DEF AppendRejected
  <2>2. \A i \in Ids : Unfinished(i)' => Unfinished(i) /\ rows'[i].boot = rows[i].boot
    BY <1>1, <2>1 DEF Unfinished, Exists
  <2>. QED BY <1>1, <1>2, <2>1, <2>2, LeaseKept DEF RejectInvalid, RejectConflict
<1>3. ASSUME NEW r \in Requests, ClaimReused(r) \/ ClaimFresh(r) PROVE LeaseInv'
  BY <1>3, LeaseClaimed
<1>4. ASSUME NEW r \in Requests, Fetch(r) PROVE LeaseInv'
  <2>1. PICK a \in todo[r] : rows' = Reconciled(a) \/ UNCHANGED rows
    BY <1>4 DEF Fetch
  <2>2. \A i \in Ids : rows'[i].boot = rows[i].boot /\ (Unfinished(i)' => Unfinished(i))
    <3>1. \A row \in Row :
            LET closed == [row EXCEPT !.fin = now, !.shared = FALSE]
            IN closed.boot = row.boot /\ closed.fin = now
      BY DEF Row
    <3>2. CASE rows' = Reconciled(a)
      <4>. SUFFICES ASSUME NEW i \in Ids, rows'[i] # rows[i]
                    PROVE  rows'[i].boot = rows[i].boot /\ Unfinished(i)
        BY <1>4, <3>2 DEF Unfinished, Exists, Fetch
      <4>1. Unfinished(i) /\ rows'[i] = [rows[i] EXCEPT !.fin = now, !.shared = FALSE]
        BY <3>2 DEF Reconciled
      <4>. QED BY <1>1, <3>1, <4>1
    <3>. QED BY <1>4, <2>1, <3>2 DEF Unfinished, Exists, Fetch
  <2>. QED BY <1>1, <1>4, <2>2, LeaseKept DEF Fetch
<1>5. ASSUME NEW r \in Requests, Complete(r) PROVE LeaseInv'
  <2>1. act[r] \in Ids
    BY <1>5, ClosingStep DEF Complete, Live
  <2>2. PICK seen \in Shown(r) :
          rows' = [rows EXCEPT ![act[r]] =
                    [rows[act[r]] EXCEPT
                       !.fin = now, !.status = result[r], !.covers = seen,
                       !.shared = rows[act[r]].shared /\ result[r] # "interrupted"]]
    BY <1>5 DEF Complete
  <2>3. LET row == [rows[act[r]] EXCEPT
                      !.fin = now, !.status = result[r], !.covers = seen,
                      !.shared = rows[act[r]].shared /\ result[r] # "interrupted"]
        IN row.boot = rows[act[r]].boot /\ row.fin = now
    BY <1>1, <2>1 DEF Row
  <2>4. /\ rows'[act[r]].boot = rows[act[r]].boot /\ rows'[act[r]].fin = now
        /\ \A i \in Ids \ {act[r]} : rows'[i] = rows[i]
    BY <1>1, <2>1, <2>2, <2>3
  <2>5. \A i \in Ids : Unfinished(i)' => Unfinished(i) /\ rows'[i].boot = rows[i].boot
    BY <1>1, <1>5, <2>4 DEF Unfinished, Exists, Complete
  <2>. QED BY <1>1, <1>5, <2>4, <2>5, LeaseKept DEF Complete
<1>6. ASSUME Restart PROVE LeaseInv'
  <2>1. /\ boot' = boot + 1 /\ rows' = rows /\ last' = last /\ DOMAIN leases' = {}
    BY <1>6 DEF Restart
  <2>2. \A i \in Ids : rows[i].boot <= boot /\ rows[i].boot \in Nat
    BY <1>1 DEF LeaseInv, Row
  <2>. QED BY <1>1, <2>1, <2>2 DEF LeaseInv
<1>7. CASE UNCHANGED <<boot, rows, last, leases, undone, act, fresh>>
  BY <1>1, <1>7, LeaseKept DEF Unfinished, Exists
<1>8. ASSUME NEW r \in Requests, ClaimFails(r) PROVE LeaseInv'
  BY <1>8, LeaseUndone
<1>. QED
  BY <1>2, <1>3, <1>4, <1>5, <1>6, <1>7, <1>8
  DEF Next, Claim, Run, Finish, vars, Arrive, ClaimConflict, Enter, SoftRefresh,
      StartRefresh, EndRefresh, StartReset, QuotaReset, CooldownReset, Fails, CompletionLost,
      Replay, GiveUp, Tick

\* Every open row of this process has its worker or a lease entry by which the next claim
\* finds that the worker is gone, except one whose id was rolled back and given out again.
THEOREM OnlyReusedIdsStrandCorrect == Spec => []OnlyReusedIdsStrand
<1>1. Init => LeaseInv
  BY Bound DEF Init, LeaseInv, Unfinished, Exists
<1>2. ASSUME JournalInv, LeaseInv PROVE OnlyReusedIdsStrand
  <2>. SUFFICES ASSUME NEW i \in Ids, Unfinished(i), rows[i].boot = boot, i \notin undone,
                       i \notin Abandoned
                PROVE  \E r \in Requests : Live(r) /\ act[r] = i
    BY DEF OnlyReusedIdsStrand, Attended
  <2>1. i \in DOMAIN leases /\ act[leases[i]] = i /\ leases[i] \in Requests
    BY <1>2 DEF LeaseInv, JournalInv, TypeOK
  <2>. QED BY <2>1 DEF Abandoned
<1>3. JournalInv /\ LeaseInv /\ [Next]_vars => LeaseInv'
  BY LeaseStep
<1>. QED BY <1>1, <1>2, <1>3, JournalCorrect, PTL DEF Spec

-----------------------------------------------------------------------------
(* Recent work is shared                                                   *)

\* A row keeps its scope, and is kept from others only as AnswersAreShared says.
LEMMA SharedStep ==
  ASSUME JournalInv, AnswersAreShared, [Next]_vars
  PROVE  AnswersAreShared'
<1>. USE DEF store, worker, owners
<1>. DEFINE Kept(row) == row.shared \/ row.scope.kind = "quota_reset"
                                    \/ row.status \in {"client", "interrupted"}
<1>0. /\ last \in Nat /\ rows \in [Ids -> Row] /\ now # 0
      /\ \A i \in Ids : Exists(i) => Kept(rows[i])
  BY DEF JournalInv, TypeOK, AnswersAreShared
<1>. SUFFICES ASSUME NEW i \in Ids, Exists(i)'
              PROVE  Kept(rows'[i])
  BY DEF AnswersAreShared
<1>1. CASE rows'[i] = rows[i] /\ last' = last
  BY <1>0, <1>1 DEF Exists
<1>2. ASSUME NEW kind, AppendRejected(kind) PROVE Kept(rows'[i])
  <2>1. CASE i = last + 1
    BY <1>0, <1>2, <2>1 DEF AppendRejected
  <2>2. CASE i # last + 1
    BY <1>0, <1>2, <2>2 DEF AppendRejected, Exists
  <2>. QED BY <2>1, <2>2
<1>3. Exists(i) => Kept(AfterClosing[i])
  <2>1. CASE Orphaned(i)
    <3>1. AfterClosing[i] = Closed(rows[i])
      BY <2>1 DEF AfterClosing
    <3>2. Closed(rows[i]).status = "interrupted"
      BY <1>0 DEF Closed, Row
    <3>. QED BY <3>1, <3>2
  <2>2. CASE ~Orphaned(i)
    BY <1>0, <2>2 DEF AfterClosing
  <2>. QED BY <2>1, <2>2
<1>4. ASSUME NEW r \in Requests, ClaimReused(r) PROVE Kept(rows'[i])
  BY <1>3, <1>4 DEF ClaimReused, Exists
<1>5. ASSUME NEW r \in Requests, ClaimFresh(r) PROVE Kept(rows'[i])
  <2>1. CASE i = last + 1
    BY <1>0, <1>5, <2>1 DEF ClaimFresh, AfterClosing
  <2>2. CASE i # last + 1
    <3>1. Exists(i)
      BY <1>0, <1>5, <2>2 DEF ClaimFresh, Exists
    <3>2. rows'[i] = AfterClosing[i]
      BY <1>5, <2>2 DEF ClaimFresh, AfterClosing
    <3>. QED BY <1>3, <3>1, <3>2
  <2>. QED BY <2>1, <2>2
<1>6. ASSUME NEW r \in Requests, Fetch(r) PROVE Kept(rows'[i])
  <2>1. PICK a \in todo[r] : rows' = Reconciled(a) \/ UNCHANGED rows
    BY <1>6 DEF Fetch
  <2>2. CASE rows'[i] # rows[i]
    <3>1. /\ rows[i].scope = [kind |-> "quota_reset", target |-> a]
          /\ rows'[i] = [rows[i] EXCEPT !.fin = now, !.shared = FALSE]
      BY <2>1, <2>2 DEF Reconciled
    <3>2. rows'[i].scope = rows[i].scope
      BY <1>0, <3>1 DEF Row
    <3>. QED BY <3>1, <3>2
  <2>. QED BY <1>1, <1>6, <2>2 DEF Fetch
<1>7. ASSUME NEW r \in Requests, Complete(r) PROVE Kept(rows'[i])
  <2>1. PICK seen \in Shown(r) :
          rows' = [rows EXCEPT ![act[r]] =
                    [rows[act[r]] EXCEPT
                       !.fin = now, !.status = result[r], !.covers = seen,
                       !.shared = rows[act[r]].shared /\ result[r] # "interrupted"]]
    BY <1>7 DEF Complete
  <2>2. CASE i = act[r]
    <3>1. Live(r)
      BY <1>7 DEF Complete, Live
    <3>2. /\ rows[i].scope = req[r].scope
          /\ Unfinished(i) \/ KindOf(r) = "quota_reset"
          /\ Exists(i)
      BY <2>2, <3>1 DEF JournalInv, LiveOwnsItsRow
    <3>3. rows[i].shared \/ rows[i].scope.kind = "quota_reset"
      BY <1>0, <3>2 DEF JournalInv, OpenRowsAreBlank, KindOf
    <3>. DEFINE sh == rows[i].shared /\ result[r] # "interrupted"
    <3>4. rows'[i] = [rows[i] EXCEPT !.fin = now, !.status = result[r], !.covers = seen,
                                     !.shared = sh]
      BY <1>0, <2>1, <2>2
    <3>. HIDE DEF sh
    <3>5. /\ rows'[i].scope = rows[i].scope /\ rows'[i].status = result[r]
          /\ rows'[i].shared = sh
      BY <1>0, <3>4 DEF Row
    <3>6. CASE result[r] = "interrupted"
      BY <3>5, <3>6
    <3>7. CASE result[r] # "interrupted" /\ rows[i].shared
      <4>1. sh
        BY <3>7 DEF sh
      <4>. QED BY <3>5, <4>1
    <3>8. CASE rows[i].scope.kind = "quota_reset"
      BY <3>5, <3>8
    <3>. QED BY <3>3, <3>6, <3>7, <3>8
  <2>3. CASE i # act[r]
    BY <1>1, <1>7, <2>1, <2>3 DEF Complete
  <2>. QED BY <2>2, <2>3
<1>8. CASE UNCHANGED <<rows, last>>
  BY <1>1, <1>8
<1>. QED
  BY <1>2, <1>4, <1>5, <1>6, <1>7, <1>8
  DEF Next, Claim, Run, Finish, vars, Arrive, RejectInvalid, RejectConflict, ClaimConflict,
      ClaimFails, Enter, SoftRefresh, StartRefresh, EndRefresh, StartReset, QuotaReset,
      CooldownReset, Fails, CompletionLost, Replay, GiveUp, Tick, Restart

\* Only a claim that joins nothing starts an action.
LEMMA FreshIsClaimed ==
  ASSUME TypeOK, [Next]_vars, NEW r \in Requests, ~fresh[r], fresh'[r]
  PROVE  ClaimFresh(r)
<1>. USE DEF store, worker, owners
<1>1. ASSUME NEW q \in Requests, ClaimFresh(q) PROVE q = r
  BY <1>1 DEF ClaimFresh, Take, TypeOK
<1>2. ASSUME NEW q \in Requests, ClaimReused(q) PROVE FALSE
  BY <1>2 DEF ClaimReused, Take, TypeOK
<1>3. CASE UNCHANGED fresh
  BY <1>3
<1>. QED
  BY <1>1, <1>2, <1>3
  DEF Next, Claim, Run, Finish, vars, Arrive, RejectInvalid, RejectConflict, ClaimConflict,
      ClaimFails, Enter, SoftRefresh, StartRefresh, Fetch, EndRefresh, StartReset, QuotaReset,
      CooldownReset, Fails, Complete, Gone, CompletionLost, Replay, GiveUp, Tick, Restart

\* A claim joins a result of its scope that is at most REUSE_FOR old, for any window and any
\* clock, unless a reset was journaled since or the action was closed unanswered.
THEOREM RecentWorkIsSharedCorrect == Spec => RecentWorkIsShared
<1>. DEFINE Shares ==
       \A r \in Requests : ~fresh[r] /\ fresh'[r] =>
         \A i \in Ids :
           /\ Exists(i) /\ rows[i].scope = req[r].scope
           /\ rows[i].status \in {"ok", "server"}
           /\ rows[i].fin + ReuseFor >= req[r].at
           => \/ KindOf(r) = "hard_refresh" /\ ResetSince(i, TargetOf(r))
              \/ KindOf(r) = "quota_reset" /\ ~rows[i].shared
<1>1. ASSUME JournalInv, AnswersAreShared, [Next]_vars PROVE Shares
  <2>. SUFFICES ASSUME NEW r \in Requests, ~fresh[r], fresh'[r], NEW i \in Ids, Exists(i),
                       rows[i].scope = req[r].scope, rows[i].status \in {"ok", "server"},
                       rows[i].fin + ReuseFor >= req[r].at,
                       KindOf(r) = "quota_reset" => rows[i].shared,
                       ~ (KindOf(r) = "hard_refresh" /\ ResetSince(i, TargetOf(r)))
                PROVE  FALSE
    OBVIOUS
  <2>1. TypeOK
    BY <1>1 DEF JournalInv
  <2>2. ClaimFresh(r)
    BY <1>1, <2>1, FreshIsClaimed
  <2>3. Joined(r) = NoId
    BY <2>2 DEF ClaimFresh
  <2>4. req[r].key \notin DOMAIN keys
    BY <2>1, <2>3 DEF Joined, TypeOK, Ids, NoId
  <2>5. Saved(req[r].scope, req[r].at) = NoId
    BY <2>3, <2>4 DEF Joined
  <2>6. Answers(i, req[r].scope, req[r].at)
    <3>1. ~Unfinished(i)
      BY <1>1 DEF JournalInv, OpenRowsAreBlank
    <3>2. rows[i].shared
      BY <1>1 DEF AnswersAreShared, KindOf
    <3>3. rows[i].fin >= req[r].at - ReuseFor
      <4>1. rows[i].fin \in Nat /\ req[r].at \in Nat /\ ReuseFor \in Nat
        BY <2>1, ConstantsAssumption DEF TypeOK, Row
      <4>. QED BY <4>1
    <3>4. SameTarget(i, req[r].scope) /\ rows[i].scope.kind = req[r].scope.kind
      BY DEF SameTarget
    <3>. QED BY <3>1, <3>2, <3>3, <3>4 DEF Answers, KindOf, TargetOf
  <2>7. {j \in Ids : Answers(j, req[r].scope, req[r].at)} # {}
    BY <2>6
  <2>. QED BY <2>5, <2>7, NewestType DEF Saved
<1>2. Init => AnswersAreShared
  BY DEF Init, AnswersAreShared, Exists, Ids
<1>3. JournalInv /\ AnswersAreShared /\ [Next]_vars => AnswersAreShared'
  BY SharedStep
<1>4. JournalInv /\ AnswersAreShared /\ [Next]_vars => [Shares]_fresh
  BY <1>1
<1>. QED BY <1>2, <1>3, <1>4, JournalCorrect, PTL DEF Spec, RecentWorkIsShared
=============================================================================
