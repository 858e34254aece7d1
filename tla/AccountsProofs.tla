--------------------------- MODULE AccountsProofs ---------------------------
(* Proofs about Accounts: links stay one step long and acyclic whatever    *)
(* the order of the merges, no request counts towards two accounts' plans, *)
(* a joined pair keeps its leverage, and a reader that reads again only    *)
(* what was recorded always has the database's own view.                   *)
EXTENDS Accounts, TLAPS, FiniteSetTheorems

-----------------------------------------------------------------------------
(* Replacements *)

\* A replaced credential is replaced by one that IsReplacement accepts.
LEMMA ReplacementIs ==
  ASSUME NEW d, NEW a \in Accounts, Replacement(d, a) # None
  PROVE  Replacement(d, a) \in Accounts /\ IsReplacement(d, a, Replacement(d, a))
BY Zenon DEF Replacement

\* A credential the gateway lists is not replaced.
LEMMA ListedIsNotReplaced ==
  ASSUME NEW d, NEW a \in Accounts, d.credential[a] = "on"
  PROVE  Replacement(d, a) = None
BY DEF Replacement

\* Nothing is replaced by itself, nor by an account with a plan.
LEMMA ReplacedByAnother ==
  ASSUME NEW d, NEW a \in Accounts, NEW b \in Accounts, IsReplacement(d, a, b)
  PROVE  a # b /\ ~HasPlan(d, b) /\ d.credential[b] = "on"
BY DEF IsReplacement, Continues

\* Two removed credentials under one label rule each other out.
LEMMA ReplacedAlone ==
  ASSUME NEW d, NEW a \in Accounts, NEW b \in Accounts, NEW c \in Accounts,
         IsReplacement(d, a, c), IsReplacement(d, b, c)
  PROVE  a = b
<1>. SUFFICES ASSUME a # b PROVE FALSE
  OBVIOUS
<1>1. d.account[a].label = d.account[c].label /\ d.account[b].label = d.account[c].label
  BY DEF IsReplacement
<1>2. Alike(d, a, c)
  BY DEF IsReplacement, Continues
<1>3. <<d.account[a].label, d.account[a].label>> \in Like /\ d.account[a].label # None
  BY <1>1, <1>2 DEF Alike
<1>4. Alike(d, b, a)
  BY <1>1, <1>3 DEF Alike
<1>5. b \in Unmerged(d) \ {a, c}
  BY ReplacedByAnother DEF IsReplacement, Continues
<1>. QED BY <1>4, <1>5 DEF IsReplacement

-----------------------------------------------------------------------------
(* Each write keeps the rows well formed. *)

\* Every pair dismissed is of two accounts.
LEMMA PairOfTwo ==
  ASSUME NEW a \in Accounts, NEW b \in Accounts, a # b
  PROVE  Cardinality({a, b}) = 2
<1>1. {a, b} = {a} \cup {b} /\ b \notin {a}
  OBVIOUS
<1>2. IsFiniteSet({a}) /\ Cardinality({a}) = 1
  BY FS_Singleton
<1>3. Cardinality({a} \cup {b}) = Cardinality({a}) + 1
  BY <1>1, <1>2, FS_AddElement
<1>. QED BY <1>1, <1>2, <1>3

\* A label the gateway gives is one of Labels, or none.
LEMMA LabelIsKnown ==
  ASSUME NEW a \in Accounts, NEW label \in LabelsOf[a]
  PROVE  label \in Labels \cup {None}
<1>. DEFINE U == UNION {LabelsOf[b] : b \in Accounts}
<1>1. LabelsOf[a] \in {LabelsOf[b] : b \in Accounts}
  OBVIOUS
<1>2. label \in U
  BY <1>1
<1>3. Labels = U \ {None}
  BY Zenon DEF Labels
<1>. HIDE DEF U
<1>. QED BY <1>2, <1>3

\* The seen window stays within the bound.
LEMMA LeastInRange ==
  ASSUME NEW i \in 0..MaxTime, NEW j \in 0..MaxTime
  PROVE  Least(i, j) \in 0..MaxTime
BY DEF Least

\* Widening keeps a row's label and link.
LEMMA WidenedRow ==
  ASSUME NEW row \in AccountRow, NEW at \in 0..MaxTime
  PROVE  /\ Widened(row, at) \in AccountRow
         /\ Widened(row, at).merged = row.merged
<1>1. row.first \in 0..MaxTime
  BY DEF AccountRow
<1>2. Least(row.first, at) \in 0..MaxTime
  BY <1>1, LeastInRange
<1>. QED BY <1>2 DEF Widened, AccountRow

\* An upsert leaves a row where one was or was missing, and keeps its link.
LEMMA UpsertedRow ==
  ASSUME NEW row \in AccountRow \cup {None}, NEW label \in Labels \cup {None},
         NEW at \in 0..MaxTime, NEW widens \in BOOLEAN
  PROVE  /\ UpsertRow(row, label, at, widens) \in AccountRow
         /\ UpsertRow(row, label, at, widens).merged = IF row = None THEN None ELSE row.merged
<1>1. CASE row = None
  BY <1>1 DEF UpsertRow, AccountRow
<1>2. CASE row # None
  <2>1. row \in AccountRow /\ row.first \in 0..MaxTime
    BY <1>2 DEF AccountRow
  <2>2. (IF widens THEN Least(row.first, at) ELSE row.first) \in 0..MaxTime
    BY <2>1, LeastInRange
  <2>. QED BY <1>2, <2>1, <2>2 DEF UpsertRow, AccountRow
<1>. QED BY <1>1, <1>2

-----------------------------------------------------------------------------
(* Links *)

\* Rows are never dropped and a row's link stands; new rows have none.
KeepsLinks(d, e) ==
  \A x \in Accounts :
    /\ d.account[x] # None => e.account[x] # None /\ e.account[x].merged = d.account[x].merged
    /\ d.account[x] = None /\ e.account[x] # None => e.account[x].merged = None

\* Such a write keeps links one step long if what it charges is not merged.
LEMMA LinksKept ==
  ASSUME NEW d \in Rows, NEW e \in Rows, LinkedInOneStep(d), KeepsLinks(d, e),
         \A x \in Events : e.charged[x] = d.charged[x] \/ e.charged[x] \in Unmerged(e)
  PROVE  LinkedInOneStep(e)
<1>1. Unmerged(d) \subseteq Unmerged(e)
  BY DEF Unmerged, Known, KeepsLinks
<1>2. ASSUME NEW a \in Known(e), e.account[a].merged # None
      PROVE  e.account[a].merged \in Unmerged(e)
  BY <1>1, <1>2 DEF LinkedInOneStep, Known, KeepsLinks
<1>3. ASSUME NEW x \in Events, e.charged[x] # None
      PROVE  e.charged[x] \in Unmerged(e)
  BY <1>1, <1>3 DEF LinkedInOneStep
<1>. QED BY <1>2, <1>3 DEF LinkedInOneStep

\* resolve() charges an account that is not merged, and keeps every link.
LEMMA ResolvedKeeps ==
  ASSUME NEW d \in Rows, LinkedInOneStep(d), NEW a \in Accounts, NEW label \in LabelsOf[a],
         NEW at \in 0..MaxTime, NEW event \in Events
  PROVE  LET e == Resolved(d, a, label, at, event)
         IN e \in Rows /\ KeepsLinks(d, e) /\ LinkedInOneStep(e) /\ e.dismissed = d.dismissed
<1>. DEFINE row == UpsertRow(d.account[a], label, at, TRUE)
            u == Upsert(d, a, label, at, TRUE)
            t == Target(u, a)
            wide == Widened(u.account[t], at)
            e1 == [u EXCEPT !.account = [u.account EXCEPT ![t] = wide]]
            e == Resolved(d, a, label, at, event)
<1>1. label \in Labels \cup {None} /\ d.account[a] \in AccountRow \cup {None}
  <2>1. d.account[a] \in AccountRow \cup {None}
    BY DEF Rows
  <2>. QED BY <2>1, LabelIsKnown
<1>2. row \in AccountRow /\ row.merged = IF d.account[a] = None THEN None ELSE d.account[a].merged
  BY <1>1, UpsertedRow
<1>3. u = [d EXCEPT !.account = [d.account EXCEPT ![a] = row]]
  BY DEF Upsert
<1>. HIDE DEF row, u
<1>4. /\ u \in Rows /\ u.charged = d.charged /\ u.dismissed = d.dismissed
      /\ u.account = [d.account EXCEPT ![a] = row]
  BY <1>2, <1>3 DEF Rows
<1>5. u.account[a] = row /\ row # None /\ \A x \in Accounts \ {a} : u.account[x] = d.account[x]
  BY <1>2, <1>4, AccountsAssumption DEF Rows
<1>6. KeepsLinks(d, u)
  BY <1>2, <1>5 DEF KeepsLinks
<1>7. LinkedInOneStep(u)
  BY <1>4, <1>6, LinksKept
<1>8. t \in Unmerged(u)
  <2>1. a \in Known(u)
    BY <1>5 DEF Known
  <2>. QED BY <2>1, <1>7 DEF Target, LinkedInOneStep, Unmerged
<1>9. t \in Accounts /\ u.account[t] \in AccountRow /\ u.account[t].merged = None
  BY <1>4, <1>8 DEF Unmerged, Known, Rows
<1>. HIDE DEF t
<1>10. wide \in AccountRow /\ wide.merged = None
  BY <1>9, WidenedRow
<1>11. e = [e1 EXCEPT !.charged = [e1.charged EXCEPT ![event] = t]]
  BY Zenon DEF Resolved, u, t
<1>. HIDE DEF wide
<1>19. /\ e1 \in Rows /\ e1.account = [u.account EXCEPT ![t] = wide]
       /\ e1.charged = u.charged /\ e1.dismissed = d.dismissed
  BY <1>4, <1>9, <1>10 DEF Rows
<1>. HIDE DEF e1, e
<1>12. /\ e \in Rows /\ e.account = [u.account EXCEPT ![t] = wide]
       /\ e.charged = [u.charged EXCEPT ![event] = t] /\ e.dismissed = d.dismissed
  BY <1>9, <1>11, <1>19 DEF Rows
<1>13. e.account[t] = wide /\ wide # None /\ \A x \in Accounts \ {t} : e.account[x] = u.account[x]
  BY <1>4, <1>9, <1>10, <1>12, AccountsAssumption DEF Rows
<1>14. KeepsLinks(u, e)
  BY <1>9, <1>10, <1>13 DEF KeepsLinks
<1>15. t \in Unmerged(e)
  BY <1>9, <1>10, <1>13 DEF Unmerged, Known
<1>16. \A x \in Events : e.charged[x] = u.charged[x] \/ e.charged[x] \in Unmerged(e)
  BY <1>4, <1>12, <1>15 DEF Rows
<1>17. LinkedInOneStep(e)
  BY <1>4, <1>7, <1>12, <1>14, <1>16, LinksKept
<1>18. KeepsLinks(d, e)
  BY <1>6, <1>14 DEF KeepsLinks
<1>. QED BY <1>12, <1>17, <1>18 DEF e

\* A list keeps every link and charges nothing.
LEMMA ListedKeeps ==
  ASSUME NEW d \in Rows, LinkedInOneStep(d), now \in 0..MaxTime,
         NEW S \in SUBSET Accounts, NEW named, DOMAIN named = S,
         \A a \in S : named[a] \in Entries(a)
  PROVE  LET e == Listed(d, named)
         IN e \in Rows /\ KeepsLinks(d, e) /\ LinkedInOneStep(e) /\ e.dismissed = d.dismissed
<1>. DEFINE known == [a \in Accounts |->
               IF a \in DOMAIN named THEN Upsert(d, a, named[a].label, now, FALSE).account[a]
               ELSE d.account[a]]
            observed(b) == {a \in DOMAIN named : Target([d EXCEPT !.account = known], a) = b}
            marks == [b \in Accounts |->
               IF observed(b) # {} THEN named[CHOOSE a \in observed(b) : TRUE].status
               ELSE IF d.credential[b] = None THEN None ELSE "removed"]
            e1 == [d EXCEPT !.account = known]
            e == Listed(d, named)
<1>1. ASSUME NEW a \in Accounts
      PROVE  /\ known[a] \in AccountRow \cup {None}
             /\ d.account[a] # None => known[a] # None /\ known[a].merged = d.account[a].merged
             /\ d.account[a] = None /\ known[a] # None => known[a].merged = None
  <2>1. d.account[a] \in AccountRow \cup {None}
    BY DEF Rows
  <2>2. CASE a \in S
    <3>. DEFINE label == named[a].label
                row == UpsertRow(d.account[a], label, now, FALSE)
    <3>1. label \in LabelsOf[a]
      BY <2>2 DEF Entries
    <3>2. label \in Labels \cup {None}
      BY <3>1, LabelIsKnown
    <3>. HIDE DEF label
    <3>3. row \in AccountRow /\ row.merged = IF d.account[a] = None THEN None ELSE d.account[a].merged
      BY <2>1, <3>2, UpsertedRow
    <3>. HIDE DEF row
    <3>. DEFINE rows == [d.account EXCEPT ![a] = row]
                u == Upsert(d, a, label, now, FALSE)
    <3>4. u = [d EXCEPT !.account = rows]
      BY Zenon DEF Upsert, row
    <3>7. rows[a] = row /\ rows \in [Accounts -> AccountRow \cup {None}]
      BY <3>3 DEF Rows
    <3>. HIDE DEF rows, known, u
    <3>8. u.account = rows /\ u \in Rows
      BY <3>4, <3>7 DEF Rows
    <3>5. Upsert(d, a, label, now, FALSE).account[a] = row
      BY <3>7, <3>8 DEF u
    <3>6. known[a] = row
      BY <2>2, <3>5 DEF label, known
    <3>. HIDE DEF known
    <3>. QED BY <3>3, <3>6, AccountsAssumption
  <2>3. CASE a \notin S
    <3>1. known[a] = d.account[a]
      BY <2>3
    <3>. HIDE DEF known
    <3>. QED BY <2>1, <3>1
  <2>. QED BY <2>2, <2>3
<1>2. known \in [Accounts -> AccountRow \cup {None}]
  BY <1>1, Zenon
<1>3. ASSUME NEW b \in Accounts
      PROVE  marks[b] \in {None, "on", "off", "removed"}
  <2>1. CASE observed(b) # {}
    <3>1. PICK a \in S : marks[b] = named[a].status
      <4>. HIDE DEF known
      <4>1. (CHOOSE a \in observed(b) : TRUE) \in S
        BY <2>1
      <4>. QED BY <2>1, <4>1
    <3>2. named[a].status \in {"on", "off"}
      BY <3>1 DEF Entries
    <3>. QED BY <3>1, <3>2
  <2>2. CASE observed(b) = {}
    BY <2>2
  <2>. QED BY <2>1, <2>2
<1>4. marks \in [Accounts -> {None, "on", "off", "removed"}]
  <2>. HIDE DEF observed
  <2>. QED BY <1>3, Zenon
<1>5. e = [e1 EXCEPT !.credential = marks]
  BY Zenon DEF Listed
<1>6. \A x \in Accounts :
        /\ d.account[x] # None => known[x] # None /\ known[x].merged = d.account[x].merged
        /\ d.account[x] = None /\ known[x] # None => known[x].merged = None
  BY <1>1
<1>. HIDE DEF known, marks
<1>7. e1 \in Rows /\ e1.account = known /\ e1.charged = d.charged /\ e1.dismissed = d.dismissed
  BY <1>2 DEF Rows
<1>. HIDE DEF e1, e
<1>8. e \in Rows /\ e.account = known /\ e.charged = d.charged /\ e.dismissed = d.dismissed
  BY <1>4, <1>5, <1>7 DEF Rows
<1>9. KeepsLinks(d, e)
  BY <1>6, <1>8 DEF KeepsLinks
<1>10. LinkedInOneStep(e)
  BY <1>8, <1>9, LinksKept
<1>. QED BY <1>8, <1>9, <1>10 DEF e

\* merge() moves the events, the plans and the links of a to b, which stays unmerged.
LEMMA MergedKeeps ==
  ASSUME NEW d \in Rows, LinkedInOneStep(d), NEW a \in Accounts, NEW b \in Accounts,
         a # b, a \in Unmerged(d), b \in Unmerged(d)
  PROVE  LET e == Merged(d, a, b)
         IN /\ e \in Rows /\ LinkedInOneStep(e)
            /\ e.charged = MovedEvents(d, a, b) /\ e.plan = MovedPlans(d, a, b)
            /\ e.account = MergedRows(d, a, b) /\ e.credential = d.credential
            /\ e.dismissed = d.dismissed
<1>. DEFINE rows == MergedRows(d, a, b)
            events == MovedEvents(d, a, b)
            plans == MovedPlans(d, a, b)
            e1 == [d EXCEPT !.charged = events]
            e2 == [e1 EXCEPT !.plan = plans]
            e == Merged(d, a, b)
<1>1. /\ d.account[a] \in AccountRow /\ d.account[a].merged = None
      /\ d.account[b] \in AccountRow /\ d.account[b].merged = None
      /\ d.account[a].first \in 0..MaxTime
  BY DEF Rows, Unmerged, Known, AccountRow
<1>2. rows[b] \in AccountRow /\ rows[b].merged = None
  BY <1>1, WidenedRow DEF MergedRows
<1>3. ASSUME NEW x \in Accounts \ {b}
      PROVE  /\ rows[x] \in AccountRow \cup {None}
             /\ rows[x] # None => /\ d.account[x] # None
                                 /\ IF x = a \/ d.account[x].merged = a THEN rows[x].merged = b
                                    ELSE rows[x] = d.account[x]
  <2>1. d.account[x] \in AccountRow \cup {None}
    BY DEF Rows
  <2>2. CASE x = a \/ (d.account[x] # None /\ d.account[x].merged = a)
    <3>1. d.account[x] \in AccountRow
      BY <1>1, <2>1, <2>2
    <3>2. rows[x] = [d.account[x] EXCEPT !.merged = b]
      BY <2>2 DEF MergedRows
    <3>3. rows[x] \in AccountRow /\ rows[x].merged = b
      BY <3>1, <3>2 DEF AccountRow
    <3>. QED BY <2>2, <3>1, <3>3, AccountsAssumption
  <2>3. CASE ~(x = a \/ (d.account[x] # None /\ d.account[x].merged = a))
    <3>1. rows[x] = d.account[x]
      BY <2>3 DEF MergedRows
    <3>. QED BY <2>1, <2>3, <3>1
  <2>. QED BY <2>2, <2>3
<1>4. rows \in [Accounts -> AccountRow \cup {None}]
  <2>1. DOMAIN rows = Accounts /\ rows = [x \in Accounts |-> rows[x]]
    BY DEF MergedRows
  <2>2. \A x \in Accounts : rows[x] \in AccountRow \cup {None}
    BY <1>2, <1>3
  <2>. HIDE DEF rows
  <2>. QED BY <2>1, <2>2
<1>5. events \in [Events -> Accounts \cup {None}] /\ plans \in [Plans -> Accounts \cup {None}]
  BY DEF Rows, MovedEvents, MovedPlans
<1>6. \A x \in Events : events[x] = IF d.charged[x] = a THEN b ELSE d.charged[x]
  BY DEF MovedEvents
<1>7. e = [e2 EXCEPT !.account = rows]
  BY Zenon DEF Merged
<1>. HIDE DEF rows, events, plans
<1>8. /\ e1 \in Rows /\ e1.charged = events /\ e1.credential = d.credential
      /\ e1.dismissed = d.dismissed
  BY <1>5 DEF Rows
<1>. HIDE DEF e1
<1>9. /\ e2 \in Rows /\ e2.charged = events /\ e2.plan = plans
      /\ e2.credential = d.credential /\ e2.dismissed = d.dismissed
  BY <1>5, <1>8 DEF Rows
<1>. HIDE DEF e2, e
<1>10. /\ e \in Rows /\ e.charged = events /\ e.plan = plans
       /\ e.account = rows /\ e.credential = d.credential /\ e.dismissed = d.dismissed
  BY <1>4, <1>7, <1>9 DEF Rows
<1>11. b \in Unmerged(e)
  BY <1>2, <1>10, AccountsAssumption DEF Unmerged, Known
<1>12. Unmerged(d) \ {a} \subseteq Unmerged(e)
  <2>. SUFFICES ASSUME NEW x \in Unmerged(d) \ {a, b} PROVE x \in Unmerged(e)
    BY <1>11
  <2>1. rows[x] = d.account[x]
    BY AccountsAssumption DEF rows, MergedRows, Unmerged, Known
  <2>. QED BY <1>10, <2>1 DEF Unmerged, Known
<1>13. ASSUME NEW x \in Known(e), e.account[x].merged # None
       PROVE  e.account[x].merged \in Unmerged(e)
  <2>1. x \in Accounts \ {b} /\ rows[x] # None
    BY <1>2, <1>10, <1>13 DEF Known
  <2>2. CASE x = a \/ d.account[x].merged = a
    BY <1>3, <1>10, <1>11, <2>1, <2>2
  <2>3. CASE ~(x = a \/ d.account[x].merged = a)
    <3>1. rows[x] = d.account[x] /\ x \in Known(d)
      BY <1>3, <2>1, <2>3 DEF Known
    <3>. QED BY <1>10, <1>12, <1>13, <2>3, <3>1 DEF LinkedInOneStep
  <2>. QED BY <2>2, <2>3
<1>14. ASSUME NEW x \in Events, e.charged[x] # None
       PROVE  e.charged[x] \in Unmerged(e)
  BY <1>6, <1>10, <1>11, <1>12, <1>14 DEF LinkedInOneStep
<1>15. LinkedInOneStep(e)
  BY <1>13, <1>14 DEF LinkedInOneStep
<1>. QED BY <1>10, <1>15 DEF e, rows, events, plans

-----------------------------------------------------------------------------
(* What a write records *)

\* A snapshot leaves out only what reads the same.
LEMMA SnapshotTells ==
  ASSUME NEW d, NEW e
  PROVE  \A s \in Subjects \ SnapshotChanges(d, e) : View(d)[s] = View(e)[s]
BY Zenon DEF SnapshotChanges

\* A write that moves plans or decisions alone records what it moves: the plans it
\* names, and the replaced accounts whose replacement it moves, with their plans.
LEMMA LinksTell ==
  ASSUME NEW d \in Rows, NEW e \in Rows, e.account = d.account, e.credential = d.credential,
         NEW changed, LinkChanges(d, e) \subseteq changed,
         \A p \in Plans : e.plan[p] # d.plan[p] => <<"plan", p>> \in changed
  PROVE  \A s \in Subjects \ changed : View(d)[s] = View(e)[s]
<1>. DEFINE before == [a \in Accounts |-> Replacement(d, a)]
            after == [a \in Accounts |-> Replacement(e, a)]
            moved == {a \in Accounts : Replacement(d, a) # Replacement(e, a)}
<1>1. Known(d) = Known(e)
  BY DEF Known
<1>2. ASSUME NEW a \in Accounts, a \notin moved
      PROVE  AccountView(d, before, a) = AccountView(e, after, a)
  <2>1. before[a] = after[a]
    BY <1>2
  <2>. HIDE DEF before, after
  <2>. QED BY <1>1, <2>1, Zenon DEF AccountView
<1>3. ASSUME NEW p \in Plans, e.plan[p] = d.plan[p], e.plan[p] \notin moved
      PROVE  PlanView(d, before, p) = PlanView(e, after, p)
  <2>1. CASE d.plan[p] = None
    BY <1>3, <2>1 DEF PlanView
  <2>2. CASE d.plan[p] # None
    <3>1. d.plan[p] \in Accounts
      BY <2>2 DEF Rows
    <3>2. before[d.plan[p]] = after[d.plan[p]]
      BY <1>3, <3>1
    <3>. HIDE DEF before, after
    <3>. QED BY <1>3, <3>2 DEF PlanView
  <2>. QED BY <2>1, <2>2
<1>. DEFINE f(s) == IF s[1] = "account" THEN AccountView(d, before, s[2])
                                       ELSE PlanView(d, before, s[2])
            g(s) == IF s[1] = "account" THEN AccountView(e, after, s[2])
                                       ELSE PlanView(e, after, s[2])
<1>4. \A s \in Subjects : View(d)[s] = f(s) /\ View(e)[s] = g(s)
  <2>1. View(d) = [s \in Subjects |-> f(s)] /\ View(e) = [s \in Subjects |-> g(s)]
    BY Zenon DEF View
  <2>. HIDE DEF f, g
  <2>. QED BY <2>1
<1>5. LinkChanges(d, e) = ({"account"} \X moved) \cup ({"plan"} \X {p \in Plans : e.plan[p] \in moved})
  BY Zenon DEF LinkChanges
<1>. HIDE DEF before, after, moved
<1>. SUFFICES ASSUME NEW s \in Subjects, s \notin changed PROVE View(d)[s] = View(e)[s]
  BY Zenon
<1>6. CASE s \in {"account"} \X Accounts
  <2>1. PICK a \in Accounts : s = <<"account", a>>
    BY <1>6
  <2>2. a \notin moved
    BY <1>5, <2>1
  <2>3. s[1] = "account" /\ s[2] = a
    BY <2>1
  <2>4. f(s) = g(s)
    BY <1>2, <2>2, <2>3
  <2>. QED BY <1>4, <2>4, Zenon
<1>7. CASE s \in {"plan"} \X Plans
  <2>1. PICK p \in Plans : s = <<"plan", p>>
    BY <1>7
  <2>2. e.plan[p] = d.plan[p] /\ e.plan[p] \notin moved
    BY <1>5, <2>1
  <2>3. s[1] # "account" /\ s[2] = p
    BY <2>1
  <2>4. f(s) = g(s)
    BY <1>3, <2>2, <2>3
  <2>. QED BY <1>4, <2>4, Zenon
<1>. QED BY <1>6, <1>7 DEF Subjects

\* The reader that knew the rows before knows them after a write that tells.
LEMMA CommitTells ==
  ASSUME NEW e, NEW changed, Commit(e, changed), ReaderKnows,
         \A s \in Subjects \ changed : View(db)[s] = View(e)[s]
  PROVE  ReaderKnows'
<1>1. db' = e /\ seen' = [s \in Subjects |-> IF s \in changed THEN View(e)[s] ELSE seen[s]]
  BY Zenon DEF Commit
<1>2. \A s \in Subjects : seen'[s] = View(e)[s]
  BY <1>1 DEF ReaderKnows
<1>3. View(e) = [s \in Subjects |-> View(e)[s]]
  <2>. DEFINE links == [a \in Accounts |-> Replacement(e, a)]
  <2>1. View(e) = [s \in Subjects |->
          IF s[1] = "account" THEN AccountView(e, links, s[2]) ELSE PlanView(e, links, s[2])]
    BY Zenon DEF View
  <2>. DEFINE f(s) == IF s[1] = "account" THEN AccountView(e, links, s[2])
                                         ELSE PlanView(e, links, s[2])
  <2>2. View(e) = [s \in Subjects |-> f(s)]
    BY <2>1, Zenon
  <2>. HIDE DEF f
  <2>3. \A s \in Subjects : View(e)[s] = f(s)
    BY <2>2
  <2>. QED BY <2>2, <2>3
<1>4. seen' = View(e)
  BY <1>1, <1>2, <1>3
<1>5. View(db') = View(e)
  BY <1>1, Zenon
<1>6. seen' = View(db')
  BY <1>4, <1>5, Zenon
<1>. QED BY <1>6 DEF ReaderKnows, View

-----------------------------------------------------------------------------
(* The invariant *)

AccountsInv == TypeOK /\ OneStep /\ ReaderKnows

\* A transaction of well-formed, linked rows that records what it changes keeps it all.
LEMMA CommitKeeps ==
  ASSUME AccountsInv, NEW e \in Rows, LinkedInOneStep(e),
         \A pair \in e.dismissed : Cardinality(pair) = 2,
         NEW changed, \A s \in Subjects \ changed : View(db)[s] = View(e)[s],
         Commit(e, changed)
  PROVE  AccountsInv'
<1>1. db' = e /\ now' = now
  BY Zenon DEF Commit
<1>2. DOMAIN seen' = Subjects
  <2>. DEFINE f(s) == IF s \in changed THEN View(e)[s] ELSE seen[s]
  <2>1. seen' = [s \in Subjects |-> f(s)]
    BY Zenon DEF Commit
  <2>. HIDE DEF f
  <2>. QED BY <2>1
<1>3. TypeOK'
  BY <1>1, <1>2 DEF AccountsInv, TypeOK, Subjects, Rows, AccountRow
<1>4. OneStep'
  BY <1>1 DEF OneStep, LinkedInOneStep, Unmerged, Known
<1>5. ReaderKnows'
  BY CommitTells DEF AccountsInv
<1>. QED BY <1>3, <1>4, <1>5 DEF AccountsInv

\* A record charges its account in the transaction that stores it.
LEMMA IngestKeeps ==
  ASSUME AccountsInv, NEW a \in Accounts, NEW event \in Events, Ingest(a, event)
  PROVE  AccountsInv'
<1>. DEFINE Res(label, at) == Resolved(db, a, label, at, event)
<1>1. PICK label \in LabelsOf[a], at \in 0..now :
        \E e \in {Res(label, at)} : Commit(e, SnapshotChanges(db, e))
  BY Zenon DEF Ingest
<1>2. at \in 0..MaxTime
  BY AccountsAssumption DEF AccountsInv, TypeOK
<1>. DEFINE e == Res(label, at)
<1>3. Commit(e, SnapshotChanges(db, e))
  BY <1>1, Zenon
<1>4. e \in Rows /\ LinkedInOneStep(e) /\ e.dismissed = db.dismissed
  BY <1>2, ResolvedKeeps DEF AccountsInv, TypeOK, OneStep
<1>. HIDE DEF e
<1>. QED BY <1>3, <1>4, SnapshotTells, CommitKeeps DEF AccountsInv, TypeOK

\* A list registers what it names and marks the rest.
LEMMA StoreKeeps ==
  ASSUME AccountsInv, Store
  PROVE  AccountsInv'
<1>1. PICK S \in SUBSET Accounts : \E named \in
          {f \in [S -> UNION {Entries(a) : a \in S}] : \A a \in S : f[a] \in Entries(a)} :
        /\ Agree(db, named)
        /\ \E e \in {Listed(db, named)} : Commit(e, SnapshotChanges(db, e))
  BY Zenon DEF Store
<1>2. PICK named : /\ DOMAIN named = S /\ \A a \in S : named[a] \in Entries(a)
                   /\ \E e \in {Listed(db, named)} : Commit(e, SnapshotChanges(db, e))
  BY <1>1
<1>. DEFINE e == Listed(db, named)
<1>3. Commit(e, SnapshotChanges(db, e))
  BY <1>2, Zenon
<1>4. e \in Rows /\ LinkedInOneStep(e) /\ e.dismissed = db.dismissed
  BY <1>2, ListedKeeps DEF AccountsInv, TypeOK, OneStep
<1>. HIDE DEF e
<1>. QED BY <1>3, <1>4, SnapshotTells, CommitKeeps DEF AccountsInv, TypeOK

\* A merge moves everything of one account to another.
LEMMA MergeKeeps ==
  ASSUME AccountsInv, NEW a \in Accounts, NEW b \in Accounts, Merge(a, b)
  PROVE  AccountsInv'
<1>1. a # b /\ a \in Unmerged(db) /\ b \in Unmerged(db)
  BY DEF Merge
<1>. DEFINE e == Merged(db, a, b)
<1>2. Commit(e, SnapshotChanges(db, e))
  BY Zenon DEF Merge
<1>3. e \in Rows /\ LinkedInOneStep(e) /\ e.dismissed = db.dismissed
  BY <1>1, MergedKeeps DEF AccountsInv, TypeOK, OneStep
<1>. HIDE DEF e
<1>. QED BY <1>2, <1>3, SnapshotTells, CommitKeeps DEF AccountsInv, TypeOK

\* A decision that two credentials are not one person's.
LEMMA DismissKeeps ==
  ASSUME AccountsInv, NEW a \in Accounts, NEW b \in Accounts, Dismiss(a, b)
  PROVE  AccountsInv'
<1>. DEFINE e == [db EXCEPT !.dismissed = @ \cup {{a, b}}]
            changed == {<<"account", a>>, <<"account", b>>} \cup LinkChanges(db, e)
<1>1. Commit(e, changed) /\ a # b
  BY Zenon DEF Dismiss, Dismissable
<1>. DEFINE pairs == db.dismissed \cup {{a, b}}
<1>2. pairs \in SUBSET {{x, y} : x, y \in Accounts}
  BY DEF AccountsInv, TypeOK, Rows
<1>3. \A pair \in pairs : Cardinality(pair) = 2
  BY <1>1, PairOfTwo DEF AccountsInv, TypeOK
<1>4. e = [db EXCEPT !.dismissed = pairs]
  BY Zenon
<1>. HIDE DEF e, pairs
<1>5. /\ e \in Rows /\ e.account = db.account /\ e.credential = db.credential
      /\ e.plan = db.plan /\ e.charged = db.charged /\ e.dismissed = pairs
  BY <1>2, <1>4 DEF AccountsInv, TypeOK, Rows
<1>6. LinkedInOneStep(e)
  BY <1>5 DEF AccountsInv, OneStep, LinkedInOneStep, Unmerged, Known
<1>7. LinkChanges(db, e) \subseteq changed
  OBVIOUS
<1>. HIDE DEF changed
<1>8. \A s \in Subjects \ changed : View(db)[s] = View(e)[s]
  BY <1>5, <1>7, LinksTell DEF AccountsInv, TypeOK
<1>. QED BY <1>1, <1>3, <1>5, <1>6, <1>8, CommitKeeps

\* A plan is created, moved or deleted.
LEMMA WritePlanKeeps ==
  ASSUME AccountsInv, NEW p \in Plans, NEW a \in Accounts \cup {None}, WritePlan(p, a)
  PROVE  AccountsInv'
<1>. DEFINE plans == [db.plan EXCEPT ![p] = a]
            e == [db EXCEPT !.plan = plans]
            changed == PlanChanges(db, e, p)
<1>1. Commit(e, changed)
  BY Zenon DEF WritePlan
<1>2. plans \in [Plans -> Accounts \cup {None}] /\ \A q \in Plans : plans[q] # db.plan[q] => q = p
  BY DEF AccountsInv, TypeOK, Rows
<1>. HIDE DEF plans
<1>3. /\ e \in Rows /\ e.account = db.account /\ e.credential = db.credential
      /\ e.plan = plans /\ e.charged = db.charged /\ e.dismissed = db.dismissed
  BY <1>2 DEF AccountsInv, TypeOK, Rows
<1>. HIDE DEF e
<1>4. LinkedInOneStep(e)
  BY <1>3 DEF AccountsInv, OneStep, LinkedInOneStep, Unmerged, Known
<1>5. LinkChanges(db, e) \subseteq changed /\ <<"plan", p>> \in changed
  BY DEF PlanChanges
<1>. HIDE DEF changed
<1>6. \A s \in Subjects \ changed : View(db)[s] = View(e)[s]
  BY <1>2, <1>3, <1>5, LinksTell DEF AccountsInv, TypeOK
<1>. QED BY <1>1, <1>3, <1>4, <1>6, CommitKeeps DEF AccountsInv, TypeOK

\* No row, no plan and no copy at first; every action keeps the invariant.
LEMMA AccountsInvHolds == Spec => []AccountsInv
<1>1. Init => AccountsInv
  <2>. SUFFICES ASSUME Init PROVE AccountsInv
    OBVIOUS
  <2>. DEFINE accounts == [a \in Accounts |-> None]
              plans == [p \in Plans |-> None]
              events == [x \in Events |-> None]
  <2>1. /\ db = [account |-> accounts, credential |-> accounts, plan |-> plans,
                 charged |-> events, dismissed |-> {}]
        /\ now = 0 /\ seen = [s \in Subjects |-> None]
    BY Zenon DEF Init
  <2>2. /\ accounts \in [Accounts -> AccountRow \cup {None}]
        /\ accounts \in [Accounts -> {None, "on", "off", "removed"}]
        /\ plans \in [Plans -> Accounts \cup {None}]
        /\ events \in [Events -> Accounts \cup {None}]
    OBVIOUS
  <2>3. /\ \A a \in Accounts : accounts[a] = None
        /\ \A p \in Plans : plans[p] = None
        /\ \A x \in Events : events[x] = None
    OBVIOUS
  <2>. HIDE DEF accounts, plans, events
  <2>4. db \in Rows /\ db.dismissed = {}
    BY <2>1, <2>2 DEF Rows
  <2>5. 0 \in 0..MaxTime
    BY AccountsAssumption
  <2>6. TypeOK
    BY <2>1, <2>4, <2>5 DEF TypeOK
  <2>7. OneStep
    BY <2>1, <2>3 DEF OneStep, LinkedInOneStep, Known
  <2>8. View(db) = [s \in Subjects |-> None]
    <3>. DEFINE links == [a \in Accounts |-> Replacement(db, a)]
                f(s) == IF s[1] = "account" THEN AccountView(db, links, s[2])
                                            ELSE PlanView(db, links, s[2])
    <3>1. View(db) = [s \in Subjects |-> f(s)]
      BY Zenon DEF View
    <3>2. ASSUME NEW s \in Subjects
          PROVE  f(s) = None
      <4>. HIDE DEF links
      <4>1. CASE s \in {"account"} \X Accounts
        BY <2>1, <2>3, <4>1 DEF AccountView
      <4>2. CASE s \in {"plan"} \X Plans
        BY <2>1, <2>3, <4>2 DEF PlanView
      <4>. QED BY <4>1, <4>2 DEF Subjects
    <3>. HIDE DEF f
    <3>. QED BY <3>1, <3>2
  <2>9. ReaderKnows
    BY <2>1, <2>8 DEF ReaderKnows
  <2>. QED BY <2>6, <2>7, <2>9 DEF AccountsInv
<1>2. AccountsInv /\ [Next]_vars => AccountsInv'
  <2>. SUFFICES ASSUME AccountsInv, [Next]_vars PROVE AccountsInv'
    OBVIOUS
  <2>1. CASE \E a \in Accounts, event \in Events : Ingest(a, event)
    BY <2>1, IngestKeeps
  <2>2. CASE Store
    BY <2>2, StoreKeeps
  <2>3. ASSUME NEW a \in Accounts, NEW b \in Accounts,
               Merge(a, b) \/ Continue(a, b) \/ Dismiss(a, b)
        PROVE  AccountsInv'
    BY <2>3, MergeKeeps, DismissKeeps DEF Continue
  <2>4. ASSUME NEW p \in Plans, DeletePlan(p)
        PROVE  AccountsInv'
    BY <2>4, WritePlanKeeps DEF DeletePlan
  <2>5. ASSUME NEW p \in Plans, NEW a \in Accounts, CreatePlan(p, a) \/ UpdatePlan(p, a)
        PROVE  AccountsInv'
    BY <2>5, WritePlanKeeps DEF CreatePlan, UpdatePlan
  <2>6. CASE Tick
    <3>1. now' \in 0..MaxTime
      BY <2>6, AccountsAssumption DEF Tick, AccountsInv, TypeOK
    <3>2. db' = db /\ seen' = seen
      BY <2>6 DEF Tick
    <3>3. TypeOK'
      BY <3>1, <3>2 DEF AccountsInv, TypeOK, Rows, AccountRow, Subjects
    <3>4. OneStep'
      BY <3>2 DEF AccountsInv, OneStep, LinkedInOneStep, Unmerged, Known
    <3>5. View(db') = View(db)
      BY <3>2, Zenon
    <3>6. seen' = View(db')
      BY <3>2, <3>5, Zenon DEF AccountsInv, ReaderKnows
    <3>7. ReaderKnows'
      BY <3>6 DEF ReaderKnows, View
    <3>. QED BY <3>3, <3>4, <3>7 DEF AccountsInv
  <2>7. CASE UNCHANGED vars
    <3>1. db' = db /\ now' = now /\ seen' = seen
      BY <2>7 DEF vars
    <3>3. TypeOK'
      BY <3>1 DEF AccountsInv, TypeOK, Rows, AccountRow, Subjects
    <3>4. OneStep'
      BY <3>1 DEF AccountsInv, OneStep, LinkedInOneStep, Unmerged, Known
    <3>5. View(db') = View(db)
      BY <3>1, Zenon
    <3>6. seen' = View(db')
      BY <3>1, <3>5, Zenon DEF AccountsInv, ReaderKnows
    <3>7. ReaderKnows'
      BY <3>6 DEF ReaderKnows, View
    <3>. QED BY <3>3, <3>4, <3>7 DEF AccountsInv
  <2>. QED BY <2>1, <2>2, <2>3, <2>4, <2>5, <2>6, <2>7 DEF Next
<1>. QED BY <1>1, <1>2, PTL DEF Spec

\* The rows are well formed: each link, charge and plan names a credential of the source.
THEOREM AccountsTypes == Spec => []TypeOK
BY AccountsInvHolds, PTL DEF AccountsInv

\* However credentials are merged, a link leads to an account that is not merged
\* itself, and so does every charge: Account::merge moves those merged before too.
THEOREM OneStepCorrect == Spec => []OneStep
BY AccountsInvHolds, PTL DEF AccountsInv

\* A reader that reads again only what a write recorded has what a reader that read
\* everything would have: Snapshot and record_link_changes leave nothing out.
THEOREM ReaderKnowsCorrect == Spec => []ReaderKnows
BY AccountsInvHolds, PTL DEF AccountsInv

-----------------------------------------------------------------------------
(* Leverage *)

\* No request counts towards the plans of two accounts: is_replacement() lets a pair be
\* read as one only when nothing else could be meant and the newer one has no plan.
THEOREM EventCountsOnceCorrect == Spec => []EventCountsOnce
<1>1. EventCountsOnce
  <2>. SUFFICES ASSUME NEW x \in Events, NEW a \in Accounts, NEW b \in Accounts,
                       HasPlan(db, a), HasPlan(db, b),
                       x \in Counted(db, a) \cap Counted(db, b)
                PROVE  a = b
    BY DEF EventCountsOnce
  <2>. DEFINE c == db.charged[x]
  <2>1. c # None /\ c \in {a, Replacement(db, a)} /\ c \in {b, Replacement(db, b)}
    BY DEF Counted
  <2>2. c = Replacement(db, a) => c \in Accounts /\ IsReplacement(db, a, c)
    BY <2>1, ReplacementIs
  <2>3. c = Replacement(db, b) => c \in Accounts /\ IsReplacement(db, b, c)
    BY <2>1, ReplacementIs
  <2>. HIDE DEF c
  <2>4. CASE c = a /\ c = Replacement(db, b)
    BY <2>3, <2>4, ReplacedByAnother
  <2>5. CASE c = b /\ c = Replacement(db, a)
    BY <2>2, <2>5, ReplacedByAnother
  <2>6. CASE c = Replacement(db, a) /\ c = Replacement(db, b)
    BY <2>2, <2>3, <2>6, ReplacedAlone
  <2>. QED BY <2>1, <2>4, <2>5, <2>6
<1>. QED BY <1>1, PTL

\* A write that keeps every link joins nothing.
LEMMA KeptIsNotJoined ==
  ASSUME NEW a \in Accounts, KeepsLinks(db, db')
  PROVE  ~Joins(a)
BY DEF KeepsLinks, Joins

\* Only a merge joins, and it joins the account it merges.
LEMMA OnlyMergeJoins ==
  ASSUME AccountsInv, [Next]_vars, NEW a \in Accounts, Joins(a)
  PROVE  \E b \in Accounts : Merge(a, b)
<1>. DEFINE Kept == KeepsLinks(db, db')
<1>0. ASSUME db'.account = db.account PROVE Kept
  BY <1>0 DEF KeepsLinks
<1>. HIDE DEF Kept
<1>1. ASSUME NEW c \in Accounts, NEW event \in Events, Ingest(c, event)
      PROVE  Kept
  <2>1. PICK label \in LabelsOf[c], at \in 0..now :
          \E e \in {Resolved(db, c, label, at, event)} : Commit(e, SnapshotChanges(db, e))
    BY <1>1, Zenon DEF Ingest
  <2>2. at \in 0..MaxTime
    BY AccountsAssumption DEF AccountsInv, TypeOK
  <2>3. db' = Resolved(db, c, label, at, event)
    BY <2>1, Zenon DEF Commit
  <2>. QED BY <2>2, <2>3, ResolvedKeeps DEF Kept, AccountsInv, TypeOK, OneStep
<1>2. ASSUME Store
      PROVE  Kept
  <2>1. PICK S \in SUBSET Accounts : \E named \in
            {f \in [S -> UNION {Entries(b) : b \in S}] : \A b \in S : f[b] \in Entries(b)} :
          /\ Agree(db, named)
          /\ \E e \in {Listed(db, named)} : Commit(e, SnapshotChanges(db, e))
    BY <1>2, Zenon DEF Store
  <2>2. PICK named : /\ DOMAIN named = S /\ \A b \in S : named[b] \in Entries(b)
                     /\ \E e \in {Listed(db, named)} : Commit(e, SnapshotChanges(db, e))
    BY <2>1
  <2>3. db' = Listed(db, named)
    BY <2>2, Zenon DEF Commit
  <2>. QED BY <2>2, <2>3, ListedKeeps DEF Kept, AccountsInv, TypeOK, OneStep
<1>3. ASSUME NEW c \in Accounts, NEW b \in Accounts, Merge(c, b)
      PROVE  c = a
  <2>1. db' = Merged(db, c, b) /\ c # b /\ c \in Unmerged(db) /\ b \in Unmerged(db)
    BY <1>3, Zenon DEF Merge, Commit
  <2>2. db'.account = MergedRows(db, c, b)
    BY <2>1, MergedKeeps DEF AccountsInv, TypeOK, OneStep
  <2>3. db.account[b] \in AccountRow /\ db.account[c] \in AccountRow
    BY <2>1 DEF Unmerged, Known, AccountsInv, TypeOK, Rows
  <2>4. db.account[c].first \in 0..MaxTime
    BY <2>3 DEF AccountRow
  <2>5. Widened(db.account[b], db.account[c].first).merged = db.account[b].merged
    BY <2>3, <2>4, WidenedRow
  <2>. SUFFICES ASSUME c # a PROVE FALSE
    OBVIOUS
  <2>6. db'.account[a].merged = db.account[a].merged
    <3>1. CASE a = b
      BY <2>2, <2>5, <3>1 DEF MergedRows
    <3>2. CASE a # b
      <4>1. db.account[a].merged # c
        BY <2>1, AccountsAssumption DEF Joins
      <4>. QED BY <2>2, <3>2, <4>1 DEF MergedRows
    <3>. QED BY <3>1, <3>2
  <2>. QED BY <2>6 DEF Joins
<1>4. ASSUME NEW c \in Accounts, NEW b \in Accounts, Dismiss(c, b)
      PROVE  Kept
  <2>. DEFINE e == [db EXCEPT !.dismissed = @ \cup {{c, b}}]
  <2>1. db' = e
    BY <1>4, Zenon DEF Dismiss, Commit
  <2>2. e.account = db.account
    BY DEF AccountsInv, TypeOK, Rows
  <2>. QED BY <1>0, <2>1, <2>2
<1>5. ASSUME NEW p \in Plans, NEW c \in Accounts \cup {None}, WritePlan(p, c)
      PROVE  Kept
  <2>. DEFINE plans == [db.plan EXCEPT ![p] = c]
              e == [db EXCEPT !.plan = plans]
  <2>1. db' = e
    BY <1>5, Zenon DEF WritePlan, Commit
  <2>. HIDE DEF plans
  <2>2. e.account = db.account
    BY DEF AccountsInv, TypeOK, Rows
  <2>. QED BY <1>0, <2>1, <2>2
<1>6. ~Kept
  BY KeptIsNotJoined DEF Kept
<1>7. ASSUME NEW p \in Plans, DeletePlan(p) PROVE Kept
  BY <1>5, <1>7 DEF DeletePlan
<1>8. ASSUME NEW p \in Plans, NEW c \in Accounts, CreatePlan(p, c) \/ UpdatePlan(p, c) PROVE Kept
  BY <1>5, <1>8 DEF CreatePlan, UpdatePlan
<1>9. Tick \/ UNCHANGED vars => Kept
  BY <1>0 DEF Tick, vars
<1>10. PICK c \in Accounts, b \in Accounts : Merge(c, b)
  BY <1>1, <1>2, <1>4, <1>6, <1>7, <1>8, <1>9 DEF Next, Continue
<1>. QED BY <1>3, <1>10

\* Merging a replaced credential into its replacement leaves each plan counting what it
\* counted: merge() moves the charges and the plan together.
THEOREM MergeKeepsLeverageCorrect == Spec => MergeKeepsLeverage
<1>1. ASSUME AccountsInv, [Next]_vars, NEW a \in Accounts, Joins(a),
             NEW p \in Plans, db.plan[p] = a
      PROVE  Counted(db', db'.plan[p]) = Counted(db, a)
  <2>1. PICK b \in Accounts : Merge(a, b)
    BY <1>1, OnlyMergeJoins
  <2>2. db' = Merged(db, a, b) /\ a # b /\ a \in Unmerged(db) /\ b \in Unmerged(db)
    BY <2>1, Zenon DEF Merge, Commit
  <2>3. /\ db'.charged = MovedEvents(db, a, b) /\ db'.plan = MovedPlans(db, a, b)
        /\ db'.account = MergedRows(db, a, b) /\ db'.credential = db.credential
    BY <1>1, <2>2, MergedKeeps DEF AccountsInv, TypeOK, OneStep
  <2>4. b = Replacement(db, a)
    <3>1. db.account[a] \in AccountRow
      BY <1>1 DEF AccountsInv, TypeOK, Rows, Joins
    <3>2. db'.account[a] = [db.account[a] EXCEPT !.merged = b]
      BY <2>2, <2>3 DEF MergedRows
    <3>3. db'.account[a].merged = b
      BY <3>1, <3>2 DEF AccountRow
    <3>. QED BY <1>1, <3>3 DEF Joins
  <2>5. db.credential[b] = "on"
    BY <1>1, <2>4, ReplacementIs, ReplacedByAnother DEF Joins
  <2>6. Replacement(db', b) = None
    BY <2>3, <2>5, ListedIsNotReplaced
  <2>7. db'.plan[p] = b
    BY <1>1, <2>3 DEF MovedPlans
  <2>8. Counted(db', b) = {x \in Events : db'.charged[x] = b}
    BY <2>6, AccountsAssumption DEF Counted
  <2>9. Counted(db, a) = {x \in Events : db.charged[x] \in {a, b}}
    BY <2>4, AccountsAssumption DEF Counted
  <2>10. \A x \in Events : db'.charged[x] = b <=> db.charged[x] \in {a, b}
    BY <2>3 DEF MovedEvents
  <2>. QED BY <2>7, <2>8, <2>9, <2>10
<1>2. AccountsInv /\ [Next]_vars =>
        [\A a \in Accounts : Joins(a) =>
           \A p \in Plans : db.plan[p] = a => Counted(db', db'.plan[p]) = Counted(db, a)]_vars
  BY <1>1
<1>. QED BY <1>2, AccountsInvHolds, PTL DEF Spec, MergeKeepsLeverage

=============================================================================
