-------------------------- MODULE ChangeFeedProofs --------------------------
(* Proofs about ChangeFeed: no change is skipped, no poll sleeps over one, *)
(* and the table that forgets implements ChangeLog, which never does.      *)
EXTENDS ChangeFeed, TLAPS, SequenceTheorems, WellFoundedInduction

\* A bounded set of cursors has a greatest one, which Horizon returns.
LEMMA HorizonIsMax ==
  ASSUME NEW n \in Nat, NEW S, S \subseteq 0 .. n, S # {}
  PROVE  Horizon(S) \in S /\ \A m \in S : m <= Horizon(S)
<1>. DEFINE T == {n - m : m \in S}
<1>1. T \subseteq Nat /\ T # {}
  <2>1. \A m \in S : n - m \in Nat
    OBVIOUS
  <2>2. PICK m \in S : TRUE
    OBVIOUS
  <2>. QED BY <2>1, <2>2
<1>2. PICK x \in T : \A y \in T : <<y, x>> \notin OpToRel(<, Nat)
  <2>. HIDE DEF T
  <2>. QED BY <1>1, WFMin, NatLessThanWellFounded, Zenon
<1>3. \A y \in T : ~ (y < x)
  BY <1>1, <1>2 DEF OpToRel
<1>4. PICK k \in S : x = n - k
  BY <1>2
<1>5. \A m \in S : m <= k
  <2>. TAKE m \in S
  <2>1. ~ (n - m < n - k)
    BY <1>3, <1>4
  <2>. QED BY <2>1
<1>. HIDE DEF T
<1>. QED BY <1>4, <1>5 DEF Horizon

\* Horizon is the only greatest element.
LEMMA HorizonIs ==
  ASSUME NEW S, S \subseteq Nat, NEW k \in S, \A m \in S : m <= k
  PROVE  Horizon(S) = k
<1>1. Horizon(S) \in S /\ \A m \in S : m <= Horizon(S)
  BY Zenon DEF Horizon
<1>2. Horizon(S) \in Nat /\ k \in Nat /\ k <= Horizon(S) /\ Horizon(S) <= k
  BY <1>1
<1>. QED BY <1>2

\* What a transaction adds: the history grows at its end, by its changes.
LEMMA HistoryGrows ==
  ASSUME TypeOK, NEW batch \in Batches
  PROVE  /\ batch \in Seq(Subjects) /\ Len(batch) \in Nat /\ DOMAIN batch = 1 .. Len(batch)
         /\ history \o batch \in Seq(Subjects)
         /\ Len(history) \in Nat
         /\ Len(history \o batch) = Len(history) + Len(batch)
         /\ \A i \in 1 .. Len(history) : (history \o batch)[i] = history[i]
         /\ \A i \in 1 .. Len(batch) : (history \o batch)[Len(history) + i] = batch[i]
<1>1. PICK n \in 0 .. MaxBatch : batch \in [1 .. n -> Subjects]
  BY DEF Batches
<1>2. n \in Nat
  BY <1>1, BoundsAssumption
<1>3. batch \in Seq(Subjects) /\ Len(batch) = n
  BY <1>1, <1>2
<1>4. history \in Seq(Subjects)
  BY DEF TypeOK
<1>5. /\ history \o batch \in Seq(Subjects)
      /\ Len(history \o batch) = Len(history) + Len(batch)
      /\ \A i \in 1 .. Len(history) + Len(batch) : (history \o batch)[i] =
           IF i <= Len(history) THEN history[i] ELSE batch[i - Len(history)]
  BY <1>3, <1>4, ConcatProperties
<1>6. Len(history) \in Nat
  BY <1>4
<1>. QED BY <1>1, <1>2, <1>3, <1>5, <1>6

\* What a bounded history and a bounded table give: the latest cursor is the last ever
\* given out, although the table may be empty.
LEMMA LatestIsLast ==
  ASSUME TypeOK, RowsKept
  PROVE  Latest = Len(history) /\ Len(history) \in Nat
<1>. DEFINE S == {c.cursor : c \in change} \cup {prunedThrough}
<1>1. Len(history) \in Nat
  BY DEF TypeOK
<1>2. S \subseteq Nat /\ \A m \in S : m <= Len(history)
  BY <1>1 DEF TypeOK
<1>3. Len(history) \in S
  <2>1. CASE prunedThrough = Len(history)
    BY <2>1
  <2>2. CASE prunedThrough # Len(history)
    <3>1. Len(history) \in prunedThrough + 1 .. Len(history)
      BY <1>1, <2>2 DEF TypeOK
    <3>2. PICK c \in change : c.cursor = Len(history)
      BY <3>1 DEF RowsKept
    <3>. QED BY <3>2
  <2>. QED BY <2>1, <2>2
<1>. HIDE DEF S
<1>4. Horizon(S) = Len(history)
  BY <1>2, <1>3, HorizonIs, Zenon
<1>. QED BY <1>1, <1>4 DEF Latest, S

\* A page ends at its last row or, when it holds all that is wanted, at the latest.
LEMMA PageEnds ==
  ASSUME TypeOK, RowsKept, NEW r \in Readers, NEW n \in 0 .. Len(history),
         NEW p \in SUBSET Wanted(r, n), p # {}
  PROVE  /\ PageCursor(p) \in n .. Len(history)
         /\ Cardinality(p) = PageSize =>
              \E c \in p : c.cursor = PageCursor(p) /\ \A d \in p : d.cursor <= c.cursor
         /\ Cardinality(p) # PageSize => PageCursor(p) = Len(history)
<1>. DEFINE S == {c.cursor : c \in p}
<1>1. Latest = Len(history) /\ Len(history) \in Nat
  BY LatestIsLast
<1>2. \A c \in p : c \in change /\ c.cursor > n /\ c.cursor \in 1 .. Len(history)
  BY DEF Wanted, TypeOK
<1>3. S \subseteq 0 .. Len(history) /\ S # {}
  <2>1. PICK c \in p : TRUE
    OBVIOUS
  <2>. QED BY <1>1, <1>2, <2>1
<1>4. Horizon(S) \in S /\ \A m \in S : m <= Horizon(S)
  <2>. HIDE DEF S
  <2>. QED BY <1>1, <1>3, HorizonIsMax
<1>5. PICK c \in p : c.cursor = Horizon(S)
  BY <1>4
<1>6. \A d \in p : d.cursor <= c.cursor
  BY <1>4, <1>5
<1>7. CASE Cardinality(p) = PageSize
  <2>1. PageCursor(p) = c.cursor
    BY <1>5, <1>7 DEF PageCursor
  <2>. QED BY <1>1, <1>2, <1>6, <1>7, <2>1
<1>8. CASE Cardinality(p) # PageSize
  BY <1>1, <1>8 DEF PageCursor
<1>. QED BY <1>7, <1>8

\* Every variable has its type at the start.
LEMMA TypeInit == Init => TypeOK
<1>. SUFFICES ASSUME Init PROVE TypeOK
  OBVIOUS
<1>1. Len(history) = 0 /\ history \in Seq(Subjects)
  BY DEF Init
<1>2. /\ change \subseteq [cursor : 1 .. Len(history), subject : Subjects, at : Nat]
      /\ prunedThrough \in 0 .. Len(history)
      /\ wakes \in Nat /\ now \in Nat /\ faults \in Nat
  BY <1>1 DEF Init
<1>8. dropped \in BOOLEAN
  BY DEF Init
<1>3. /\ cursor \in [Readers -> 0 .. Len(history)]
      /\ from \in [Readers -> 0 .. Len(history)]
  BY <1>1 DEF Init
<1>7. pc \in [Readers -> Places] /\ woken \in [Readers -> BOOLEAN]
  BY DEF Init, Places
<1>4. page \in [Readers -> [subjects : SUBSET Subjects, cursor : 0 .. Len(history)]]
  BY <1>1 DEF Init, NoPage
<1>5. unread \in [Readers -> SUBSET Subjects]
  BY DEF Init
<1>6. view \in [Readers -> [Subjects -> 0 .. Len(history)]]
  <2>1. [s \in Subjects |-> 0] \in [Subjects -> 0 .. Len(history)]
    BY <1>1
  <2>. QED BY <2>1 DEF Init
<1>. QED BY <1>1, <1>2, <1>3, <1>4, <1>5, <1>6, <1>7, <1>8 DEF TypeOK

\* A commit keeps the types: what was bounded by the history still is.
LEMMA CommitType ==
  ASSUME TypeOK, NEW batch \in Batches, Commit(batch)
  PROVE  TypeOK'
<1>1. /\ history' \in Seq(Subjects) /\ Len(history) \in Nat /\ Len(batch) \in Nat
      /\ Len(history') = Len(history) + Len(batch)
      /\ DOMAIN batch = 1 .. Len(batch) /\ batch \in Seq(Subjects)
  BY HistoryGrows DEF Commit
<1>2. 1 .. Len(history) \subseteq 1 .. Len(history')
  BY <1>1
<1>3. 0 .. Len(history) \subseteq 0 .. Len(history')
  BY <1>1
<1>4. change' \subseteq [cursor : 1 .. Len(history'), subject : Subjects, at : Nat]
  <2>1. change \subseteq [cursor : 1 .. Len(history'), subject : Subjects, at : Nat]
    BY <1>2 DEF TypeOK
  <2>2. \A i \in DOMAIN batch : batch[i] \in Subjects /\ Len(history) + i \in 1 .. Len(history')
    BY <1>1
  <2>3. Rows(batch) \subseteq [cursor : 1 .. Len(history'), subject : Subjects, at : Nat]
    BY <2>2 DEF Rows, TypeOK
  <2>. QED BY <2>1, <2>3 DEF Commit
<1>5. /\ prunedThrough' \in 0 .. Len(history')
      /\ wakes' \in Nat /\ dropped' \in BOOLEAN /\ now' \in Nat /\ faults' \in Nat
  BY <1>3 DEF TypeOK, Commit
<1>6. /\ pc' \in [Readers -> Places] /\ woken' \in [Readers -> BOOLEAN]
      /\ unread' \in [Readers -> SUBSET Subjects]
  BY DEF TypeOK, Commit, client, request
<1>7. cursor' \in [Readers -> 0 .. Len(history')] /\ from' \in [Readers -> 0 .. Len(history')]
  BY <1>3 DEF TypeOK, Commit, client, request
<1>8. page' \in [Readers -> [subjects : SUBSET Subjects, cursor : 0 .. Len(history')]]
  BY <1>3 DEF TypeOK, Commit, client, request
<1>9. view' \in [Readers -> [Subjects -> 0 .. Len(history')]]
  BY <1>3 DEF TypeOK, Commit, client, request
<1>. QED BY <1>1, <1>4, <1>5, <1>6, <1>7, <1>8, <1>9 DEF TypeOK

\* A prune keeps the types: the horizon rises to a cursor of the table.
LEMMA PruneRises ==
  ASSUME TypeOK, Prune
  PROVE  /\ prunedThrough' \in prunedThrough .. Len(history)
         /\ \A c \in Old : c.cursor <= prunedThrough'
<1>. DEFINE S == {c.cursor : c \in Old} \cup {prunedThrough}
<1>1. Len(history) \in Nat /\ S \subseteq 0 .. Len(history) /\ S # {}
  BY DEF TypeOK, Old
<1>2. Horizon(S) \in S /\ \A m \in S : m <= Horizon(S)
  <2>. HIDE DEF S
  <2>. QED BY <1>1, HorizonIsMax
<1>3. prunedThrough' = Horizon(S)
  BY DEF Prune
<1>4. prunedThrough \in S /\ \A c \in Old : c.cursor \in S
  OBVIOUS
<1>. HIDE DEF S
<1>5. prunedThrough' \in S /\ prunedThrough <= prunedThrough'
  BY <1>2, <1>3, <1>4
<1>6. prunedThrough \in Nat /\ prunedThrough' \in 0 .. Len(history)
  BY <1>1, <1>4, <1>5
<1>7. \A c \in Old : c.cursor <= prunedThrough'
  BY <1>2, <1>3, <1>4
<1>. QED BY <1>1, <1>5, <1>6, <1>7

\* Every step keeps the types.
LEMMA TypeStep == TypeOK /\ RowsKept /\ [Next]_vars => TypeOK'
<1>. SUFFICES ASSUME TypeOK, RowsKept, [Next]_vars PROVE TypeOK'
  OBVIOUS
<1>. USE DEF store, wake, client, request
<1>0. Latest = Len(history) /\ Len(history) \in Nat
  BY LatestIsLast
<1>1. ASSUME NEW batch \in Batches, Commit(batch) PROVE TypeOK'
  BY <1>1, CommitType
<1>2. CASE Wake
  BY <1>2 DEF TypeOK, Wake
<1>3. CASE CancelWake
  BY <1>3 DEF TypeOK, CancelWake
<1>4. CASE Prune
  <2>1. prunedThrough' \in 0 .. Len(history)
    <3>1. prunedThrough' \in prunedThrough .. Len(history)
      BY <1>4, PruneRises
    <3>. QED BY <3>1 DEF TypeOK
  <2>. QED BY <1>4, <2>1 DEF TypeOK, Prune
<1>5. CASE Tick \/ StepBack
  BY <1>5 DEF TypeOK, Tick, StepBack
<1>6. CASE Restart
  <2>1. pc' \in [Readers -> Places] /\ woken' \in [Readers -> BOOLEAN]
    BY <1>6 DEF TypeOK, Restart, Places
  <2>2. from' \in [Readers -> 0 .. Len(history)]
        /\ page' \in [Readers -> [subjects : SUBSET Subjects, cursor : 0 .. Len(history)]]
    BY <1>0, <1>6 DEF Restart, NoPage
  <2>3. wakes' \in Nat /\ faults' \in Nat
    BY <1>6 DEF TypeOK, Restart
  <2>4. UNCHANGED <<change, prunedThrough, history, dropped, now, cursor, unread, view>>
    BY <1>6 DEF Restart
  <2>. QED BY <2>1, <2>2, <2>3, <2>4 DEF TypeOK
<1>7. ASSUME NEW r \in Readers, Join(r) PROVE TypeOK'
  <2>1. pc' \in [Readers -> Places]
    BY <1>7 DEF TypeOK, Join, Places
  <2>2. cursor' \in [Readers -> 0 .. Len(history)]
    BY <1>0, <1>7 DEF TypeOK, Join
  <2>3. unread' \in [Readers -> SUBSET Subjects]
    <3>1. Wants[r] \in SUBSET Subjects
      BY WantsAssumption
    <3>. QED BY <1>7, <3>1 DEF TypeOK, Join
  <2>. QED BY <1>7, <2>1, <2>2, <2>3 DEF TypeOK, Join
<1>8. ASSUME NEW r \in Readers, NEW s \in Subjects, ReadList(r, s) PROVE TypeOK'
  BY <1>0, <1>8 DEF TypeOK, ReadList
<1>9. ASSUME NEW r \in Readers, Poll(r) \/ Wait(r) \/ Woken(r) PROVE TypeOK'
  <2>1. pc' \in [Readers -> Places]
    BY <1>9 DEF TypeOK, Poll, Wait, Woken, Places
  <2>2. from' \in [Readers -> 0 .. Len(history)]
    BY <1>9 DEF TypeOK, Poll, Wait, Woken
  <2>3. woken' \in [Readers -> BOOLEAN]
    BY <1>9 DEF TypeOK, Poll, Wait, Woken
  <2>4. UNCHANGED <<store, wake, now, faults, client, page>>
    BY <1>9 DEF Poll, Wait, Woken
  <2>. QED BY <2>1, <2>2, <2>3, <2>4 DEF TypeOK
<1>10. ASSUME NEW r \in Readers, NEW p \in [subjects : SUBSET Subjects, cursor : 0 .. Len(history)],
              page' = [page EXCEPT ![r] = p], pc' \in [Readers -> Places], Unsubscribe(r),
              UNCHANGED <<store, wake, now, faults, client>>
       PROVE  TypeOK'
  BY <1>0, <1>10 DEF TypeOK, Unsubscribe
<1>11. ASSUME NEW r \in Readers, AnswerExpired(r) PROVE TypeOK'
  <2>1. [subjects |-> Wants[r], cursor |-> Latest]
          \in [subjects : SUBSET Subjects, cursor : 0 .. Len(history)]
    BY <1>0, WantsAssumption
  <2>2. pc' \in [Readers -> Places]
    BY <1>11 DEF TypeOK, AnswerExpired, Places
  <2>. QED BY <1>10, <1>11, <2>1, <2>2 DEF AnswerExpired
<1>12. ASSUME NEW r \in Readers, AnswerPage(r) PROVE TypeOK'
  <2>1. PICK p \in SUBSET Wanted(r, from[r]) :
          /\ p # {}
          /\ page' = [page EXCEPT ![r] = [subjects |-> {c.subject : c \in p},
                                          cursor |-> PageCursor(p)]]
    BY <1>12 DEF AnswerPage
  <2>2. from[r] \in 0 .. Len(history)
    BY DEF TypeOK
  <2>3. PageCursor(p) \in from[r] .. Len(history)
    BY <2>1, <2>2, PageEnds
  <2>4. {c.subject : c \in p} \in SUBSET Subjects
    BY DEF TypeOK, Wanted
  <2>5. [subjects |-> {c.subject : c \in p}, cursor |-> PageCursor(p)]
          \in [subjects : SUBSET Subjects, cursor : 0 .. Len(history)]
    BY <2>2, <2>3, <2>4
  <2>6. pc' \in [Readers -> Places]
    BY <1>12 DEF TypeOK, AnswerPage, Places
  <2>. QED BY <1>10, <1>12, <2>1, <2>5, <2>6 DEF AnswerPage
<1>13. ASSUME NEW r \in Readers, ReadNothing(r) PROVE TypeOK'
  BY <1>0, <1>13 DEF TypeOK, ReadNothing, Places
<1>14. ASSUME NEW r \in Readers, TimeOut(r) PROVE TypeOK'
  <2>1. [subjects |-> {}, cursor |-> from[r]]
          \in [subjects : SUBSET Subjects, cursor : 0 .. Len(history)]
    BY DEF TypeOK
  <2>2. pc' \in [Readers -> Places]
    BY <1>14 DEF TypeOK, TimeOut, Places
  <2>. QED BY <1>10, <1>14, <2>1, <2>2 DEF TimeOut
<1>15. ASSUME NEW r \in Readers, Receive(r) PROVE TypeOK'
  <2>1. NoPage \in [subjects : SUBSET Subjects, cursor : 0 .. Len(history)]
    BY <1>0 DEF NoPage
  <2>2. page[r].cursor \in 0 .. Len(history) /\ page[r].subjects \in SUBSET Subjects
    BY DEF TypeOK
  <2>. QED BY <1>15, <2>1, <2>2 DEF TypeOK, Receive, Places
<1>16. ASSUME NEW r \in Readers, Lose(r) PROVE TypeOK'
  <2>1. NoPage \in [subjects : SUBSET Subjects, cursor : 0 .. Len(history)]
    BY <1>0 DEF NoPage
  <2>2. pc' \in [Readers -> Places]
    BY <1>16 DEF TypeOK, Lose, Places
  <2>. QED BY <1>10, <1>16, <2>1, <2>2 DEF Lose
<1>17. CASE UNCHANGED vars
  BY <1>17 DEF TypeOK, vars
<1>. QED
  BY <1>1, <1>2, <1>3, <1>4, <1>5, <1>6, <1>7, <1>8, <1>9, <1>11, <1>12, <1>13, <1>14, <1>15,
     <1>16, <1>17 DEF Next, Writer, Reader

-----------------------------------------------------------------------------
\* The table keeps what is above the horizon, and no row is of another change: a commit
\* numbers its rows on, a prune raises the horizon over what it takes.
LEMMA RowsStep == TypeOK /\ RowsTrue /\ RowsKept /\ [Next]_vars => RowsTrue' /\ RowsKept'
<1>. SUFFICES ASSUME TypeOK, RowsTrue, RowsKept, [Next]_vars PROVE RowsTrue' /\ RowsKept'
  OBVIOUS
<1>1. ASSUME NEW batch \in Batches, Commit(batch) PROVE RowsTrue' /\ RowsKept'
  <2>1. /\ history' = history \o batch /\ change' = change \cup Rows(batch)
        /\ prunedThrough' = prunedThrough
    BY <1>1 DEF Commit
  <2>2. /\ Len(history) \in Nat /\ Len(batch) \in Nat /\ DOMAIN batch = 1 .. Len(batch)
        /\ Len(history') = Len(history) + Len(batch)
        /\ \A i \in 1 .. Len(history) : history'[i] = history[i]
        /\ \A i \in 1 .. Len(batch) : history'[Len(history) + i] = batch[i]
    BY <2>1, HistoryGrows
  <2>3. ASSUME NEW c \in change' PROVE c.subject = history'[c.cursor]
    <3>1. CASE c \in change
      BY <2>2, <3>1 DEF TypeOK, RowsTrue
    <3>2. CASE c \in Rows(batch)
      BY <2>2, <3>2 DEF Rows
    <3>. QED BY <2>1, <2>3, <3>1, <3>2
  <2>4. ASSUME NEW i \in prunedThrough + 1 .. Len(history') PROVE \E c \in change' : c.cursor = i
    <3>1. CASE i <= Len(history)
      <4>1. i \in prunedThrough + 1 .. Len(history)
        BY <2>2, <3>1 DEF TypeOK
      <4>. QED BY <2>1, <4>1 DEF RowsKept
    <3>2. CASE ~ (i <= Len(history))
      <4>1. i - Len(history) \in DOMAIN batch /\ Len(history) + (i - Len(history)) = i
        BY <2>2, <3>2 DEF TypeOK
      <4>2. [cursor |-> Len(history) + (i - Len(history)), subject |-> batch[i - Len(history)],
             at |-> now] \in Rows(batch)
        BY <4>1 DEF Rows
      <4>. QED BY <2>1, <4>1, <4>2
    <3>. QED BY <3>1, <3>2
  <2>. QED BY <2>1, <2>3, <2>4 DEF RowsTrue, RowsKept
<1>2. CASE Prune
  <2>1. PICK k \in prunedThrough .. Len(history) :
          prunedThrough' = k /\ \A c \in Old : c.cursor <= k
    BY <1>2, PruneRises
  <2>2. change' = change \ Old /\ history' = history
    BY <1>2 DEF Prune
  <2>3. prunedThrough \in Int /\ Len(history) \in Int
    BY DEF TypeOK
  <2>4. ASSUME NEW i \in k + 1 .. Len(history) PROVE \E c \in change' : c.cursor = i
    <3>1. i \in prunedThrough + 1 .. Len(history) /\ ~ (i <= k)
      BY <2>3
    <3>2. PICK c \in change : c.cursor = i
      BY <3>1 DEF RowsKept
    <3>. QED BY <2>1, <2>2, <3>1, <3>2
  <2>5. RowsTrue'
    BY <2>2 DEF RowsTrue
  <2>6. RowsKept'
    BY <2>1, <2>2, <2>4 DEF RowsKept
  <2>. QED BY <2>5, <2>6
<1>3. CASE UNCHANGED store
  BY <1>3 DEF store, RowsTrue, RowsKept
<1>. QED
  BY <1>1, <1>2, <1>3
  DEF Next, Writer, Wake, CancelWake, Tick, StepBack, Restart, Reader, Join, ReadList, Poll,
      AnswerExpired, AnswerPage, ReadNothing, Wait, Woken, TimeOut, Receive, Lose, vars

\* What is told between two positions is what is told up to and from one between them.
LEMMA ToldJoins ==
  ASSUME NEW r \in Readers, NEW m \in Nat, NEW k \in Nat, NEW n \in Nat, m <= k, k <= n
  PROVE  Log!Told(r, m, n) = Log!Told(r, m, k) \cup Log!Told(r, k, n)
<1>1. m + 1 .. n = (m + 1 .. k) \cup (k + 1 .. n)
  OBVIOUS
<1>. QED BY <1>1 DEF Log!Told

\* A page tells exactly what lies between the cursor it was asked from and its own.
LEMMA PageTells ==
  ASSUME TypeOK, RowsTrue, RowsKept, NEW r \in Readers, NEW n \in 0 .. Len(history),
         ~ Expired(n), NEW p \in SUBSET Wanted(r, n), p # {}, IsPage(p, r, n)
  PROVE  {c.subject : c \in p} = Log!Told(r, n, PageCursor(p))
<1>. DEFINE last == PageCursor(p)
<1>0. Len(history) \in Nat
  BY DEF TypeOK
<1>1. /\ last \in n .. Len(history)
      /\ Cardinality(p) = PageSize =>
           \E c \in p : c.cursor = last /\ \A d \in p : d.cursor <= c.cursor
      /\ Cardinality(p) # PageSize => last = Len(history)
  BY PageEnds
<1>. HIDE DEF last
<1>2. \A c \in Wanted(r, n) : /\ c.cursor \in n + 1 .. Len(history)
                              /\ c.subject = history[c.cursor] /\ c.subject \in Wants[r]
  BY <1>0, <1>1 DEF Wanted, TypeOK, RowsTrue
<1>3. \A c \in p : c.cursor <= last
  BY <1>1, <1>2
<1>4. ASSUME NEW c \in p PROVE c.subject \in Log!Told(r, n, last)
  <2>1. c.cursor \in n + 1 .. last
    BY <1>0, <1>1, <1>2, <1>3
  <2>. QED BY <1>2, <2>1 DEF Log!Told
<1>5. ASSUME NEW s \in Log!Told(r, n, last) PROVE \E c \in p : c.subject = s
  <2>1. PICK i \in n + 1 .. last : history[i] = s /\ s \in Wants[r]
    BY <1>5 DEF Log!Told
  <2>2. i \in prunedThrough + 1 .. Len(history)
    BY <1>0, <1>1, <2>1 DEF Expired, TypeOK
  <2>3. PICK c \in change : c.cursor = i
    BY <2>2 DEF RowsKept
  <2>4. c \in Wanted(r, n) /\ c.subject = s
    BY <1>1, <2>1, <2>3 DEF Wanted, RowsTrue
  <2>5. CASE Cardinality(p) = PageSize
    <3>1. PICK t \in p : t.cursor = last
      BY <1>1, <2>5
    <3>2. CASE i = last
      BY <1>2, <2>1, <3>1, <3>2
    <3>3. CASE i # last
      BY <1>0, <1>1, <2>1, <2>3, <2>4, <3>1, <3>3 DEF IsPage
    <3>. QED BY <3>2, <3>3
  <2>6. CASE Cardinality(p) # PageSize
    BY <2>4, <2>6 DEF IsPage
  <2>. QED BY <2>5, <2>6
<1>. QED BY <1>4, <1>5 DEF last

\* Where nothing is wanted, nothing is told up to the latest cursor.
LEMMA NothingTold ==
  ASSUME TypeOK, RowsTrue, RowsKept, NEW r \in Readers, NEW n \in 0 .. Len(history),
         ~ Expired(n), Wanted(r, n) = {}
  PROVE  Log!Told(r, n, Len(history)) = {}
<1>. SUFFICES ASSUME NEW i \in n + 1 .. Len(history), history[i] \in Wants[r] PROVE FALSE
  BY DEF Log!Told
<1>1. i \in prunedThrough + 1 .. Len(history)
  BY DEF Expired, TypeOK
<1>2. PICK c \in change : c.cursor = i
  BY <1>1 DEF RowsKept
<1>3. c \in Wanted(r, n)
  BY <1>2 DEF Wanted, RowsTrue, TypeOK
<1>. QED BY <1>3

-----------------------------------------------------------------------------
\* A reader that took no step still follows, whatever was committed meanwhile.
LEMMA FollowsStands ==
  ASSUME TypeOK, NEW r \in Readers, Follows(r),
         UNCHANGED <<pc[r], unread[r], cursor[r], from[r], page[r]>>,
         \A i \in 1 .. Len(history) : history'[i] = history[i]
  PROVE  Follows(r)'
<1>1. ASSUME NEW m \in 0 .. Len(history), NEW n \in 0 .. Len(history)
      PROVE  {history'[i] : i \in m + 1 .. n} = {history[i] : i \in m + 1 .. n}
  <2>1. m + 1 .. n \subseteq 1 .. Len(history)
    BY <1>1 DEF TypeOK
  <2>. QED BY <2>1
<1>2. /\ cursor[r] \in 0 .. Len(history) /\ from[r] \in 0 .. Len(history)
      /\ page[r].cursor \in 0 .. Len(history)
  BY DEF TypeOK
<1>3. /\ {history'[i] : i \in cursor[r] + 1 .. from[r]} = {history[i] : i \in cursor[r] + 1 .. from[r]}
      /\ {history'[i] : i \in cursor[r] + 1 .. page[r].cursor}
           = {history[i] : i \in cursor[r] + 1 .. page[r].cursor}
  BY <1>1, <1>2
<1>. QED BY <1>3, Zenon DEF Follows, Log!Told, Subscribed

\* Every step keeps every request following.
LEMMA FollowsStep ==
  ASSUME TypeOK, RowsTrue, RowsKept, \A r \in Readers : Follows(r), [Next]_vars
  PROVE  \A r \in Readers : Follows(r)'
<1>. USE DEF store, wake, client, request
<1>0. Latest = Len(history) /\ Len(history) \in Nat
  BY LatestIsLast
<1>1. ASSUME NEW batch \in Batches, Commit(batch), NEW q \in Readers PROVE Follows(q)'
  <2>1. \A i \in 1 .. Len(history) : history'[i] = history[i]
    BY <1>1, HistoryGrows DEF Commit
  <2>. QED BY <1>1, <2>1, FollowsStands DEF Commit
<1>2. ASSUME NEW q \in Readers, history' = history,
             UNCHANGED <<pc[q], unread[q], cursor[q], from[q], page[q]>>
      PROVE  Follows(q)'
  BY <1>2, FollowsStands
<1>3. ASSUME Wake \/ CancelWake \/ Prune \/ Tick \/ StepBack \/ UNCHANGED vars,
             NEW q \in Readers
      PROVE  Follows(q)'
  BY <1>2, <1>3 DEF Wake, CancelWake, Prune, Tick, StepBack, vars
<1>4. ASSUME Restart, NEW q \in Readers PROVE Follows(q)'
  BY <1>4 DEF Restart, Follows, Subscribed
<1>5. ASSUME NEW r \in Readers, Reader(r), NEW q \in Readers, q # r PROVE Follows(q)'
  BY <1>2, <1>5
  DEF Reader, Join, ReadList, Poll, AnswerExpired, AnswerPage, ReadNothing, Wait, Woken,
      TimeOut, Receive, Lose, Unsubscribe, TypeOK
<1>6. ASSUME NEW r \in Readers, Reader(r) PROVE Follows(r)'
  <2>0. /\ cursor[r] \in 0 .. Len(history) /\ from[r] \in 0 .. Len(history)
        /\ Wants[r] \subseteq Subjects
    BY WantsAssumption DEF TypeOK
  <2>1. ASSUME Join(r) \/ Receive(r) \/ Lose(r) PROVE Follows(r)'
    BY <2>1 DEF Join, Receive, Lose, Follows, Subscribed, TypeOK
  <2>2. ASSUME NEW s \in Subjects, ReadList(r, s) PROVE Follows(r)'
    <3>1. /\ unread[r] # {}
          /\ UNCHANGED <<history, pc, cursor, from, page>>
      BY <2>2 DEF ReadList
    <3>. QED BY <3>1 DEF Follows
  <2>3. ASSUME Poll(r) PROVE Follows(r)'
    <3>1. /\ unread'[r] = {} /\ cursor'[r] = cursor[r] /\ from'[r] = cursor[r]
          /\ pc'[r] = "polling" /\ history' = history
      BY <2>3 DEF Poll, TypeOK
    <3>2. cursor[r] + 1 .. cursor[r] = {}
      BY <2>0
    <3>3. Log!Told(r, cursor[r], from[r])' = {}
      BY <3>1, <3>2 DEF Log!Told
    <3>. QED BY <2>0, <3>1, <3>3 DEF Follows
  <2>4. ASSUME Wait(r) \/ Woken(r) PROVE Follows(r)'
    <3>1. /\ pc[r] \in Subscribed /\ pc'[r] \in Subscribed
          /\ UNCHANGED <<history, unread, cursor, from, page>>
      BY <2>4 DEF Wait, Woken, TypeOK, Subscribed
    <3>. QED BY <3>1 DEF Follows, Subscribed, Log!Told
  <2>5. ASSUME AnswerExpired(r) PROVE Follows(r)'
    <3>1. /\ pc[r] \in Subscribed /\ pc'[r] = "expired"
          /\ page'[r].subjects = Wants[r] /\ page'[r].cursor = Len(history)
          /\ UNCHANGED <<unread, cursor>>
      BY <1>0, <2>5 DEF AnswerExpired, TypeOK, Subscribed
    <3>. QED BY <1>0, <2>0, <3>1 DEF Follows, Subscribed
  <2>6. ASSUME AnswerPage(r) PROVE Follows(r)'
    <3>1. PICK p \in SUBSET Wanted(r, from[r]) :
            /\ p # {} /\ IsPage(p, r, from[r])
            /\ page' = [page EXCEPT ![r] = [subjects |-> {c.subject : c \in p},
                                            cursor |-> PageCursor(p)]]
      BY <2>6 DEF AnswerPage
    <3>2. /\ pc[r] \in Subscribed /\ ~ Expired(from[r]) /\ pc'[r] = "answered"
          /\ page'[r].subjects = {c.subject : c \in p} /\ page'[r].cursor = PageCursor(p)
          /\ UNCHANGED <<history, unread, cursor>>
      BY <2>6, <3>1 DEF AnswerPage, TypeOK, Subscribed
    <3>3. /\ PageCursor(p) \in from[r] .. Len(history)
          /\ {c.subject : c \in p} = Log!Told(r, from[r], PageCursor(p))
      BY <2>0, <3>1, <3>2, PageEnds, PageTells
    <3>4. /\ cursor[r] <= from[r] /\ Log!Told(r, cursor[r], from[r]) = {} /\ unread[r] = {}
      BY <3>2 DEF Follows
    <3>5. cursor[r] <= PageCursor(p)
          /\ Log!Told(r, cursor[r], PageCursor(p)) = Log!Told(r, from[r], PageCursor(p))
      <4>1. /\ cursor[r] \in Nat /\ from[r] \in Nat /\ PageCursor(p) \in Nat
            /\ cursor[r] <= from[r] /\ from[r] <= PageCursor(p)
        BY <1>0, <2>0, <3>3, <3>4
      <4>2. Log!Told(r, cursor[r], PageCursor(p))
              = Log!Told(r, cursor[r], from[r]) \cup Log!Told(r, from[r], PageCursor(p))
        BY <4>1, ToldJoins
      <4>. QED BY <3>4, <4>1, <4>2
    <3>6. Log!Told(r, cursor[r], page[r].cursor)' = Log!Told(r, cursor[r], PageCursor(p))
      BY <3>2 DEF Log!Told
    <3>. QED BY <3>2, <3>3, <3>4, <3>5, <3>6 DEF Follows, Subscribed
  <2>7. ASSUME ReadNothing(r) PROVE Follows(r)'
    <3>1. /\ pc[r] \in Subscribed /\ pc'[r] = "empty" /\ from'[r] = Len(history)
          /\ ~ Expired(from[r]) /\ Wanted(r, from[r]) = {}
          /\ UNCHANGED <<history, unread, cursor>>
      BY <1>0, <2>7 DEF ReadNothing, TypeOK, Subscribed
    <3>2. cursor[r] <= from[r] /\ Log!Told(r, cursor[r], from[r]) = {} /\ unread[r] = {}
      BY <3>1 DEF Follows
    <3>3. Log!Told(r, from[r], Len(history)) = {}
      BY <2>0, <3>1, NothingTold
    <3>4. Log!Told(r, cursor[r], Len(history)) = {} /\ cursor[r] <= Len(history)
      BY <1>0, <2>0, <3>2, <3>3, ToldJoins
    <3>5. Log!Told(r, cursor[r], from[r])' = Log!Told(r, cursor[r], Len(history))
      BY <3>1 DEF Log!Told
    <3>. QED BY <3>1, <3>2, <3>4, <3>5 DEF Follows, Subscribed
  <2>8. ASSUME TimeOut(r) PROVE Follows(r)'
    <3>1. /\ pc[r] \in Subscribed /\ pc'[r] = "answered"
          /\ page'[r].subjects = {} /\ page'[r].cursor = from[r]
          /\ UNCHANGED <<history, unread, cursor>>
      BY <2>8 DEF TimeOut, TypeOK, Subscribed
    <3>2. Log!Told(r, cursor[r], page[r].cursor)' = Log!Told(r, cursor[r], from[r])
      BY <3>1 DEF Log!Told
    <3>. QED BY <3>1, <3>2 DEF Follows, Subscribed
  <2>. QED BY <1>6, <2>1, <2>2, <2>3, <2>4, <2>5, <2>6, <2>7, <2>8 DEF Reader
<1>. QED BY <1>1, <1>3, <1>4, <1>5, <1>6 DEF Next, Writer

\* A list read shows what the cursor has passed: a client moves its cursor on only with
\* the subjects of what lies between to be read.
LEMMA CoversStep ==
  ASSUME TypeOK, RowsKept, \A r \in Readers : Follows(r) /\ Covers(r), [Next]_vars
  PROVE  \A r \in Readers : Covers(r)'
<1>. USE DEF store, wake, client, request
<1>0. Len(history) \in Nat
  BY DEF TypeOK
<1>1. ASSUME NEW batch \in Batches, Commit(batch), NEW q \in Readers PROVE Covers(q)'
  <2>1. /\ history' = history \o batch
        /\ UNCHANGED <<pc, cursor, unread, view>>
    BY <1>1 DEF Commit
  <2>2. PICK k \in Nat : Len(history') = Len(history) + k
    BY <2>1, HistoryGrows
  <2>3. \A i \in 1 .. Len(history) : history'[i] = history[i]
    BY <2>1, HistoryGrows
  <2>4. SUFFICES ASSUME pc[q] # "away", NEW i \in 1 .. Len(history) + k,
                        history'[i] \in Wants[q] \ unread[q], i > view[q][history'[i]]
                 PROVE  i > cursor[q]
    BY <2>1, <2>2 DEF Covers, Behind
  <2>5. CASE i \in 1 .. Len(history)
    BY <2>3, <2>4, <2>5 DEF Covers, Behind
  <2>6. CASE i \notin 1 .. Len(history)
    BY <1>0, <2>6 DEF TypeOK
  <2>. QED BY <2>5, <2>6
<1>2. ASSUME NEW q \in Readers,
             UNCHANGED <<history, pc[q] = "away", unread[q], cursor[q], view[q]>>
      PROVE  Covers(q)'
  BY <1>2 DEF Covers, Behind
<1>3. ASSUME Wake \/ CancelWake \/ Prune \/ Tick \/ StepBack \/ UNCHANGED vars,
             NEW q \in Readers
      PROVE  Covers(q)'
  BY <1>2, <1>3 DEF Wake, CancelWake, Prune, Tick, StepBack, vars
<1>4. ASSUME Restart, NEW q \in Readers PROVE Covers(q)'
  <2>1. UNCHANGED <<history, unread, cursor, view>> /\ (pc[q] = "away" => pc'[q] = "away")
    BY <1>4 DEF Restart
  <2>. QED BY <2>1 DEF Covers, Behind
<1>5. ASSUME NEW r \in Readers, Reader(r), NEW q \in Readers, q # r PROVE Covers(q)'
  BY <1>2, <1>5
  DEF Reader, Join, ReadList, Poll, AnswerExpired, AnswerPage, ReadNothing, Wait, Woken,
      TimeOut, Receive, Lose, Unsubscribe, TypeOK
<1>6. ASSUME NEW r \in Readers, Reader(r) PROVE Covers(r)'
  <2>0. cursor[r] \in 0 .. Len(history) /\ page[r].cursor \in 0 .. Len(history)
    BY DEF TypeOK
  <2>1. ASSUME Join(r) PROVE Covers(r)'
    <3>1. unread'[r] = Wants[r]
      BY <2>1 DEF Join, TypeOK
    <3>. QED BY <3>1 DEF Covers, Behind
  <2>2. ASSUME NEW s \in Subjects, ReadList(r, s) PROVE Covers(r)'
    <3>1. /\ unread'[r] = unread[r] \ {s} /\ UNCHANGED <<history, pc, cursor>>
          /\ view'[r] = [view[r] EXCEPT ![s] = Len(history)]
      BY <2>2 DEF ReadList, TypeOK
    <3>2. SUFFICES ASSUME pc[r] # "away", NEW i \in 1 .. Len(history),
                          history[i] \in Wants[r] \ (unread[r] \ {s}),
                          i > view'[r][history[i]]
                   PROVE  i > cursor[r]
      BY <3>1 DEF Covers, Behind
    <3>3. history[i] # s
      BY <1>0, <3>1, <3>2 DEF TypeOK
    <3>4. view'[r][history[i]] = view[r][history[i]]
      BY <3>1, <3>3 DEF TypeOK
    <3>. QED BY <3>2, <3>3, <3>4 DEF Covers, Behind
  <2>3. ASSUME Poll(r) \/ AnswerExpired(r) \/ AnswerPage(r) \/ ReadNothing(r) \/ Wait(r)
                 \/ Woken(r) \/ TimeOut(r) \/ Lose(r)
        PROVE  Covers(r)'
    <3>1. pc[r] # "away" /\ UNCHANGED <<history, unread, cursor, view>>
      BY <2>3 DEF Poll, AnswerExpired, AnswerPage, ReadNothing, Wait, Woken, TimeOut, Lose
    <3>. QED BY <3>1 DEF Covers, Behind
  <2>4. ASSUME Receive(r) PROVE Covers(r)'
    <3>1. /\ cursor'[r] = page[r].cursor /\ unread'[r] = page[r].subjects
          /\ pc[r] \in {"answered", "expired"} /\ UNCHANGED <<history, view>>
      BY <2>4 DEF Receive, TypeOK
    <3>2. unread[r] = {} /\ (pc[r] = "expired" => page[r].subjects = Wants[r])
      BY <3>1 DEF Follows
    <3>3. CASE pc[r] = "expired"
      BY <3>1, <3>2, <3>3 DEF Covers, Behind
    <3>4. CASE pc[r] = "answered"
      <4>1. SUFFICES ASSUME NEW i \in 1 .. Len(history),
                            history[i] \in Wants[r] \ page[r].subjects,
                            i > view[r][history[i]]
                     PROVE  i > page[r].cursor
        BY <3>1 DEF Covers, Behind
      <4>2. page[r].subjects = Log!Told(r, cursor[r], page[r].cursor)
        BY <3>4 DEF Follows
      <4>3. i > cursor[r]
        BY <3>2, <3>4, <4>1 DEF Covers, Behind
      <4>4. i \notin cursor[r] + 1 .. page[r].cursor
        BY <4>1, <4>2 DEF Log!Told
      <4>. QED BY <2>0, <4>3, <4>4
    <3>. QED BY <3>1, <3>3, <3>4
  <2>. QED BY <1>6, <2>1, <2>2, <2>3, <2>4 DEF Reader
<1>. QED BY <1>1, <1>3, <1>4, <1>5, <1>6 DEF Next, Writer

\* What a poll found empty is written to only together with a wake that reaches it: it
\* subscribes before it reads, and a commit is visible before its wake is sent.
LEMMA StaysEmptyStep ==
  ASSUME TypeOK, RowsKept, \A r \in Readers : StaysEmpty(r), [Next]_vars
  PROVE  \A r \in Readers : StaysEmpty(r)'
<1>. USE DEF store, wake, client, request
<1>1. ASSUME NEW q \in Readers, UNCHANGED <<pc[q], woken[q], from[q], wakes, dropped>>,
             change' \subseteq change
      PROVE  StaysEmpty(q)'
  BY <1>1 DEF StaysEmpty, Wanted
<1>2. ASSUME NEW batch \in Batches, Commit(batch), NEW q \in Readers PROVE StaysEmpty(q)'
  <2>1. CASE batch = <<>>
    <3>1. Rows(batch) = {}
      BY <2>1 DEF Rows
    <3>. QED BY <1>1, <1>2, <2>1, <3>1 DEF Commit
  <2>2. CASE batch # <<>>
    <3>1. wakes' = wakes + 1 /\ wakes \in Nat
      BY <1>2, <2>2 DEF Commit, TypeOK
    <3>. QED BY <3>1 DEF StaysEmpty
  <2>. QED BY <2>1, <2>2
<1>3. ASSUME Wake, NEW q \in Readers PROVE StaysEmpty(q)'
  <2>1. pc[q] \in {"empty", "waiting"} => woken'[q]
    BY <1>3 DEF Wake, TypeOK, Subscribed
  <2>. QED BY <1>3, <2>1 DEF StaysEmpty, Wake
<1>4. ASSUME CancelWake, NEW q \in Readers PROVE StaysEmpty(q)'
  BY <1>4 DEF CancelWake, StaysEmpty
<1>5. ASSUME Prune \/ Tick \/ StepBack \/ UNCHANGED vars, NEW q \in Readers
      PROVE  StaysEmpty(q)'
  BY <1>1, <1>5 DEF Prune, Tick, StepBack, vars
<1>6. ASSUME Restart, NEW q \in Readers PROVE StaysEmpty(q)'
  BY <1>6 DEF Restart, StaysEmpty
<1>7. ASSUME NEW r \in Readers, Reader(r), NEW q \in Readers, q # r PROVE StaysEmpty(q)'
  BY <1>1, <1>7
  DEF Reader, Join, ReadList, Poll, AnswerExpired, AnswerPage, ReadNothing, Wait, Woken,
      TimeOut, Receive, Lose, Unsubscribe, TypeOK
<1>8. ASSUME NEW r \in Readers, Reader(r) PROVE StaysEmpty(r)'
  <2>1. ASSUME NEW s \in Subjects, ReadList(r, s) PROVE StaysEmpty(r)'
    BY <1>1, <2>1 DEF ReadList
  <2>2. ASSUME ReadNothing(r) PROVE StaysEmpty(r)'
    <3>1. from'[r] = Len(history) /\ change' = change
      BY <2>2, LatestIsLast DEF ReadNothing, TypeOK
    <3>2. \A c \in change : ~ (c.cursor > Len(history))
      BY DEF TypeOK
    <3>. QED BY <3>1, <3>2 DEF StaysEmpty, Wanted
  <2>3. ASSUME Join(r) \/ Poll(r) \/ AnswerExpired(r) \/ AnswerPage(r) \/ Woken(r)
                 \/ TimeOut(r) \/ Receive(r) \/ Lose(r)
        PROVE  StaysEmpty(r)'
    <3>1. pc'[r] \notin {"empty", "waiting"}
      BY <2>3
      DEF Join, Poll, AnswerExpired, AnswerPage, Woken, TimeOut, Receive, Lose, TypeOK
    <3>. QED BY <3>1 DEF StaysEmpty
  <2>4. CASE \E s \in Subjects : ReadList(r, s)
    BY <2>1, <2>4
  <2>5. CASE Wait(r)
    <3>1. /\ pc[r] \in {"empty", "waiting"}
          /\ UNCHANGED <<change, wakes, dropped, woken, from>>
      BY <2>5 DEF Wait
    <3>. QED BY <3>1 DEF StaysEmpty, Wanted
  <2>. QED BY <1>8, <2>2, <2>3, <2>4, <2>5 DEF Reader
<1>. QED BY <1>2, <1>3, <1>4, <1>5, <1>6, <1>7, <1>8 DEF Next, Writer

-----------------------------------------------------------------------------
\* The invariant holds at the start and is kept by every step.
THEOREM FeedCorrect == Spec => []FeedInv
<1>1. Init => FeedInv
  <2>. SUFFICES ASSUME Init PROVE FeedInv
    OBVIOUS
  <2>1. RowsTrue /\ RowsKept
    BY DEF Init, RowsTrue, RowsKept
  <2>2. ASSUME NEW r \in Readers PROVE Follows(r) /\ Covers(r) /\ StaysEmpty(r)
    BY DEF Init, Follows, Covers, StaysEmpty, Subscribed
  <2>. QED BY <2>1, <2>2, TypeInit DEF FeedInv
<1>2. FeedInv /\ [Next]_vars => FeedInv'
  <2>. SUFFICES ASSUME FeedInv, [Next]_vars PROVE FeedInv'
    OBVIOUS
  <2>1. TypeOK' /\ RowsTrue' /\ RowsKept'
    BY TypeStep, RowsStep DEF FeedInv
  <2>2. \A r \in Readers : Follows(r)' /\ Covers(r)' /\ StaysEmpty(r)'
    BY FollowsStep, CoversStep, StaysEmptyStep DEF FeedInv
  <2>. QED BY <2>1, <2>2 DEF FeedInv
<1>. QED BY <1>1, <1>2, PTL DEF Spec

\* Every variable keeps its type, cursors within what was ever committed.
THEOREM ChangeFeedTypes == Spec => []TypeOK
<1>1. FeedInv => TypeOK
  BY DEF FeedInv
<1>. QED BY <1>1, FeedCorrect, PTL

\* No change is skipped, for any page size, retention, clock and number of restarts.
THEOREM NothingMissedCorrect == Spec => []NothingMissed
<1>1. FeedInv => NothingMissed
  <2>. SUFFICES ASSUME FeedInv, NEW r \in Readers, pc[r] # "away", NEW i \in Behind(r)
                PROVE  i > cursor[r] /\ (Kept(i) \/ Expired(cursor[r]))
    BY DEF NothingMissed
  <2>1. i > cursor[r] /\ i \in 1 .. Len(history)
    BY DEF FeedInv, Covers, Behind
  <2>2. prunedThrough \in Nat /\ cursor[r] \in Nat
    BY DEF FeedInv, TypeOK
  <2>3. CASE i <= prunedThrough
    BY <2>1, <2>2, <2>3 DEF Expired
  <2>4. CASE ~ (i <= prunedThrough)
    <3>1. i \in prunedThrough + 1 .. Len(history)
      BY <2>1, <2>2, <2>4
    <3>2. PICK c \in change : c.cursor = i
      BY <3>1 DEF FeedInv, RowsKept
    <3>. QED BY <2>1, <3>2 DEF Kept, FeedInv, RowsTrue
  <2>. QED BY <2>1, <2>3, <2>4
<1>. QED BY <1>1, FeedCorrect, PTL

\* A waiting poll has read everything committed, or a wake is on its way to it.
THEOREM NoSleepOverCorrect == Spec => []NoSleepOver
<1>1. FeedInv => NoSleepOver
  BY DEF FeedInv, StaysEmpty, NoSleepOver
<1>. QED BY <1>1, FeedCorrect, PTL

\* ChangeFeed implements ChangeLog: a commit extends the log, an answer received moves
\* the reader over exactly what it was told, a first read or a 410 starts it over, and
\* every other step leaves the log and its readers alone.
THEOREM FollowsLogCorrect == Spec => FollowsLog
<1>1. Init => Log!Init
  BY DEF Init, Log!Init
<1>2. ASSUME FeedInv, [Next]_vars PROVE [Log!Next]_<<history, cursor, unread>>
  <2>. USE DEF store, wake, client, request
  <2>0. Latest = Len(history) /\ Len(history) \in Nat
    BY <1>2, LatestIsLast DEF FeedInv
  <2>1. ASSUME NEW batch \in Batches, Commit(batch) PROVE Log!Commit
    <3>1. TypeOK /\ history' = history \o batch /\ UNCHANGED <<cursor, unread>>
      BY <1>2, <2>1 DEF Commit, FeedInv
    <3>2. /\ history' \in Seq(Subjects)
          /\ Len(history) <= Len(history')
          /\ \A i \in 1 .. Len(history) : history'[i] = history[i]
      BY <3>1, HistoryGrows
    <3>. QED BY <3>1, <3>2 DEF Log!Commit
  <2>2. ASSUME NEW r \in Readers, Join(r) PROVE Log!StartOver(r)
    <3>1. Len(history) \in cursor[r] .. Len(history)
      BY <1>2, <2>0 DEF FeedInv, TypeOK
    <3>. QED BY <2>0, <2>2, <3>1 DEF Join, Log!StartOver
  <2>3. ASSUME NEW r \in Readers, NEW s \in Subjects, ReadList(r, s) PROVE Log!ReadList(r)
    BY <2>3 DEF ReadList, Log!ReadList
  <2>4. ASSUME NEW r \in Readers, Receive(r) PROVE Log!Hand(r) \/ Log!StartOver(r)
    <3>1. /\ cursor' = [cursor EXCEPT ![r] = page[r].cursor]
          /\ unread' = [unread EXCEPT ![r] = page[r].subjects]
          /\ pc[r] \in {"answered", "expired"} /\ history' = history
      BY <2>4 DEF Receive
    <3>2. page[r].cursor \in cursor[r] .. Len(history) /\ unread[r] = {}
      BY <1>2, <2>0, <3>1 DEF FeedInv, TypeOK, Follows
    <3>3. CASE pc[r] = "answered"
      <4>1. page[r].subjects = Log!Told(r, cursor[r], page[r].cursor)
        BY <1>2, <3>3 DEF FeedInv, Follows
      <4>. QED BY <3>1, <3>2, <4>1 DEF Log!Hand
    <3>4. CASE pc[r] = "expired"
      <4>1. page[r].subjects = Wants[r]
        BY <1>2, <3>4 DEF FeedInv, Follows
      <4>. QED BY <3>1, <3>2, <4>1 DEF Log!StartOver
    <3>. QED BY <3>1, <3>3, <3>4
  <2>5. ASSUME Wake \/ CancelWake \/ Prune \/ Tick \/ StepBack \/ Restart \/ UNCHANGED vars
        PROVE  UNCHANGED <<history, cursor, unread>>
    BY <2>5 DEF Wake, CancelWake, Prune, Tick, StepBack, Restart, vars
  <2>6. ASSUME NEW r \in Readers,
               Poll(r) \/ AnswerExpired(r) \/ AnswerPage(r) \/ ReadNothing(r) \/ Wait(r)
                 \/ Woken(r) \/ TimeOut(r) \/ Lose(r)
        PROVE  UNCHANGED <<history, cursor, unread>>
    BY <2>6 DEF Poll, AnswerExpired, AnswerPage, ReadNothing, Wait, Woken, TimeOut, Lose
  <2>. QED BY <1>2, <2>1, <2>2, <2>3, <2>4, <2>5, <2>6 DEF Next, Writer, Reader, Log!Next
<1>. QED BY <1>1, <1>2, FeedCorrect, PTL DEF Spec, FollowsLog, Log!Spec
=============================================================================
