--------------------------- MODULE RefreshProofs ---------------------------
(* Proofs about ManualReset and ProviderReads, which a hard refresh joins. *)
(* Of resets that are spent: the invariant, and that it implements the     *)
(* licence: no reset is sent on a list read before the last one.  Of what  *)
(* a refresh stores: that answers decide it, and how windows and grants    *)
(* change.                                                                 *)
EXTENDS ManualReset, ProviderReads, TLAPS, WellFoundedInduction, SequenceTheorems

---------------------------------------------------------------------------
(* The resets that are spent. *)

\* The invariant holds at the start: nothing was read and nothing is stored.
LEMMA SpendInit == Init => SpendInv
<1>1. ASSUME Init PROVE TypeOK
  <2>1. boot \in Nat /\ upstream \in Nat /\ grants \in Nat /\ sent \in Nat
    BY <1>1, ConstantsAssumption DEF Init
  <2>2. signIn \in BOOLEAN /\ licensed \in BOOLEAN
    BY <1>1 DEF Init
  <2>3. read \in [Workers -> Int]
    BY <1>1 DEF Init, Unchanged
  <2>4. /\ pc \in [Workers -> Places] /\ job \in [Workers -> Jobs]
        /\ lock \in Workers \cup {None} /\ flight \subseteq Workers /\ applied \subseteq Workers
    BY <1>1 DEF Init, Places, Jobs
  <2>. QED BY <2>1, <2>2, <2>3, <2>4 DEF TypeOK
<1>2. Init => LockHeld /\ SpendersAreLicensed /\ NothingOfferedUnread
  BY DEF Init, LockHeld, SpendersAreLicensed, NothingOfferedUnread, Holds
<1>. QED BY <1>1, <1>2 DEF SpendInv

\* Every step keeps the invariant.
LEMMA SpendStep == SpendInv /\ [Next]_vars => SpendInv'
<1>. SUFFICES ASSUME SpendInv, [Next]_vars PROVE SpendInv'
  OBVIOUS
<1>. USE DEF provider, history
<1>1. ASSUME NEW w \in Workers, Ask(w) PROVE SpendInv'
  <2>1. TypeOK'
    BY <1>1 DEF SpendInv, TypeOK, Ask, Moved, Places
  <2>2. LockHeld' /\ SpendersAreLicensed' /\ NothingOfferedUnread'
    BY <1>1 DEF SpendInv, TypeOK, LockHeld, SpendersAreLicensed, NothingOfferedUnread, Holds,
                Ask, Moved
  <2>. QED BY <2>1, <2>2 DEF SpendInv
<1>2. ASSUME NEW w \in Workers, Lock(w) PROVE SpendInv'
  <2>1. \A v \in Workers : ~Holds(v)
    BY <1>2, ConstantsAssumption DEF SpendInv, LockHeld, Lock
  <2>2. TypeOK'
    BY <1>2 DEF SpendInv, TypeOK, Lock, Moved, Places
  <2>3. LockHeld' /\ SpendersAreLicensed' /\ NothingOfferedUnread'
    BY <1>2, <2>1
    DEF SpendInv, TypeOK, LockHeld, SpendersAreLicensed, NothingOfferedUnread, Holds, Lock, Moved
  <2>. QED BY <2>2, <2>3 DEF SpendInv
<1>3. ASSUME NEW w \in Workers, List(w) \/ Refuse(w) \/ Count(w) PROVE SpendInv'
  <2>1. /\ Holds(w) /\ UNCHANGED <<boot, job, grants, read, provider, signIn, history>>
        /\ \/ Moved(w, "listed") /\ lock' = lock
           \/ Moved(w, "reading") /\ lock' = lock
           \/ Moved(w, "counted") /\ lock' = lock /\ grants # 0
           \/ Moved(w, "done") /\ lock' = None
    BY <1>3 DEF List, Refuse, Count, Leaves, Holds
  <2>2. lock = w
    BY <2>1 DEF SpendInv, LockHeld
  <2>3. TypeOK' /\ LockHeld'
    BY <2>1, <2>2 DEF SpendInv, TypeOK, LockHeld, Holds, Moved, Places
  <2>4. SpendersAreLicensed' /\ NothingOfferedUnread'
    BY <2>1 DEF SpendInv, TypeOK, SpendersAreLicensed, NothingOfferedUnread, Moved
  <2>. QED BY <2>3, <2>4 DEF SpendInv
<1>4. ASSUME NEW w \in Workers, Clear(w) PROVE SpendInv'
  <2>1. lock = w
    BY <1>4 DEF SpendInv, LockHeld, Holds, Clear
  <2>2. TypeOK' /\ LockHeld'
    BY <1>4, <2>1 DEF SpendInv, TypeOK, LockHeld, Holds, Moved, Places, Clear
  <2>3. SpendersAreLicensed' /\ NothingOfferedUnread'
    BY <1>4 DEF SpendInv, TypeOK, SpendersAreLicensed, NothingOfferedUnread, Moved, Clear
  <2>. QED BY <2>2, <2>3 DEF SpendInv
<1>5. ASSUME NEW w \in Workers, Send(w) PROVE SpendInv'
  <2>1. lock = w /\ grants = 0
    BY <1>5 DEF SpendInv, LockHeld, Holds, SpendersAreLicensed, Send
  <2>2. TypeOK' /\ LockHeld'
    <3>1. /\ boot' \in Nat /\ job' \in [Workers -> Jobs] /\ lock' \in Workers \cup {None}
          /\ grants' \in Nat /\ read' \in [Workers -> Int] /\ upstream' \in Nat
          /\ applied' \subseteq Workers /\ signIn' \in BOOLEAN
      BY <1>5 DEF SpendInv, TypeOK, Send
    <3>2. pc' \in [Workers -> Places] /\ flight' \subseteq Workers /\ sent' \in Nat
      BY <1>5 DEF SpendInv, TypeOK, Send, Moved, Places
    <3>3. licensed' \in BOOLEAN
      BY <1>5 DEF Send
    <3>4. LockHeld'
      BY <1>5, <2>1 DEF SpendInv, TypeOK, LockHeld, Holds, Moved, Send
    <3>. QED BY <3>1, <3>2, <3>3, <3>4 DEF TypeOK
  <2>3. \A v \in Workers : pc'[v] \notin {"counted", "cleared"}
    BY <1>5, <2>1 DEF SpendInv, TypeOK, LockHeld, Holds, Moved, Send
  <2>4. SpendersAreLicensed' /\ NothingOfferedUnread'
    BY <1>5, <2>1, <2>3 DEF SpendersAreLicensed, NothingOfferedUnread, Send
  <2>. QED BY <2>2, <2>4 DEF SpendInv
<1>6. ASSUME NEW w \in Workers, Confirm(w) \/ OutcomeUnknown(w) PROVE SpendInv'
  <2>1. lock = w
    BY <1>6 DEF SpendInv, LockHeld, Holds, Confirm, OutcomeUnknown
  <2>2. TypeOK' /\ LockHeld'
    BY <1>6, <2>1
    DEF SpendInv, TypeOK, LockHeld, Holds, Moved, Places, Confirm, OutcomeUnknown, Leaves
  <2>3. SpendersAreLicensed' /\ NothingOfferedUnread'
    BY <1>6 DEF SpendInv, TypeOK, SpendersAreLicensed, NothingOfferedUnread, Moved, Confirm,
                OutcomeUnknown, Leaves
  <2>. QED BY <2>2, <2>3 DEF SpendInv
<1>7. ASSUME NEW w \in Workers, Fetch(w) PROVE SpendInv'
  <2>1. lock = w
    BY <1>7 DEF SpendInv, LockHeld, Holds, Fetch
  <2>2. TypeOK' /\ LockHeld'
    BY <1>7, <2>1 DEF SpendInv, TypeOK, LockHeld, Holds, Moved, Places, Fetch, Unchanged, Failed
  <2>3. SpendersAreLicensed' /\ NothingOfferedUnread'
    BY <1>7 DEF SpendInv, TypeOK, SpendersAreLicensed, NothingOfferedUnread, Moved, Fetch
  <2>. QED BY <2>2, <2>3 DEF SpendInv
<1>8. ASSUME NEW w \in Workers, Record(w) PROVE SpendInv'
  <2>1. lock = w
    BY <1>8 DEF SpendInv, LockHeld, Holds, Record
  <2>2. TypeOK'
    <3>1. signIn' \in BOOLEAN /\ licensed' \in BOOLEAN
      BY <1>8 DEF SpendInv, TypeOK, Record
    <3>2. grants' \in Nat
      BY <1>8 DEF SpendInv, TypeOK, Record
    <3>. QED BY <1>8, <3>1, <3>2 DEF SpendInv, TypeOK, Places, Record, Leaves, Moved
  <2>3. LockHeld'
    BY <1>8, <2>1 DEF SpendInv, TypeOK, LockHeld, Holds, Moved, Record, Leaves
  <2>4. \A v \in Workers : pc'[v] \notin {"counted", "cleared"}
    BY <1>8, <2>1 DEF SpendInv, TypeOK, LockHeld, Holds, Moved, Record, Leaves
  <2>5. SpendersAreLicensed' /\ NothingOfferedUnread'
    BY <1>8, <2>4 DEF SpendInv, SpendersAreLicensed, NothingOfferedUnread, Record
  <2>. QED BY <2>2, <2>3, <2>5 DEF SpendInv
<1>9. ASSUME NEW w \in Workers, Apply(w) \/ Lose(w) PROVE SpendInv'
  <2>1. TypeOK'
    BY <1>9 DEF SpendInv, TypeOK, Apply, Lose
  <2>2. LockHeld' /\ SpendersAreLicensed' /\ NothingOfferedUnread'
    BY <1>9 DEF SpendInv, LockHeld, SpendersAreLicensed, NothingOfferedUnread, Holds, Apply, Lose
  <2>. QED BY <2>1, <2>2 DEF SpendInv
<1>10. ASSUME Grant \/ Expire \/ UNCHANGED vars PROVE SpendInv'
  <2>1. TypeOK'
    BY <1>10 DEF SpendInv, TypeOK, Grant, Expire, vars
  <2>2. LockHeld' /\ SpendersAreLicensed' /\ NothingOfferedUnread'
    BY <1>10 DEF SpendInv, TypeOK, LockHeld, SpendersAreLicensed, NothingOfferedUnread, Holds,
                 Grant, Expire, vars
  <2>. QED BY <2>1, <2>2 DEF SpendInv
<1>11. ASSUME Restart PROVE SpendInv'
  <2>1. TypeOK'
    BY <1>11 DEF SpendInv, TypeOK, Restart, Places
  <2>2. LockHeld' /\ SpendersAreLicensed' /\ NothingOfferedUnread'
    BY <1>11 DEF SpendInv, LockHeld, SpendersAreLicensed, NothingOfferedUnread, Holds, Restart
  <2>. QED BY <2>1, <2>2 DEF SpendInv
<1>. QED
  BY <1>1, <1>2, <1>3, <1>4, <1>5, <1>6, <1>7, <1>8, <1>9, <1>10, <1>11 DEF Next, Spends

\* Every reachable state satisfies it.
THEOREM SpendCorrect == Spec => []SpendInv
BY SpendInit, SpendStep, PTL DEF Spec

\* Every variable keeps its type, through provider answers that never come, late
\* applications and restarts.
THEOREM ManualResetTypes == Spec => []TypeOK
<1>1. SpendInv => TypeOK
  BY DEF SpendInv
<1>. QED BY <1>1, SpendCorrect, PTL

\* Stored grants never outlive a request that may have consumed them.
THEOREM NothingOfferedUnreadCorrect == Spec => []NothingOfferedUnread
<1>1. SpendInv => NothingOfferedUnread
  BY DEF SpendInv
<1>. QED BY <1>1, SpendCorrect, PTL

\* Every reset is sent on a list read since the last: each step of spend(), of a
\* refresh, of the provider and of a restart is a step of the licence or leaves it.
THEOREM SpendsOnLicenseCorrect == Spec => SpendsOnLicense
<1>1. Init => License!Init
  BY DEF Init, License!Init
<1>2. ASSUME SpendInv, [Next]_vars PROVE [License!Next]_<<licensed, sent>>
  <2>. USE DEF provider, history, License!Next, License!Read, License!Spend
  <2>1. ASSUME NEW w \in Workers, Send(w) PROVE License!Spend
    BY <1>2, <2>1 DEF Send, SpendInv, SpendersAreLicensed
  <2>2. ASSUME NEW w \in Workers, Record(w) PROVE [License!Next]_<<licensed, sent>>
    BY <2>2 DEF Record
  <2>3. CASE UNCHANGED <<licensed, sent>>
    BY <2>3
  <2>. QED
    BY <1>2, <2>1, <2>2, <2>3
    DEF Next, Spends, Ask, Lock, List, Refuse, Count, Clear, Confirm, OutcomeUnknown, Fetch,
        Apply, Lose, Grant, Expire, Restart, vars
<1>. QED BY <1>1, <1>2, SpendCorrect, PTL DEF Spec, SpendsOnLicense, License!Spec

---------------------------------------------------------------------------
(* Lists. *)

\* A set of numbers that is not empty has a least.
LEMMA Least ==
  ASSUME NEW T, T \subseteq Nat, T # {}
  PROVE  \E m \in T : \A k \in T : m <= k
<1>1. PICK m \in T : \A k \in T : <<k, m>> \notin OpToRel(<, Nat)
  BY NatLessThanWellFounded, WFMin, Zenon
<1>2. \A k \in T : ~ (k < m)
  BY <1>1 DEF OpToRel
<1>3. \A k \in T : m <= k
  BY <1>2
<1>. QED BY <1>3

\* What is there of a list, up to each of its places.
LEMMA PresentUnfolds ==
  ASSUME NEW list, Len(list) \in Nat
  PROVE  \E kept :
            /\ Present(list) = kept[Len(list)]
            /\ kept[0] = <<>>
            /\ \A i \in 1..Len(list) :
                  kept[i] = IF list[i] = Nil THEN kept[i - 1] ELSE Append(kept[i - 1], list[i])
<1>. DEFINE next(i, before) == IF list[i] = Nil THEN before ELSE Append(before, list[i])
            Unfolds(f, n) == f = [i \in 0..n |-> IF i = 0 THEN <<>> ELSE next(i, f[i - 1])]
            Failing == {n \in Nat : ~\E f : Unfolds(f, n)}
<1>1. Failing = {}
  <2>. SUFFICES ASSUME Failing # {} PROVE FALSE
    OBVIOUS
  <2>1. PICK m \in Failing : \A k \in Failing : m <= k
    <3>. HIDE DEF Unfolds
    <3>. QED BY Least
  <2>2. m # 0
    <3>1. Unfolds([i \in 0..0 |-> <<>>], 0)
      OBVIOUS
    <3>. QED BY <3>1
  <2>3. PICK f : Unfolds(f, m - 1)
    <3>. HIDE DEF Unfolds
    <3>. QED BY <2>1, <2>2
  <2>. DEFINE g == [i \in 0..m |-> IF i = m THEN next(m, f[m - 1]) ELSE f[i]]
  <2>4. \A i \in 0..m : g[i] = IF i = 0 THEN <<>> ELSE next(i, g[i - 1])
    <3>. HIDE DEF next
    <3>1. \A i \in 0..(m - 1) : f[i] = IF i = 0 THEN <<>> ELSE next(i, f[i - 1])
      BY <2>3
    <3>2. \A i \in 0..(m - 1) : g[i] = f[i]
      OBVIOUS
    <3>3. g[m] = next(m, g[m - 1])
      BY <2>2, <3>2
    <3>4. \A i \in 1..(m - 1) : g[i] = next(i, g[i - 1])
      <4>. HIDE DEF g
      <4>. QED BY <3>1, <3>2
    <3>5. g[0] = <<>>
      BY <2>2, <3>1, <3>2
    <3>6. \A i \in 0..m : i = 0 \/ (i = m /\ i # 0) \/ (i \in 1..(m - 1) /\ i # 0)
      BY <2>2
    <3>. HIDE DEF g
    <3>. QED BY <3>3, <3>4, <3>5, <3>6
  <2>5. Unfolds(g, m)
    <3>1. g = [i \in 0..m |-> g[i]]
      OBVIOUS
    <3>. HIDE DEF g, next
    <3>. QED BY <2>4, <3>1
  <2>. QED BY <2>1, <2>5
<1>2. \E f : Unfolds(f, Len(list))
  <2>. HIDE DEF Unfolds
  <2>. QED BY <1>1
<1>. DEFINE kept == CHOOSE f : Unfolds(f, Len(list))
<1>3. Present(list) = kept[Len(list)]
  BY DEF Present
<1>4. Unfolds(kept, Len(list))
  <2>. HIDE DEF Unfolds
  <2>. QED BY <1>2
<1>5. kept[0] = <<>> /\ \A i \in 1..Len(list) : kept[i] = next(i, kept[i - 1])
  <2>. HIDE DEF kept, next
  <2>. QED BY <1>4
<1>. HIDE DEF kept
<1>. QED BY <1>3, <1>5

\* A sequence of a set is a list of what it holds.
LEMMA SequenceIsList ==
  ASSUME NEW S, NEW s \in Seq(S)
  PROVE  IsList(s)
<1>1. s \in Seq({s[i] : i \in DOMAIN s})
  OBVIOUS
<1>. QED BY <1>1 DEF IsList

LEMMA Lists ==
  ASSUME NEW s, IsList(s)
  PROVE  /\ Len(s) \in Nat /\ DOMAIN s = 1..Len(s) /\ s = [i \in 1..Len(s) |-> s[i]]
         /\ s \in Seq({s[i] : i \in DOMAIN s})
<1>1. s \in Seq({s[i] : i \in DOMAIN s})
  BY DEF IsList
<1>2. Len(s) \in Nat /\ DOMAIN s = 1..Len(s) /\ s = [i \in 1..Len(s) |-> s[i]]
  BY <1>1
<1>. QED BY <1>1, <1>2

\* Of a list, Present keeps what is there, and nothing else.
LEMMA PresentKeeps ==
  ASSUME NEW list, IsList(list)
  PROVE  /\ IsList(Present(list))
         /\ \A j \in DOMAIN Present(list) :
               \E i \in DOMAIN list : Present(list)[j] = list[i] /\ list[i] # Nil
         /\ \A i \in DOMAIN list : list[i] # Nil =>
               \E j \in DOMAIN Present(list) : Present(list)[j] = list[i]
<1>. DEFINE all == {list[i] : i \in DOMAIN list}
            n == Len(list)
<1>1. n \in Nat /\ DOMAIN list = 1..n
  BY Lists
<1>2. PICK kept :
         /\ Present(list) = kept[n]
         /\ kept[0] = <<>>
         /\ \A i \in 1..n :
               kept[i] = IF list[i] = Nil THEN kept[i - 1] ELSE Append(kept[i - 1], list[i])
  BY <1>1, PresentUnfolds
<1>. DEFINE Keeps(k) ==
       /\ kept[k] \in Seq(all)
       /\ \A j \in DOMAIN kept[k] : \E i \in 1..k : kept[k][j] = list[i] /\ list[i] # Nil
       /\ \A i \in 1..k : list[i] # Nil => \E j \in DOMAIN kept[k] : kept[k][j] = list[i]
<1>3. Keeps(0)
  BY <1>2
<1>4. ASSUME NEW k \in 1..n, Keeps(k - 1)
      PROVE  Keeps(k)
  <2>. DEFINE before == kept[k - 1]
              after == kept[k]
              x == list[k]
  <2>1. /\ before \in Seq(all)
        /\ \A j \in DOMAIN before : \E i \in 1..(k - 1) : before[j] = list[i] /\ list[i] # Nil
        /\ \A i \in 1..(k - 1) : list[i] # Nil => \E j \in DOMAIN before : before[j] = list[i]
    BY <1>4
  <2>2. x \in all /\ k \in Nat
    BY <1>1
  <2>3. CASE x = Nil
    <3>1. after = before
      BY <1>2, <2>3
    <3>. HIDE DEF before, after, all
    <3>2. \A i \in 1..k : i = k \/ i \in 1..(k - 1)
      BY <2>2
    <3>3. \A i \in 1..(k - 1) : i \in 1..k
      BY <2>2
    <3>4. \A j \in DOMAIN after : \E i \in 1..k : after[j] = list[i] /\ list[i] # Nil
      BY <2>1, <3>1, <3>3
    <3>5. \A i \in 1..k : list[i] # Nil => \E j \in DOMAIN after : after[j] = list[i]
      BY <2>1, <2>3, <3>1, <3>2
    <3>. QED BY <2>1, <3>1, <3>4, <3>5 DEF after
  <2>4. CASE x # Nil
    <3>1. after = Append(before, x)
      BY <1>2, <2>4
    <3>. HIDE DEF before, after, all
    <3>2. /\ after \in Seq(all) /\ DOMAIN before = 1..Len(before) /\ Len(before) \in Nat
          /\ DOMAIN after = 1..(Len(before) + 1)
          /\ after[Len(before) + 1] = x
          /\ \A j \in 1..Len(before) : after[j] = before[j]
      BY <2>1, <2>2, <3>1
    <3>3. \A i \in 1..k : i = k \/ i \in 1..(k - 1)
      BY <2>2
    <3>4. \A j \in DOMAIN after : j = Len(before) + 1 \/ j \in DOMAIN before
      BY <3>2
    <3>5. \A j \in DOMAIN after : \E i \in 1..k : after[j] = list[i] /\ list[i] # Nil
      <4>1. SUFFICES ASSUME NEW j \in DOMAIN after
                     PROVE  \E i \in 1..k : after[j] = list[i] /\ list[i] # Nil
        OBVIOUS
      <4>2. CASE j = Len(before) + 1
        BY <2>2, <2>4, <3>2, <4>2
      <4>3. CASE j \in DOMAIN before
        <5>1. PICK i \in 1..(k - 1) : before[j] = list[i] /\ list[i] # Nil
          BY <2>1, <4>3
        <5>. QED BY <2>2, <3>2, <4>3, <5>1
      <4>. QED BY <3>4, <4>2, <4>3
    <3>6. \A i \in 1..k : list[i] # Nil => \E j \in DOMAIN after : after[j] = list[i]
      <4>1. SUFFICES ASSUME NEW i \in 1..k, list[i] # Nil
                     PROVE  \E j \in DOMAIN after : after[j] = list[i]
        OBVIOUS
      <4>2. CASE i = k
        BY <3>2, <4>2
      <4>3. CASE i \in 1..(k - 1)
        <5>1. PICK j \in DOMAIN before : before[j] = list[i]
          BY <2>1, <4>1, <4>3
        <5>. QED BY <3>2, <5>1
      <4>. QED BY <3>3, <4>2, <4>3
    <3>. QED BY <3>2, <3>5, <3>6 DEF after
  <2>. QED BY <2>3, <2>4
<1>. HIDE DEF Keeps
<1>5. \A k \in 0..n : Keeps(k)
  <2>. DEFINE Failing == {k \in 0..n : ~Keeps(k)}
  <2>. SUFFICES ASSUME Failing # {} PROVE FALSE
    OBVIOUS
  <2>1. Failing \subseteq Nat
    BY <1>1
  <2>2. PICK m \in Failing : \A k \in Failing : m <= k
    <3>. HIDE DEF Failing
    <3>. QED BY <2>1, Least
  <2>3. m \in 1..n /\ m - 1 \in 0..n /\ Keeps(m - 1)
    BY <1>1, <1>3, <2>2
  <2>. QED BY <1>4, <2>2, <2>3
<1>6. Keeps(n)
  BY <1>1, <1>5
<1>. QED BY <1>1, <1>2, <1>6, SequenceIsList DEF Keeps

\* Lists put together hold what each held.
LEMMA FlattenKeeps ==
  ASSUME NEW lists, IsList(lists), \A i \in DOMAIN lists : IsList(lists[i])
  PROVE  /\ IsList(FlattenSeq(lists))
         /\ \A j \in DOMAIN FlattenSeq(lists) :
               \E i \in DOMAIN lists : \E k \in DOMAIN lists[i] :
                   FlattenSeq(lists)[j] = lists[i][k]
<1>. DEFINE n == Len(lists)
<1>1. n \in Nat /\ DOMAIN lists = 1..n
  BY Lists
<1>2. CASE n = 0
  <2>1. lists = <<>>
    BY <1>2, Lists
  <2>2. FlattenSeq(lists) = <<>>
    BY <1>2, <2>1 DEF FlattenSeq
  <2>3. IsList(<<>>) /\ DOMAIN <<>> = {}
    BY DEF IsList
  <2>. QED BY <2>2, <2>3
<1>3. CASE n # 0
  <2>. DEFINE next(i, before) == IF i = 1 THEN lists[i] ELSE before \o lists[i]
              Unfolds(f, m) == f = [i \in 1..m |-> IF i = 1 THEN lists[i] ELSE f[i - 1] \o lists[i]]
              Failing == {m \in Nat \ {0} : ~\E f : Unfolds(f, m)}
  <2>1. Failing = {}
    <3>. SUFFICES ASSUME Failing # {} PROVE FALSE
      OBVIOUS
    <3>1. PICK m \in Failing : \A k \in Failing : m <= k
      <4>. HIDE DEF Unfolds
      <4>. QED BY Least
    <3>2. m # 1
      <4>1. Unfolds([i \in 1..1 |-> lists[i]], 1)
        OBVIOUS
      <4>. QED BY <4>1
    <3>3. PICK f : Unfolds(f, m - 1)
      <4>. HIDE DEF Unfolds
      <4>. QED BY <3>1, <3>2
    <3>. DEFINE last == f[m - 1] \o lists[m]
                g == [i \in 1..m |-> IF i = m THEN last ELSE f[i]]
    <3>4. \A i \in 1..m : g[i] = IF i = 1 THEN lists[i] ELSE g[i - 1] \o lists[i]
      <4>1. \A i \in 1..(m - 1) : f[i] = IF i = 1 THEN lists[i] ELSE f[i - 1] \o lists[i]
        BY <3>3
      <4>2. \A i \in 1..(m - 1) : g[i] = f[i]
        <5>. HIDE DEF last
        <5>. QED OBVIOUS
      <4>3. g[m] = last /\ last = g[m - 1] \o lists[m]
        <5>1. g[m] = last
          <6>. HIDE DEF last
          <6>. QED OBVIOUS
        <5>2. g[m - 1] = f[m - 1]
          BY <3>2, <4>2
        <5>. HIDE DEF g
        <5>. QED BY <5>1, <5>2
      <4>4. \A i \in 1..m : i = m \/ i \in 1..(m - 1)
        OBVIOUS
      <4>5. \A i \in 2..(m - 1) : i - 1 \in 1..(m - 1)
        OBVIOUS
      <4>. HIDE DEF g, last
      <4>6. \A i \in 1..(m - 1) : g[i] = IF i = 1 THEN lists[i] ELSE g[i - 1] \o lists[i]
        BY <4>1, <4>2
      <4>. QED BY <3>2, <4>3, <4>4, <4>6
    <3>5. Unfolds(g, m)
      <4>1. g = [i \in 1..m |-> g[i]]
        <5>. HIDE DEF last
        <5>. QED OBVIOUS
      <4>. HIDE DEF g
      <4>. QED BY <3>4, <4>1
    <3>. QED BY <3>1, <3>5
  <2>2. \E f : Unfolds(f, n)
    <3>. HIDE DEF Unfolds
    <3>. QED BY <1>1, <1>3, <2>1
  <2>. DEFINE joined == CHOOSE f : Unfolds(f, n)
  <2>3. FlattenSeq(lists) = joined[n]
    BY <1>1, <1>3 DEF FlattenSeq
  <2>4. Unfolds(joined, n)
    <3>. HIDE DEF Unfolds
    <3>. QED BY <2>2
  <2>5. \A i \in 1..n : joined[i] = IF i = 1 THEN lists[i] ELSE joined[i - 1] \o lists[i]
    <3>. HIDE DEF joined
    <3>. QED BY <2>4
  <2>. HIDE DEF joined
  <2>. DEFINE Gathers(k) ==
         /\ IsList(joined[k])
         /\ \A j \in DOMAIN joined[k] : \E i \in 1..k : \E p \in DOMAIN lists[i] : joined[k][j] = lists[i][p]
  <2>6. Gathers(1)
    <3>1. joined[1] = lists[1]
      BY <1>1, <1>3, <2>5
    <3>. QED BY <1>1, <1>3, <3>1
  <2>7. ASSUME NEW k \in 2..n, Gathers(k - 1)
        PROVE  Gathers(k)
    <3>. DEFINE before == joined[k - 1]
                more == lists[k]
    <3>1. joined[k] = before \o more /\ k \in Nat
      <4>1. k \in 1..n /\ k # 1 /\ k \in Nat
        BY <1>1, <2>7
      <4>2. joined[k] = joined[k - 1] \o lists[k]
        <5>. HIDE DEF n
        <5>. QED BY <2>5, <4>1
      <4>. QED BY <4>1, <4>2
    <3>2. IsList(before) /\ IsList(more)
      BY <1>1, <2>7
    <3>3. PICK S, T : before \in Seq(S) /\ more \in Seq(T)
      BY <3>2 DEF IsList
    <3>4. before \in Seq(S \cup T) /\ more \in Seq(S \cup T)
      <4>. HIDE DEF before, more
      <4>. QED BY <3>3
    <3>5. /\ before \o more \in Seq(S \cup T)
          /\ \A j \in DOMAIN (before \o more) :
                \/ j \in DOMAIN before /\ (before \o more)[j] = before[j]
                \/ j - Len(before) \in DOMAIN more /\ (before \o more)[j] = more[j - Len(before)]
      <4>. HIDE DEF before, more
      <4>. QED BY <3>4
    <3>6. \A j \in DOMAIN before : \E i \in 1..k : \E p \in DOMAIN lists[i] : before[j] = lists[i][p]
      <4>1. \A i \in 1..(k - 1) : i \in 1..k
        BY <3>1
      <4>. QED BY <2>7, <4>1
    <3>7. k \in 1..k
      BY <2>7
    <3>8. \A j \in DOMAIN joined[k] : \E i \in 1..k : \E p \in DOMAIN lists[i] : joined[k][j] = lists[i][p]
      <4>. SUFFICES ASSUME NEW j \in DOMAIN joined[k]
                    PROVE  \E i \in 1..k : \E p \in DOMAIN lists[i] : joined[k][j] = lists[i][p]
        OBVIOUS
      <4>1. CASE j \in DOMAIN before /\ joined[k][j] = before[j]
        BY <3>6, <4>1
      <4>2. CASE j - Len(before) \in DOMAIN more /\ joined[k][j] = more[j - Len(before)]
        BY <3>7, <4>2
      <4>. QED BY <3>1, <3>5, <4>1, <4>2
    <3>. QED BY <3>1, <3>5, <3>8, SequenceIsList
  <2>. HIDE DEF Gathers
  <2>8. \A k \in 1..n : Gathers(k)
    <3>. DEFINE Wrong == {k \in 1..n : ~Gathers(k)}
    <3>. SUFFICES ASSUME Wrong # {} PROVE FALSE
      OBVIOUS
    <3>1. Wrong \subseteq Nat
      BY <1>1
    <3>2. PICK m \in Wrong : \A k \in Wrong : m <= k
      <4>. HIDE DEF Wrong
      <4>. QED BY <3>1, Least
    <3>3. m \in 2..n /\ m - 1 \in 1..n /\ Gathers(m - 1)
      BY <1>1, <2>6, <3>2
    <3>. QED BY <2>7, <3>2, <3>3
  <2>9. Gathers(n)
    BY <1>1, <1>3, <2>8
  <2>. QED BY <1>1, <2>3, <2>9 DEF Gathers
<1>. QED BY <1>2, <1>3

---------------------------------------------------------------------------
(* The windows that are read from a body. *)

\* A list of windows whose resets are of a set.
Resetting(windows, R) ==
    /\ IsList(windows)
    /\ \A i \in DOMAIN windows : "resets" \in DOMAIN windows[i] /\ windows[i].resets \in R

LEMMA NoWindows == ASSUME NEW R PROVE Resetting(<<>>, R)
BY DEF Resetting, IsList

LEMMA WindowsJoined ==
  ASSUME NEW R, NEW first, NEW second, Resetting(first, R), Resetting(second, R)
  PROVE  Resetting(first \o second, R)
<1>. DEFINE all == {first[i] : i \in DOMAIN first} \cup {second[i] : i \in DOMAIN second}
<1>1. first \in Seq(all) /\ second \in Seq(all)
  <2>1. first \in Seq({first[i] : i \in DOMAIN first})
        /\ second \in Seq({second[i] : i \in DOMAIN second})
    BY DEF Resetting, IsList
  <2>. QED BY <2>1
<1>2. \A w \in all : "resets" \in DOMAIN w /\ w.resets \in R
  BY DEF Resetting
<1>. HIDE DEF all
<1>3. first \o second \in Seq(all)
  BY <1>1
<1>4. \A i \in DOMAIN (first \o second) : (first \o second)[i] \in all
  BY <1>3
<1>5. IsList(first \o second)
  BY <1>3, SequenceIsList
<1>. QED BY <1>2, <1>4, <1>5 DEF Resetting

\* What is there of a list of windows is one.
LEMMA WindowsPresent ==
  ASSUME NEW R, NEW list, IsList(list),
         \A i \in DOMAIN list : list[i] # Nil =>
             "resets" \in DOMAIN list[i] /\ list[i].resets \in R
  PROVE  Resetting(Present(list), R)
BY PresentKeeps DEF Resetting

LEMMA OneOrTwoPresent ==
  ASSUME NEW R, NEW a, NEW b,
         a # Nil => "resets" \in DOMAIN a /\ a.resets \in R,
         b # Nil => "resets" \in DOMAIN b /\ b.resets \in R
  PROVE  Resetting(Present(<<a, b>>), R)
<1>1. <<a, b>> \in Seq({a, b})
  OBVIOUS
<1>2. DOMAIN <<a, b>> = {1, 2} /\ <<a, b>>[1] = a /\ <<a, b>>[2] = b
  OBVIOUS
<1>. DEFINE list == <<a, b>>
<1>. HIDE DEF list
<1>3. IsList(list) /\ \A i \in DOMAIN list : list[i] # Nil =>
                         "resets" \in DOMAIN list[i] /\ list[i].resets \in R
  BY <1>1, <1>2, SequenceIsList DEF list
<1>4. Resetting(Present(list), R)
  BY <1>3, WindowsPresent
<1>. QED BY <1>4 DEF list

LEMMA WindowsFlattened ==
  ASSUME NEW R, NEW lists, IsList(lists), \A i \in DOMAIN lists : Resetting(lists[i], R)
  PROVE  Resetting(FlattenSeq(lists), R)
<1>1. \A i \in DOMAIN lists : IsList(lists[i])
  BY DEF Resetting
<1>2. \A i \in DOMAIN lists : \A k \in DOMAIN lists[i] :
        "resets" \in DOMAIN lists[i][k] /\ lists[i][k].resets \in R
  BY DEF Resetting
<1>. QED BY <1>1, <1>2, FlattenKeeps DEF Resetting

LEMMA MetaSteady ==
  ASSUME NEW R, Nil \in R, NEW key,
         \A w \in {key.rolling, key.weekly} : w = Nil \/ Read(w.resets) \in R
  PROVE  Resetting(MetaWindows(key), R)
<1>1. ASSUME NEW w, w = Nil \/ Read(w.resets) \in R, NEW name, NEW length,
             MetaWindow(w, name, length) # Nil
      PROVE  "resets" \in DOMAIN MetaWindow(w, name, length) /\ MetaWindow(w, name, length).resets \in R
  BY <1>1 DEF MetaWindow, Window, Read
<1>. DEFINE rolling(length) == MetaWindow(key.rolling, "window", length)
            weekly == MetaWindow(key.weekly, "weekly", Week)
<1>2. \A length : Resetting(Present(<<rolling(length), weekly>>), R)
  <2>1. weekly # Nil => "resets" \in DOMAIN weekly /\ weekly.resets \in R
    BY <1>1
  <2>2. \A length : rolling(length) # Nil =>
           "resets" \in DOMAIN rolling(length) /\ rolling(length).resets \in R
    BY <1>1
  <2>. HIDE DEF rolling, weekly
  <2>. QED BY <2>1, <2>2, OneOrTwoPresent
<1>. QED BY <1>2 DEF MetaWindows

LEMMA DevinSteady ==
  ASSUME NEW R, Nil \in R, NEW status,
         \A w \in {status.daily, status.weekly} : w.resets = 0 \/ Read(w.resets) \in R
  PROVE  Resetting(DevinWindows(status), R)
<1>1. ASSUME NEW w, w.resets = 0 \/ Read(w.resets) \in R, NEW name, NEW length,
             DevinWindow(w, name, length) # Nil
      PROVE  "resets" \in DOMAIN DevinWindow(w, name, length) /\ DevinWindow(w, name, length).resets \in R
  BY <1>1 DEF DevinWindow, Window, Read
<1>. DEFINE daily == DevinWindow(status.daily, "daily", Day)
            weekly == DevinWindow(status.weekly, "weekly", Week)
<1>2. Resetting(Present(<<daily, weekly>>), R)
  <2>1. /\ daily # Nil => "resets" \in DOMAIN daily /\ daily.resets \in R
        /\ weekly # Nil => "resets" \in DOMAIN weekly /\ weekly.resets \in R
    BY <1>1
  <2>. HIDE DEF daily, weekly
  <2>. QED BY <2>1, OneOrTwoPresent
<1>. QED BY <1>2 DEF DevinWindows

LEMMA EachIsList ==
  ASSUME NEW list, IsList(list), NEW mapped,
         DOMAIN mapped = DOMAIN list, mapped = [i \in DOMAIN list |-> mapped[i]]
  PROVE  IsList(mapped)
<1>1. Len(list) \in Nat /\ DOMAIN list = 1..Len(list)
  BY Lists
<1>2. mapped \in Seq({mapped[i] : i \in DOMAIN list})
  BY <1>1
<1>. QED BY <1>2, SequenceIsList

LEMMA BillsSteady ==
  ASSUME NEW R, Nil \in R, NEW c,
         c # Nil => Read(c.closes) \in R /\ Read(c.end) \in R /\ IsList(c.products)
  PROVE  Resetting(BillingWindows(c), R)
<1>1. ASSUME c # Nil, NEW key, NEW used, NEW limit
      PROVE  Resetting(<<SpendWindow(c, key, used, limit)>>, R)
  <2>. DEFINE w == SpendWindow(c, key, used, limit)
  <2>1. "resets" \in DOMAIN w /\ w.resets \in R
    BY <1>1 DEF SpendWindow, Window
  <2>2. <<w>> \in Seq({w}) /\ DOMAIN <<w>> = {1} /\ <<w>>[1] = w
    OBVIOUS
  <2>. HIDE DEF w
  <2>3. Resetting(<<w>>, R)
    BY <2>1, <2>2, SequenceIsList DEF Resetting
  <2>. QED BY <2>3 DEF w
<1>2. ASSUME c # Nil, NEW start, NEW end \in R
      PROVE  Resetting(CreditWindows(c, start, end), R)
  <2>. DEFINE window(key, used) ==
                [Window(key) EXCEPT !.used = Percent(used), !.seconds = Span(start, end),
                                    !.resets = end]
              first == window(<<"credits">>, c.credit)
              product(i) == window(<<"product">> \o Or(c.products[i].name, <<"product", i>>), c.products[i].used)
              products == [i \in DOMAIN c.products |-> product(i)]
  <2>1. CreditWindows(c, start, end) = <<first>> \o products
    BY DEF CreditWindows, Each
  <2>2. \A key, used : "resets" \in DOMAIN window(key, used) /\ window(key, used).resets \in R
    BY <1>2 DEF Window
  <2>. HIDE DEF window
  <2>3. Resetting(products, R)
    <3>1. IsList(products)
      <4>. HIDE DEF product
      <4>. QED BY <1>2, EachIsList
    <3>. QED BY <2>2, <3>1 DEF Resetting
  <2>4. Resetting(<<first>>, R)
    <3>1. "resets" \in DOMAIN first /\ first.resets \in R
      BY <2>2
    <3>. HIDE DEF first
    <3>2. <<first>> \in Seq({first}) /\ DOMAIN <<first>> = {1} /\ <<first>>[1] = first
      OBVIOUS
    <3>. QED BY <3>1, <3>2, SequenceIsList DEF Resetting
  <2>. HIDE DEF first, products
  <2>. QED BY <2>1, <2>3, <2>4, WindowsJoined
<1>3. CASE c = Nil
  BY <1>3, NoWindows DEF BillingWindows
<1>4. CASE c # Nil
  <2>. DEFINE limit == Read(c.limit)
              used == Read(c.used)
              cap == Read(c.cap)
              weekly == Read(c.credit) # Nil \/ c.period = "weekly" \/ c.products # <<>>
              monthly == \/ limit # Nil \/ used # Nil
                         \/ ~weekly /\ (cap # Nil \/ Read(c.end) # Nil)
              included == IF Nil \notin {used, limit} /\ limit > 0 /\ used > limit THEN limit ELSE used
              over == IF Nil \in {used, limit} THEN Nil
                      ELSE IF used > limit THEN used - limit ELSE 0
              credits == IF weekly
                         THEN CreditWindows(c, Or(Read(c.opens), Read(c.start)),
                                            Or(Read(c.closes), Read(c.end)))
                         ELSE <<>>
              spend == IF monthly THEN <<SpendWindow(c, "included-spend", included, limit)>>
                       ELSE <<>>
              demand == IF cap = Nil THEN <<>>
                        ELSE <<SpendWindow(c, "on-demand-spend", Or(Read(c.overused), over), cap)>>
  <2>1. BillingWindows(c) = IF ~weekly /\ ~monthly THEN <<>> ELSE credits \o spend \o demand
    BY <1>4 DEF BillingWindows
  <2>2. Resetting(credits, R)
    <3>1. Or(Read(c.closes), Read(c.end)) \in R
      BY <1>4 DEF Or
    <3>. QED BY <1>2, <1>4, <3>1, NoWindows
  <2>3. Resetting(spend, R) /\ Resetting(demand, R)
    BY <1>1, <1>4, NoWindows
  <2>. HIDE DEF credits, spend, demand, weekly, monthly
  <2>4. Resetting(credits \o spend, R)
    BY <2>2, <2>3, WindowsJoined
  <2>5. Resetting(credits \o spend \o demand, R)
    BY <2>3, <2>4, WindowsJoined
  <2>. QED BY <2>1, <2>5, NoWindows
<1>. QED BY <1>3, <1>4

LEMMA KimiSteady ==
  ASSUME NEW R, NEW now, NEW usage, IsList(usage.limits),
         \A i \in DOMAIN usage.limits :
             Or(Read(usage.limits[i].at), After(usage.limits[i].after, now)) \in R,
         usage.summary # Nil =>
             Or(Read(usage.summary.at), After(usage.summary.after, now)) \in R
  PROVE  Resetting(KimiWindows(usage, now), R)
<1>1. ASSUME NEW row, Or(Read(row.at), After(row.after, now)) \in R,
             NEW key, NEW duration, NEW label,
             KimiRow(row, key, duration, label, now) # Nil
      PROVE  /\ "resets" \in DOMAIN KimiRow(row, key, duration, label, now)
             /\ KimiRow(row, key, duration, label, now).resets \in R
  <2>. DEFINE resets == Or(Read(row.at), After(row.after, now))
  <2>1. \E used, count, limit, seconds :
           KimiRow(row, key, duration, label, now) =
              [Window(key) EXCEPT !.used = used, !.count = count, !.limit = limit,
                                  !.resets = resets, !.seconds = seconds]
    BY <1>1 DEF KimiRow
  <2>. HIDE DEF resets
  <2>2. \A used, count, limit, seconds :
           LET w == [Window(key) EXCEPT !.used = used, !.count = count, !.limit = limit,
                                        !.resets = resets, !.seconds = seconds]
           IN  "resets" \in DOMAIN w /\ w.resets = resets
    BY DEF Window
  <2>. QED BY <1>1, <2>1, <2>2 DEF resets
<1>. DEFINE row(i) == KimiRow(usage.limits[i], <<"limit", i - 1>>, usage.limits[i].duration, Nil, now)
            rows == [i \in DOMAIN usage.limits |-> row(i)]
            summary == IF usage.summary = Nil THEN Nil
                       ELSE KimiRow(usage.summary, <<"summary">>, Nil, "week", now)
            list == rows \o <<summary>>
<1>2. KimiWindows(usage, now) = Present(list)
  BY DEF KimiWindows, Each
<1>3. summary # Nil => "resets" \in DOMAIN summary /\ summary.resets \in R
  BY <1>1
<1>4. \A i \in DOMAIN usage.limits : row(i) # Nil =>
          "resets" \in DOMAIN row(i) /\ row(i).resets \in R
  BY <1>1
<1>. HIDE DEF row, summary
<1>5. IsList(rows) /\ DOMAIN rows = DOMAIN usage.limits
  BY EachIsList
<1>6. Resetting(Present(list), R)
  <2>. DEFINE all == {rows[i] : i \in DOMAIN rows} \cup {summary}
  <2>1. \A x \in all : x # Nil => "resets" \in DOMAIN x /\ x.resets \in R
    BY <1>3, <1>4
  <2>2. rows \in Seq(all) /\ <<summary>> \in Seq(all)
    <3>1. rows \in Seq({rows[i] : i \in DOMAIN rows})
      BY <1>5 DEF IsList
    <3>. HIDE DEF rows
    <3>. QED BY <3>1
  <2>. HIDE DEF all, rows
  <2>3. list \in Seq(all)
    BY <2>2
  <2>. HIDE DEF list
  <2>4. \A i \in DOMAIN list : list[i] \in all
    BY <2>3
  <2>. QED BY <2>1, <2>3, <2>4, SequenceIsList, WindowsPresent
<1>. QED BY <1>2, <1>6

LEMMA AntigravitySteady ==
  ASSUME NEW R, NEW payload, IsList(payload.groups),
         \A g \in DOMAIN payload.groups :
             /\ IsList(payload.groups[g])
             /\ \A i \in DOMAIN payload.groups[g] : Read(payload.groups[g][i].resets) \in R
  PROVE  Resetting(AntigravityWindows(payload), R)
<1>. DEFINE bucket(g, b, i) ==
              IF Read(b.remaining) = Nil THEN Nil
              ELSE [Window(Or(Read(b.id), <<g>> \o (IF Read(b.window) = Nil THEN <<"bucket", i>>
                                                     ELSE <<b.window>>))) EXCEPT
                       !.used = 100 - Clamped(b.remaining), !.resets = Read(b.resets),
                       !.seconds = IF b.window \in {"5h", "five-hour"} THEN FiveHours
                                   ELSE IF b.window \in {"week", "weekly"} THEN Week ELSE Nil]
            group(g) == payload.groups[g]
            reads(g) == [i \in DOMAIN group(g) |-> bucket(g, group(g)[i], i)]
            lists == [g \in DOMAIN payload.groups |-> Present(reads(g))]
<1>1. AntigravityWindows(payload) = FlattenSeq(lists)
  BY DEF AntigravityWindows, Each
<1>2. \A g, b, i : Read(b.resets) \in R /\ bucket(g, b, i) # Nil =>
          "resets" \in DOMAIN bucket(g, b, i) /\ bucket(g, b, i).resets \in R
  BY DEF Window
<1>. HIDE DEF bucket
<1>3. ASSUME NEW g \in DOMAIN payload.groups
      PROVE  Resetting(Present(reads(g)), R)
  <2>1. IsList(reads(g)) /\ DOMAIN reads(g) = DOMAIN group(g)
    BY EachIsList
  <2>2. \A i \in DOMAIN reads(g) : reads(g)[i] # Nil =>
           "resets" \in DOMAIN reads(g)[i] /\ reads(g)[i].resets \in R
    BY <1>2
  <2>. HIDE DEF reads
  <2>. QED BY <2>1, <2>2, WindowsPresent
<1>. HIDE DEF reads
<1>4. IsList(lists)
  BY EachIsList
<1>5. Resetting(FlattenSeq(lists), R)
  <2>1. \A g \in DOMAIN lists : Resetting(lists[g], R)
    BY <1>3
  <2>. HIDE DEF lists
  <2>. QED BY <1>4, <2>1, WindowsFlattened
<1>. QED BY <1>1, <1>5

\* A limit's places are of windows it states.
LEMMA PlacesAreStated ==
  ASSUME NEW limit, NEW place \in {Classify(limit).short, Classify(limit).long}, place # Nil
  PROVE  place \in {1, 2} /\ limit.windows[place] # Nil
<1>. DEFINE there == {i \in {1, 2} : limit.windows[i] # Nil}
            first(of) == IF of = {} THEN Nil ELSE IF 1 \in of THEN 1 ELSE 2
            at(i) == IF i \in there THEN i ELSE Nil
            short == first({i \in there : limit.windows[i].length = FiveHours})
            long == first({i \in there : Weekly(limit.windows[i].length)})
            chosen == IF short = Nil /\ long # 1 THEN at(1) ELSE short
<1>1. /\ Classify(limit).short = chosen
      /\ Classify(limit).long = IF long = Nil /\ chosen # 2 THEN at(2) ELSE long
  BY DEF Classify
<1>2. \A of \in SUBSET there : first(of) # Nil => first(of) \in there
  OBVIOUS
<1>3. (short # Nil => short \in there) /\ (long # Nil => long \in there)
  <2>. HIDE DEF first
  <2>. QED BY <1>2
<1>4. \A i : at(i) # Nil => at(i) \in there
  OBVIOUS
<1>5. place \in there
  <2>. HIDE DEF there, at, short, long
  <2>. QED BY <1>1, <1>3, <1>4
<1>. QED BY <1>5

\* The windows of one limit.
LEMMA LimitSteady ==
  ASSUME NEW R, NEW now, NEW limit, NEW prefix, NEW place,
         limit # Nil =>
             \A i \in {1, 2} : limit.windows[i] # Nil =>
                 Or(Read(limit.windows[i].at), After(limit.windows[i].after, now)) \in R
  PROVE  Resetting(CodexPair(limit, prefix, place, now), R)
<1>1. CASE limit = Nil
  BY <1>1, NoWindows DEF CodexPair
<1>2. CASE limit # Nil
  <2>. DEFINE at == Classify(limit)
              reached == limit.reached \/ ~limit.allowed
              reads(i, name) == CodexWindow(prefix \o <<name>> \o place, limit.windows[i], reached, now)
              short == IF at.short = Nil THEN Nil ELSE reads(at.short, "five-hour")
              long == IF at.long = Nil THEN Nil
                      ELSE reads(at.long, IF Monthly(limit.windows[at.long].length)
                                         THEN "monthly" ELSE "weekly")
  <2>1. CodexPair(limit, prefix, place, now) = Present(<<short, long>>)
    BY <1>2 DEF CodexPair
  <2>2. ASSUME NEW key, NEW w, NEW spent, Or(Read(w.at), After(w.after, now)) \in R
        PROVE  /\ "resets" \in DOMAIN CodexWindow(key, w, spent, now)
               /\ CodexWindow(key, w, spent, now).resets \in R
    <3>. DEFINE resets == Or(Read(w.at), After(w.after, now))
    <3>1. \E used, seconds :
             CodexWindow(key, w, spent, now) =
                [Window(key) EXCEPT !.resets = resets, !.used = used, !.seconds = seconds]
      BY DEF CodexWindow
    <3>. HIDE DEF resets
    <3>2. \A used, seconds :
             LET x == [Window(key) EXCEPT !.resets = resets, !.used = used, !.seconds = seconds]
             IN  "resets" \in DOMAIN x /\ x.resets = resets
      BY DEF Window
    <3>. QED BY <2>2, <3>1, <3>2 DEF resets
  <2>3. \A i \in {at.short, at.long} : i # Nil => i \in {1, 2} /\ limit.windows[i] # Nil
    BY PlacesAreStated
  <2>4. \A i \in {at.short, at.long} : i # Nil =>
           \A name : "resets" \in DOMAIN reads(i, name) /\ reads(i, name).resets \in R
    <3>. HIDE DEF at, reached
    <3>. QED BY <1>2, <2>2, <2>3
  <2>. HIDE DEF reads, at
  <2>5. /\ short # Nil => "resets" \in DOMAIN short /\ short.resets \in R
        /\ long # Nil => "resets" \in DOMAIN long /\ long.resets \in R
    BY <2>4
  <2>. HIDE DEF short, long
  <2>. QED BY <2>1, <2>5, OneOrTwoPresent
<1>. QED BY <1>1, <1>2

LEMMA CodexSteady ==
  ASSUME NEW R, NEW now, NEW usage, IsList(usage.more),
         \A limit \in {usage.main, usage.review} \cup {usage.more[i].limit : i \in DOMAIN usage.more} :
             limit # Nil =>
                 \A i \in {1, 2} : limit.windows[i] # Nil =>
                     Or(Read(limit.windows[i].at), After(limit.windows[i].after, now)) \in R
  PROVE  Resetting(CodexWindows(usage, now), R)
<1>. DEFINE main == CodexPair(usage.main, <<>>, <<>>, now)
            review == CodexPair(usage.review, <<"code", "review">>, <<>>, now)
            pair(i) == CodexPair(usage.more[i].limit, Or(usage.more[i].name, <<"additional", i>>),
                                 <<i - 1>>, now)
            more == [i \in DOMAIN usage.more |-> pair(i)]
<1>1. CodexWindows(usage, now) = main \o review \o FlattenSeq(more)
  BY DEF CodexWindows, Each
<1>2. Resetting(main, R) /\ Resetting(review, R)
  BY LimitSteady
<1>3. \A i \in DOMAIN usage.more : Resetting(pair(i), R)
  BY LimitSteady
<1>. HIDE DEF main, review, pair
<1>4. IsList(more)
  BY EachIsList
<1>5. \A i \in DOMAIN more : Resetting(more[i], R)
  BY <1>3
<1>. HIDE DEF more
<1>6. Resetting(FlattenSeq(more), R)
  BY <1>4, <1>5, WindowsFlattened
<1>. QED BY <1>1, <1>2, <1>6, WindowsJoined

\* The Fable limit is one of those listed.
LEMMA FableIsListed ==
  ASSUME NEW usage, IsList(usage.limits), FableLimit(usage) # Nil
  PROVE  \E i \in DOMAIN usage.limits : FableLimit(usage) = usage.limits[i]
<1>. DEFINE limits == usage.limits
            stated == [i \in DOMAIN limits |->
                          IF limits[i].fable /\ Read(limits[i].percent) # Nil THEN limits[i] ELSE Nil]
            candidates == Present(stated)
            inForce == [i \in DOMAIN candidates |->
                           IF candidates[i].active THEN candidates[i] ELSE Nil]
            active == Present(inForce)
            list == active \o candidates
            all == {limits[i] : i \in DOMAIN limits}
<1>1. FableLimit(usage) = FirstOf(list)
  BY DEF FableLimit, Each
<1>2. IsList(stated) /\ \A i \in DOMAIN stated : stated[i] # Nil => stated[i] \in all
  BY EachIsList
<1>. HIDE DEF stated, limits, all
<1>3. IsList(candidates) /\ \A i \in DOMAIN candidates : candidates[i] \in all
  BY <1>2, PresentKeeps
<1>. HIDE DEF candidates
<1>4. IsList(inForce) /\ \A i \in DOMAIN inForce : inForce[i] # Nil => inForce[i] \in all
  BY <1>3, EachIsList
<1>. HIDE DEF inForce
<1>5. IsList(active) /\ \A i \in DOMAIN active : active[i] \in all
  BY <1>4, PresentKeeps
<1>. HIDE DEF active
<1>6. active \in Seq(all) /\ candidates \in Seq(all)
  <2>1. /\ active \in Seq({active[i] : i \in DOMAIN active})
        /\ candidates \in Seq({candidates[i] : i \in DOMAIN candidates})
    BY <1>3, <1>5 DEF IsList
  <2>. QED BY <1>3, <1>5, <2>1
<1>7. list \in Seq(all)
  BY <1>6
<1>. HIDE DEF list
<1>8. \A i \in DOMAIN list : list[i] \in all
  BY <1>7
<1>9. IsList(Present(list)) /\ \A j \in DOMAIN Present(list) : Present(list)[j] \in all
  BY <1>7, <1>8, SequenceIsList, PresentKeeps
<1>10. Present(list) # <<>> => Present(list)[1] \in all
  <2>. DEFINE there == Present(list)
  <2>1. Len(there) \in Nat /\ DOMAIN there = 1..Len(there) /\ there = [i \in 1..Len(there) |-> there[i]]
    BY <1>9, Lists
  <2>. HIDE DEF there
  <2>2. there # <<>> => 1 \in DOMAIN there
    BY <2>1
  <2>. QED BY <1>9, <2>2 DEF there
<1>11. FirstOf(list) = Nil \/ FirstOf(list) \in all
  BY <1>10 DEF FirstOf
<1>. QED BY <1>1, <1>11 DEF all, limits

LEMMA ClaudeSteady ==
  ASSUME NEW R, Nil \in R, NEW usage, IsList(usage.limits),
         \A k \in DOMAIN usage.named : Read(usage.named[k].resets) \in R,
         \A i \in DOMAIN usage.limits : Read(usage.limits[i].resets) \in R
  PROVE  Resetting(ClaudeWindows(usage), R)
<1>. DEFINE fable == FableLimit(usage)
            named(key) ==
              IF key \notin DOMAIN usage.named \/ (key = "seven-day-fable" /\ fable # Nil) THEN Nil
              ELSE ClaudeWindow(key, usage.named[key].used, usage.named[key].resets)
            scoped == IF fable = Nil THEN Nil
                      ELSE ClaudeWindow("seven-day-fable", fable.percent, fable.resets)
            spent == Read(usage.extra.used)
            cap == Read(usage.extra.limit)
            extra == IF usage.extra = Nil THEN Nil
                     ELSE [Window(<<"extra-usage">>) EXCEPT
                              !.used = Or(Percent(usage.extra.percent), Share(spent, cap)),
                              !.count = spent, !.limit = cap]
            first == [i \in DOMAIN ClaudeKeys |-> named(ClaudeKeys[i])]
            list == first \o <<scoped, extra>>
<1>1. ClaudeWindows(usage) = Present(list)
  BY DEF ClaudeWindows, Each
<1>2. ASSUME NEW key, NEW used, NEW resets, Read(resets) \in R
      PROVE  /\ "resets" \in DOMAIN ClaudeWindow(key, used, resets)
             /\ ClaudeWindow(key, used, resets).resets \in R
  BY <1>2 DEF ClaudeWindow, Window
<1>3. \A key : named(key) # Nil => "resets" \in DOMAIN named(key) /\ named(key).resets \in R
  <2>. HIDE DEF fable
  <2>. QED BY <1>2
<1>4. scoped # Nil => "resets" \in DOMAIN scoped /\ scoped.resets \in R
  <2>1. fable # Nil => Read(fable.resets) \in R
    BY FableIsListed
  <2>. HIDE DEF fable
  <2>. QED BY <1>2, <2>1
<1>5. extra # Nil => "resets" \in DOMAIN extra /\ extra.resets \in R
  BY DEF Window
<1>. HIDE DEF named, scoped, extra
<1>6. Resetting(Present(list), R)
  <2>. DEFINE all == {named(ClaudeKeys[i]) : i \in DOMAIN ClaudeKeys} \cup {scoped, extra}
  <2>1. \A x \in all : x # Nil => "resets" \in DOMAIN x /\ x.resets \in R
    BY <1>3, <1>4, <1>5
  <2>2. DOMAIN ClaudeKeys = 1..7
    BY DEF ClaudeKeys
  <2>3. first \in Seq(all)
    BY <2>2
  <2>4. <<scoped, extra>> \in Seq(all)
    OBVIOUS
  <2>. HIDE DEF first, all
  <2>5. list \in Seq(all)
    BY <2>3, <2>4
  <2>. HIDE DEF list
  <2>6. \A i \in DOMAIN list : list[i] \in all
    BY <2>5
  <2>. QED BY <2>1, <2>5, <2>6, SequenceIsList, WindowsPresent
<1>. QED BY <1>1, <1>6

---------------------------------------------------------------------------
(* Answers. *)

\* What an answer may come to, and what tells each failure.
LEMMA AnswerCases ==
  ASSUME NEW reply
  PROVE  /\ Answer(reply).ok \in BOOLEAN
         /\ ~Answer(reply).ok =>
              Answer(reply).why \in {<<"unreachable", 0>>, <<"expired", 0>>, <<"unreadable", 0>>,
                                     <<"upstream", reply.status>>}
         /\ ~Answer(reply).ok /\ Answer(reply).why = <<"expired", 0>> =>
              reply.status = 401 /\ reply.said
         /\ Answer(reply).ok => Answer(reply) = Ok(reply.body) /\ reply.body # Nil
<1>. DEFINE A == Answer(reply)
<1>1. CASE reply.status = 0
  <2>1. A = Err("unreachable", 0)
    BY <1>1 DEF Answer
  <2>. QED BY <2>1 DEF Err
<1>2. CASE reply.status # 0 /\ reply.status = 401 /\ reply.said
  <2>1. A = Err("expired", 0)
    BY <1>2 DEF Answer
  <2>. QED BY <2>1, <1>2 DEF Err
<1>3. CASE reply.status # 0 /\ ~(reply.status = 401 /\ reply.said) /\ reply.status \notin 200..299
  <2>1. A = Err("upstream", reply.status)
    BY <1>3 DEF Answer
  <2>. QED BY <2>1 DEF Err
<1>4. CASE reply.status # 0 /\ reply.status \in 200..299 /\ reply.body = Nil
  <2>1. A = Err("unreadable", 0)
    BY <1>4 DEF Answer
  <2>. QED BY <2>1 DEF Err
<1>5. CASE reply.status # 0 /\ reply.status \in 200..299 /\ reply.body # Nil
  <2>1. A = Ok(reply.body)
    BY <1>5 DEF Answer
  <2>. QED BY <1>5, <2>1 DEF Ok
<1>. QED BY <1>1, <1>2, <1>3, <1>4, <1>5

\* No failure is an absent value.
LEMMA FailuresAreThere ==
  ASSUME NEW reply, reply.status \in Int, ~Answer(reply).ok
  PROVE  Answer(reply).why # Nil
<1>1. \A why \in Reasons, status \in Int : <<why, status>> # Nil
  BY ProviderReadsAssumption
<1>2. /\ "unreachable" \in Reasons /\ "expired" \in Reasons /\ "unreadable" \in Reasons
      /\ "upstream" \in Reasons
  BY DEF Reasons
<1>3. Answer(reply).why \in {<<"unreachable", 0>>, <<"expired", 0>>, <<"unreadable", 0>>,
                            <<"upstream", reply.status>>}
  BY AnswerCases
<1>. QED BY <1>1, <1>2, <1>3

---------------------------------------------------------------------------
(* The invariant. *)

LEMMA ReadsInit == RefreshInit => ReadsInv
<1>. SUFFICES ASSUME RefreshInit PROVE ReadsInv
  OBVIOUS
<1>1. reset \in DOMAIN Ends
  BY ProviderReadsAssumption DEF RefreshInit
<1>2. AnswersInv
  BY DEF RefreshInit, AnswersInv
<1>3. StoredInv
  BY DEF RefreshInit, StoredInv
<1>. QED BY <1>1, <1>2, <1>3 DEF RefreshInit, ReadsInv

\* What has been heard of a call.
LEMMA HeardTells ==
  ASSUME ReadsInv, answers # Nil, NEW c \in DOMAIN answers
  PROVE  /\ answers[c].status \in Int
         /\ Said(c).ok =>
              \E i \in DOMAIN Ends, late \in 0..MaxLate :
                  Tells(Said(c).value, credential.provider, c, Ends[i], late)
<1>1. answers[c].status \in Codes(c)
  BY DEF ReadsInv, AnswersInv
<1>2. answers[c].status \in Int
  <2>1. Statuses \subseteq Int
    BY ProviderReadsAssumption
  <2>2. CASE c = "file"
    BY <1>1, <2>2 DEF Codes
  <2>3. CASE c # "file"
    <3>1. Codes(c) = {0, 200} \cup (Statuses \cup {401})
      BY <2>3 DEF Codes
    <3>. DEFINE status == answers[c].status
    <3>2. status \in {0, 200} \cup (Statuses \cup {401})
      BY <1>1, <3>1
    <3>. HIDE DEF status
    <3>3. status \in Int
      BY <2>1, <3>2
    <3>. QED BY <3>3 DEF status
  <2>. QED BY <2>2, <2>3
<1>3. ASSUME Said(c).ok
      PROVE  \E i \in DOMAIN Ends, late \in 0..MaxLate :
                 Tells(Said(c).value, credential.provider, c, Ends[i], late)
  <2>1. answers[c].body # Nil /\ Said(c).value = answers[c].body
    BY <1>3, AnswerCases DEF Said, Ok
  <2>. QED BY <2>1 DEF ReadsInv, AnswersInv
<1>. QED BY <1>2, <1>3

\* What a refresh stores, when every call it waits for is answered.
LEMMA RecordStores ==
  ASSUME StoredInv, RecordOutcome
  PROVE  /\ Outcome.ok =>
              stored' = [windows |-> Replaced(stored.windows, Outcome.value.windows),
                         grants |-> Or(Outcome.value.grants, stored.grants),
                         plan |-> Or(Outcome.value.plan, stored.plan),
                         failure |-> Nil, expired |-> FALSE]
         /\ ~Outcome.ok =>
              stored' = [windows |-> stored.windows, grants |-> stored.grants,
                         plan |-> stored.plan, failure |-> Outcome.why,
                         expired |-> stored.expired \/ Outcome.why = <<"expired", 0>>]
<1>1. CASE Outcome.ok
  BY <1>1 DEF RecordOutcome
<1>2. CASE ~Outcome.ok
  <2>. DEFINE why == Outcome.why
              old == stored
              expired == stored.expired \/ why = <<"expired", 0>>
  <2>1. stored' = [old EXCEPT !.failure = why, !.expired = expired]
    BY <1>2 DEF RecordOutcome
  <2>2. old = [windows |-> old.windows, grants |-> old.grants, plan |-> old.plan,
               failure |-> old.failure, expired |-> old.expired]
    BY DEF StoredInv
  <2>3. [old EXCEPT !.failure = why, !.expired = expired] =
            [windows |-> old.windows, grants |-> old.grants, plan |-> old.plan,
             failure |-> why, expired |-> expired]
    <3>. DEFINE failed == [old EXCEPT !.failure = why]
    <3>1. failed = [windows |-> old.windows, grants |-> old.grants, plan |-> old.plan,
                    failure |-> why, expired |-> old.expired]
      <4>. HIDE DEF why, old, expired
      <4>. QED BY <2>2
    <3>2. [old EXCEPT !.failure = why, !.expired = expired] = [failed EXCEPT !.expired = expired]
      <4>. HIDE DEF why, old, expired
      <4>. QED BY Zenon
    <3>3. [failed EXCEPT !.expired = expired] =
              [windows |-> old.windows, grants |-> old.grants, plan |-> old.plan,
               failure |-> why, expired |-> expired]
      <4>. HIDE DEF failed, why, old, expired
      <4>. QED BY <3>1
    <3>. QED BY <3>2, <3>3
  <2>. QED BY <1>2, <2>1, <2>3
<1>. QED BY <1>1, <1>2

\* A provider's reset, as an answer states it, is one that a stored window may stand for.
LEMMA ResetsAreStood ==
  ASSUME NEW i \in DOMAIN Ends, NEW late \in 0..MaxLate
  PROVE  /\ Nil \in Resets /\ Ends[i] \in Resets /\ Ends[i] + late \in Resets
         /\ \A value \in {Nil, Bad, Ends[i]} : Read(value) \in Resets
         /\ \A at \in {Nil, Bad, Ends[i]}, after \in {Nil, Bad, Ends[i] - (Now - late)} :
                Or(Read(at), After(after, Now)) \in Resets
<1>1. Ends[i] \in Nat /\ MaxLate \in Nat /\ Now \in Nat /\ late \in Nat /\ late <= MaxLate
  BY ProviderReadsAssumption
<1>2. i \in Stands(Ends[i]) /\ i \in Stands(Ends[i] + late)
  BY <1>1 DEF Stands
<1>3. Nil \in Resets /\ Ends[i] \in Resets /\ Ends[i] + late \in Resets
  BY <1>1, <1>2 DEF Resets
<1>4. \A value \in {Nil, Bad, Ends[i]} : Read(value) \in Resets
  BY <1>3 DEF Read
<1>5. \A after \in {Nil, Bad, Ends[i] - (Now - late)} : After(after, Now) \in {Nil, Ends[i] + late}
  <2>1. Now + (Ends[i] - (Now - late)) = Ends[i] + late
    BY <1>1
  <2>. QED BY <2>1 DEF After, Read
<1>. QED BY <1>3, <1>4, <1>5 DEF Or

LEMMA EachEnds ==
  ASSUME NEW i \in DOMAIN Ends, NEW late \in 0..MaxLate, NEW w
  PROVE  /\ EndsAt(w, Ends[i]) => Read(w.resets) \in Resets
         /\ EndsIn(w, Ends[i], late) => Or(Read(w.at), After(w.after, Now)) \in Resets
BY ResetsAreStood DEF EndsAt, EndsIn

\* Every window of a success stands for a reset of the provider.
LEMMA OutcomeSteady ==
  ASSUME ReadsInv, Calls \subseteq DOMAIN answers, answers # Nil, Outcome.ok
  PROVE  Resetting(Outcome.value.windows, Resets)
<1>1. CASE credential.provider = "claude"
  <2>. DEFINE usage == Said("usage").value
  <2>1. Said("usage").ok /\ Outcome.value.windows = ClaudeWindows(usage)
    BY <1>1, AnswerCases DEF Outcome, ClaudeOutcome, Observation, Ok, Said
  <2>2. PICK i \in DOMAIN Ends, late \in 0..MaxLate : ClaudeTells(usage, Ends[i])
    <3>1. "usage" \in DOMAIN answers
      BY <1>1 DEF Calls
    <3>. QED BY <1>1, <2>1, <3>1, HeardTells DEF Tells
  <2>. HIDE DEF usage
  <2>3. /\ IsList(usage.limits)
        /\ \A k \in DOMAIN usage.named : EndsAt(usage.named[k], Ends[i])
        /\ \A k \in DOMAIN usage.limits : EndsAt(usage.limits[k], Ends[i])
    BY <2>2 DEF ClaudeTells, Every
  <2>4. Resetting(ClaudeWindows(usage), Resets)
    BY <2>3, ResetsAreStood, EachEnds, ClaudeSteady
  <2>. QED BY <2>1, <2>4
<1>2. CASE credential.provider = "codex"
  <2>. DEFINE usage == Said("usage").value
  <2>1. Said("usage").ok /\ Outcome.value.windows = CodexWindows(usage, Now)
    BY <1>2, AnswerCases DEF Outcome, CodexOutcome, Observation, Ok, Said
  <2>2. PICK i \in DOMAIN Ends, late \in 0..MaxLate : CodexTells(usage, Ends[i], late)
    <3>1. "usage" \in DOMAIN answers
      BY <1>2 DEF Calls
    <3>. QED BY <1>2, <2>1, <3>1, HeardTells DEF Tells
  <2>. HIDE DEF usage
  <2>. DEFINE limits == {usage.main, usage.review} \cup {usage.more[k].limit : k \in DOMAIN usage.more}
  <2>3. /\ IsList(usage.more)
        /\ \A limit \in limits :
              limit # Nil => \A k \in {1, 2} : limit.windows[k] # Nil =>
                  EndsIn(limit.windows[k], Ends[i], late)
    BY <2>2 DEF CodexTells, Every
  <2>4. \A limit \in limits :
           limit # Nil => \A k \in {1, 2} : limit.windows[k] # Nil =>
               Or(Read(limit.windows[k].at), After(limit.windows[k].after, Now)) \in Resets
    BY <2>3, EachEnds
  <2>5. Resetting(CodexWindows(usage, Now), Resets)
    BY <2>3, <2>4, CodexSteady
  <2>. QED BY <2>1, <2>5
<1>3. CASE credential.provider = "antigravity"
  <2>. DEFINE asked == {k \in DOMAIN Hosts : Heard({Hosts[k]})}
              host == Hosts[Max(asked)]
              payload == Unwrapped(Said(host).value)
  <2>1. Outcome.value.windows = HostWindows(host)
    BY <1>3 DEF Outcome, AntigravityOutcome, Observation, Ok
  <2>2. CASE ~Said(host).ok
    BY <2>1, <2>2, NoWindows DEF HostWindows
  <2>3. CASE Said(host).ok
    <3>1. host \in DOMAIN answers /\ host \in {"host1", "host2", "host3"}
      <4>1. PICK k \in asked : Said(Hosts[k]).ok
        BY <1>3 DEF Outcome, AntigravityOutcome, Err
      <4>2. \E m \in asked : \A j \in asked : m >= j
        <5>1. asked \in SUBSET {1, 2, 3} /\ asked # {}
          BY <4>1 DEF Hosts
        <5>. HIDE DEF asked
        <5>. QED BY <5>1
      <4>3. Max(asked) \in asked
        BY <4>2 DEF Max
      <4>. QED BY <4>3 DEF Heard, Hosts
    <3>2. PICK i \in DOMAIN Ends, late \in 0..MaxLate : AntigravityTells(Said(host).value, Ends[i])
      BY <1>3, <2>3, <3>1, HeardTells DEF Tells
    <3>3. /\ IsList(payload.groups)
          /\ \A g \in DOMAIN payload.groups :
                /\ IsList(payload.groups[g])
                /\ \A k \in DOMAIN payload.groups[g] : EndsAt(payload.groups[g][k], Ends[i])
      <4>. DEFINE said == Said(host).value
      <4>1. payload = said \/ (said.body # Nil /\ payload = said.body)
        BY DEF Unwrapped
      <4>. HIDE DEF said, payload
      <4>. QED BY <3>2, <4>1 DEF AntigravityTells, Every, said
    <3>. HIDE DEF payload
    <3>4. Resetting(AntigravityWindows(payload), Resets)
      BY <3>3, EachEnds, AntigravitySteady
    <3>. QED BY <2>1, <2>3, <3>4 DEF HostWindows, payload
  <2>. QED BY <2>2, <2>3
<1>4. CASE credential.provider = "kimi"
  <2>. DEFINE usage == Said("usage").value
  <2>1. Said("usage").ok /\ Outcome.value.windows = KimiWindows(usage, Now)
    BY <1>4, AnswerCases DEF Outcome, KimiOutcome, Observation, Ok, Said
  <2>2. PICK i \in DOMAIN Ends, late \in 0..MaxLate : KimiTells(usage, Ends[i], late)
    <3>1. "usage" \in DOMAIN answers
      BY <1>4 DEF Calls
    <3>. QED BY <1>4, <2>1, <3>1, HeardTells DEF Tells
  <2>. HIDE DEF usage
  <2>3. /\ IsList(usage.limits)
        /\ \A k \in DOMAIN usage.limits : EndsIn(usage.limits[k], Ends[i], late)
        /\ usage.summary # Nil => EndsIn(usage.summary, Ends[i], late)
    BY <2>2 DEF KimiTells, Every
  <2>4. Resetting(KimiWindows(usage, Now), Resets)
    BY <2>3, EachEnds, KimiSteady
  <2>. QED BY <2>1, <2>4
<1>5. CASE credential.provider = "devin"
  <2>. DEFINE status == Said("usage").value
  <2>1. Said("usage").ok /\ Outcome.value.windows = DevinWindows(status)
    BY <1>5, AnswerCases DEF Outcome, DevinOutcome, Observation, Ok, Err, Said
  <2>2. PICK i \in DOMAIN Ends, late \in 0..MaxLate : DevinTells(status, Ends[i])
    <3>1. "usage" \in DOMAIN answers
      BY <1>5 DEF Calls
    <3>. QED BY <1>5, <2>1, <3>1, HeardTells DEF Tells
  <2>. HIDE DEF status
  <2>3. \A w \in {status.daily, status.weekly} : w.resets = 0 \/ Read(w.resets) \in Resets
    BY <2>2, EachEnds DEF DevinTells
  <2>4. Resetting(DevinWindows(status), Resets)
    BY <2>3, ResetsAreStood, DevinSteady
  <2>. QED BY <2>1, <2>4
<1>6. CASE credential.provider = "meta"
  <2>. DEFINE file == Said("file")
              key == Said("key")
  <2>1. /\ file.ok /\ file.value.object /\ file.value.token /\ key.ok /\ key.value.object
        /\ Outcome.value.windows = MetaWindows(key.value)
    <3>1. Outcome = MetaOutcome
      BY <1>6 DEF Outcome
    <3>. QED BY <3>1 DEF MetaOutcome, Observation, Ok, Err
  <2>2. PICK i \in DOMAIN Ends, late \in 0..MaxLate : MetaTells(key.value, Ends[i])
    <3>1. "file" \in DOMAIN answers
      BY <1>6 DEF Calls
    <3>2. Heard({"file"}) /\ Token(file)
      BY <2>1, <3>1 DEF Heard, Token
    <3>3. "key" \in DOMAIN answers
      BY <1>6, <3>2 DEF Calls
    <3>. QED BY <1>6, <2>1, <3>3, HeardTells DEF Tells
  <2>3. \A w \in {key.value.rolling, key.value.weekly} : w = Nil \/ Read(w.resets) \in Resets
    BY <2>1, <2>2, EachEnds DEF MetaTells
  <2>. HIDE DEF key
  <2>4. Resetting(MetaWindows(key.value), Resets)
    BY <2>3, ResetsAreStood, MetaSteady
  <2>. QED BY <2>1, <2>4
<1>7. CASE credential.provider = "xai"
  <2>1. Outcome = XaiOutcome
    BY <1>7 DEF Outcome
  <2>2. Nil \in Resets
    BY DEF Resets
  <2>3. PaidOutcome.ok => PaidOutcome.value.windows = <<>>
    BY DEF PaidOutcome, Observation, Ok, Err
  <2>4. ASSUME ~IsPaid(credential), NEW call \in Billing
        PROVE  Resetting(Billed(call), Resets)
    <3>. DEFINE c == Said(call).value.config
    <3>1. CASE ~Said(call).ok
      BY <3>1, NoWindows DEF Billed
    <3>2. CASE Said(call).ok
      <4>1. call \in DOMAIN answers /\ call \in {"weekly", "monthly"}
        BY <1>7, <2>4 DEF Calls, Billing
      <4>2. PICK i \in DOMAIN Ends, late \in 0..MaxLate : XaiTells(Said(call).value, Ends[i])
        BY <1>7, <3>2, <4>1, HeardTells DEF Tells
      <4>3. c # Nil => Read(c.closes) \in Resets /\ Read(c.end) \in Resets /\ IsList(c.products)
        BY <4>2, ResetsAreStood DEF XaiTells
      <4>. HIDE DEF c
      <4>4. Resetting(BillingWindows(c), Resets)
        BY <2>2, <4>3, BillsSteady
      <4>. QED BY <3>2, <4>4 DEF Billed, c
    <3>. QED BY <3>1, <3>2
  <2>5. CASE IsPaid(credential)
    <3>1. Outcome = PaidOutcome
      BY <2>1, <2>5 DEF XaiOutcome
    <3>. QED BY <2>3, <3>1, NoWindows
  <2>6. CASE ~IsPaid(credential)
    <3>. DEFINE windows == Billed("weekly") \o Billed("monthly")
                silent == IF \E c \in Billing : Said(c).ok THEN Err("empty", 0) ELSE Said("weekly")
    <3>1. Outcome = IF windows # <<>> THEN Observation(windows, Nil, Nil)
                    ELSE IF PaidOutcome.ok THEN PaidOutcome ELSE silent
      BY <2>1, <2>6 DEF XaiOutcome
    <3>2. Resetting(windows, Resets)
      BY <2>4, <2>6, WindowsJoined DEF Billing
    <3>3. ~silent.ok
      BY DEF Err, Billing
    <3>4. Outcome.value.windows \in {windows, <<>>}
      <4>. HIDE DEF windows, silent
      <4>. QED BY <2>3, <3>1, <3>3 DEF Observation, Ok
    <3>. QED BY <3>2, <3>4, NoWindows
  <2>. QED BY <2>5, <2>6
<1>8. credential.provider \in Providers
  BY ProviderReadsAssumption DEF ReadsInv
<1>. QED BY <1>1, <1>2, <1>3, <1>4, <1>5, <1>6, <1>7, <1>8 DEF Providers

\* What a key's window resets at, and what was stored of it.
Kept(old, key) == IF key \in DOMAIN old THEN old[key].resets ELSE Nil

\* A window is stored with the first report of its key, or the reset it had before.
LEMMA ReplacedResets ==
  ASSUME NEW R, NEW old, NEW windows, Resetting(windows, R),
         NEW key \in DOMAIN Replaced(old, windows)
  PROVE  \E reported \in R :
            Replaced(old, windows)[key].resets = SteadyReset(Kept(old, key), reported)
<1>. DEFINE at == {i \in DOMAIN windows : windows[i].key = key}
            first == CHOOSE i \in at : \A j \in at : i <= j
            report == windows[first]
            kept == Kept(old, key)
            percent == Percent(report.used)
            steady == SteadyReset(kept, report.resets)
<1>1. /\ key \in {windows[i].key : i \in DOMAIN windows}
      /\ Replaced(old, windows)[key] = [report EXCEPT !.used = percent, !.resets = steady]
  BY DEF Replaced, Kept
<1>2. at # {} /\ at \subseteq Nat
  <2>1. DOMAIN windows \subseteq Nat
    BY SequenceIsList DEF Resetting, IsList
  <2>. QED BY <1>1, <2>1
<1>3. first \in at
  <2>. HIDE DEF at
  <2>. QED BY <1>2, Least
<1>4. "resets" \in DOMAIN report /\ report.resets \in R
  BY <1>3 DEF Resetting
<1>. HIDE DEF report, first, at, percent
<1>5. [report EXCEPT !.used = percent, !.resets = steady].resets = steady
  <2>. HIDE DEF steady
  <2>. DEFINE used == [report EXCEPT !.used = percent]
  <2>1. [report EXCEPT !.used = percent, !.resets = steady] = [used EXCEPT !.resets = steady]
    BY Zenon
  <2>2. "resets" \in DOMAIN used
    BY <1>4
  <2>. HIDE DEF used
  <2>3. [used EXCEPT !.resets = steady].resets = steady
    BY <2>2
  <2>. QED BY <2>1, <2>3
<1>. QED BY <1>1, <1>4, <1>5

\* Of two resets within the tolerance the stored one stays.
LEMMA SteadyResetStands ==
  ASSUME NEW kept \in Resets, NEW reported \in Resets
  PROVE  LET new == SteadyReset(kept, reported) IN
         /\ new \in Resets
         /\ new # Nil /\ kept # Nil /\ kept # new => Stands(kept) \cap Stands(new) = {}
<1>. DEFINE new == SteadyReset(kept, reported)
<1>1. new \in {kept, reported}
  BY DEF SteadyReset
<1>2. ASSUME new # Nil, kept # Nil, kept # new PROVE Stands(kept) \cap Stands(new) = {}
  <2>1. new = reported /\ ~(Apart(kept, reported) <= Tolerance)
    BY <1>2 DEF SteadyReset
  <2>2. kept \in Int /\ reported \in Int
    BY <1>2, <2>1 DEF Resets
  <2>3. MaxLate \in Nat /\ Tolerance \in Nat /\ MaxLate <= Tolerance
    BY ProviderReadsAssumption, AnswersAssumption
  <2>4. \A i \in DOMAIN Ends : Ends[i] \in Nat
    BY ProviderReadsAssumption
  <2>. QED BY <2>1, <2>2, <2>3, <2>4 DEF Apart, Stands
<1>. QED BY <1>1, <1>2

\* What a success stores of a window.
LEMMA RecordsSteady ==
  ASSUME ReadsInv, RecordOutcome, Outcome.ok, NEW key \in DOMAIN stored'.windows
  PROVE  LET new == stored'.windows[key].resets IN
         /\ new \in Resets
         /\ key \in DOMAIN stored.windows =>
               LET old == stored.windows[key].resets IN
               new # Nil /\ old # Nil /\ old # new => Stands(old) \cap Stands(new) = {}
<1>. DEFINE windows == Outcome.value.windows
            kept == Kept(stored.windows, key)
<1>1. stored'.windows = Replaced(stored.windows, windows)
  BY RecordStores DEF ReadsInv
<1>2. Resetting(windows, Resets)
  BY OutcomeSteady DEF RecordOutcome
<1>. HIDE DEF windows
<1>3. PICK reported \in Resets : stored'.windows[key].resets = SteadyReset(kept, reported)
  BY <1>1, <1>2, ReplacedResets
<1>4. kept \in Resets
  BY DEF Kept, ReadsInv, StoredInv, Resets
<1>. HIDE DEF kept
<1>5. /\ stored'.windows[key].resets \in Resets
      /\ stored'.windows[key].resets # Nil /\ kept # Nil /\ kept # stored'.windows[key].resets =>
            Stands(kept) \cap Stands(stored'.windows[key].resets) = {}
  BY <1>3, <1>4, SteadyResetStands
<1>. QED BY <1>5 DEF kept, Kept

\* Every step keeps the invariant.
LEMMA ReadsStep == ReadsInv /\ [RefreshNext]_refreshVars => ReadsInv'
<1>. SUFFICES ASSUME ReadsInv, [RefreshNext]_refreshVars PROVE ReadsInv'
  OBVIOUS
<1>. USE DEF ReadsInv
<1>1. CASE Begin
  <2>1. AnswersInv'
    BY <1>1 DEF Begin, AnswersInv
  <2>. QED BY <1>1, <2>1 DEF Begin, StoredInv
<1>2. ASSUME NEW call \in AllCalls, Hear(call) PROVE ReadsInv'
  <2>1. PICK reply \in Replies(call) :
           answers' = [c \in DOMAIN answers \cup {call} |->
                          IF c = call THEN reply ELSE answers[c]]
    BY <1>2 DEF Hear
  <2>2. reply.status \in Codes(call)
    <3>1. \/ reply = Down
          \/ reply.status \in {200}
          \/ call # "file" /\ reply.status \in Statuses \cup {401}
      <4>. HIDE DEF ReadsInv
      <4>. QED BY <2>1 DEF Replies
    <3>. QED BY <3>1 DEF Codes, Down
  <2>3. reply.body = Nil \/ \E i \in DOMAIN Ends, late \in 0..MaxLate :
                                Tells(reply.body, credential.provider, call, Ends[i], late)
    <3>1. \/ reply.body = Nil
          \/ \E late \in 0..MaxLate :
                 reply.body \in Bodies(credential.provider, call, Ends[reset], late)
      <4>. DEFINE bodies == {Bodies(credential.provider, call, Ends[reset], late) : late \in 0..MaxLate}
      <4>1. reply = Down \/ reply.body \in {Nil} \cup UNION bodies \/ reply.body \in {Nil}
        <5>. HIDE DEF ReadsInv, bodies
        <5>1. Replies(call) =
                 {Down} \cup [status : {200}, said : {FALSE}, body : {Nil} \cup UNION bodies]
                 \cup IF call = "file" THEN {}
                      ELSE [status : Statuses, said : {FALSE}, body : {Nil}]
                           \cup [status : {401}, said : BOOLEAN, body : {Nil}]
          BY DEF Replies, bodies
        <5>. QED BY <2>1, <5>1
      <4>2. reply.body = Nil \/ reply.body \in UNION bodies
        <5>. HIDE DEF bodies
        <5>. QED BY <4>1 DEF Down
      <4>. QED BY <4>2
    <3>. QED BY <1>2, <3>1, AnswersAssumption
  <2>4. \A c \in DOMAIN answers' :
           \/ c = call /\ answers'[c] = reply
           \/ c \in DOMAIN answers /\ answers'[c] = answers[c]
    BY <2>1
  <2>5. answers' = [c \in DOMAIN answers' |-> answers'[c]]
    BY <2>1
  <2>6. answers # Nil /\ UNCHANGED credential
    BY <1>2 DEF Hear
  <2>7. AnswersInv'
    BY <2>2, <2>3, <2>4, <2>5, <2>6 DEF AnswersInv
  <2>. QED BY <1>2, <2>7 DEF Hear, StoredInv
<1>3. CASE RecordOutcome
  <2>1. AnswersInv'
    BY <1>3 DEF RecordOutcome, AnswersInv
  <2>2. StoredInv'
    <3>0. ASSUME NEW key \in DOMAIN stored'.windows PROVE stored'.windows[key].resets \in Resets
      <4>1. CASE Outcome.ok
        BY <1>3, <4>1, RecordsSteady
      <4>2. CASE ~Outcome.ok
        BY <1>3, <4>2, RecordStores DEF StoredInv
      <4>. QED BY <4>1, <4>2
    <3>1. \E w, g, p, f : \E e \in BOOLEAN :
             stored' = [windows |-> w, grants |-> g, plan |-> p, failure |-> f, expired |-> e]
      <4>1. CASE Outcome.ok
        BY <1>3, <4>1, RecordStores
      <4>2. CASE ~Outcome.ok
        BY <1>3, <4>2, RecordStores DEF StoredInv
      <4>. QED BY <4>1, <4>2
    <3>. QED BY <3>0, <3>1 DEF StoredInv
  <2>. QED BY <1>3, <2>1, <2>2 DEF RecordOutcome
<1>4. CASE Stop
  BY <1>4 DEF Stop, AnswersInv, StoredInv
<1>5. CASE Reset \/ UNCHANGED refreshVars
  BY <1>5 DEF Reset, refreshVars, AnswersInv, StoredInv
<1>. QED BY <1>1, <1>2, <1>3, <1>4, <1>5 DEF RefreshNext

\* Every reachable state of a credential's refreshes satisfies the invariant.
THEOREM ReadsCorrect == RefreshSpec => []ReadsInv
BY ReadsInit, ReadsStep, PTL DEF RefreshSpec

---------------------------------------------------------------------------
(* What the answers decide. *)

\* The outcome follows the answers that report the quota.
Decided ==
    /\ Outcome.ok \in BOOLEAN
    /\ Outcome.ok => Reported # {} \/ ("chat" \in DOMAIN answers /\ PaidOutcome.ok)
    /\ ~Outcome.ok /\ Outcome.why = <<"expired", 0>> =>
          \E c \in Reporting \cap DOMAIN answers : answers[c].status = 401 /\ answers[c].said
    /\ credential.provider \in {"claude", "codex", "kimi", "antigravity"} =>
          /\ Outcome.ok = (Reported # {})
          /\ ~Outcome.ok => Outcome.why # Nil
    /\ credential.provider = "antigravity" /\ ~Outcome.ok
       /\ (\E c \in Reporting : Statused(c) \in {403, 404}) => Outcome.why \in Decisive

\* Of the answers so far, one is reported when it could be read.
LEMMA ReportedReads ==
  ASSUME NEW c
  PROVE  /\ Said(c).ok \in BOOLEAN
         /\ c \in Reporting /\ c \in DOMAIN answers /\ Said(c).ok => Reported # {}
         /\ ~Said(c).ok /\ Said(c).why = <<"expired", 0>> =>
              answers[c].status = 401 /\ answers[c].said
<1>1. Said(c) = Answer(answers[c])
  BY DEF Said
<1>. QED BY <1>1, AnswerCases DEF Reported

\* Claude, Codex and Kimi report in one answer; the others only add to it.
LEMMA OneReport ==
  ASSUME ReadsInv, Calls \subseteq DOMAIN answers, answers # Nil,
         credential.provider \in {"claude", "codex", "kimi"}
  PROVE  Decided
<1>. DEFINE usage == Said("usage")
<1>1. "usage" \in DOMAIN answers
  BY DEF Calls
<1>2. Reporting = {"usage"}
  BY DEF Reporting
<1>3. Outcome = CASE credential.provider = "claude" -> ClaudeOutcome
                  [] credential.provider = "codex" -> CodexOutcome
                  [] credential.provider = "kimi" -> KimiOutcome
  BY DEF Outcome
<1>4. /\ usage.ok => Outcome.ok = TRUE
      /\ ~usage.ok => Outcome = usage
  BY <1>3 DEF ClaudeOutcome, CodexOutcome, KimiOutcome, Observation, Ok
<1>5. usage.ok \in BOOLEAN /\ usage = Answer(answers["usage"])
  BY AnswerCases DEF Said
<1>6. (Reported # {}) = usage.ok
  BY <1>1, <1>2, <1>5 DEF Reported
<1>7. ~usage.ok => usage.why # Nil
  <2>1. answers["usage"].status \in Int
    BY <1>1, HeardTells
  <2>. QED BY <2>1, <1>5, FailuresAreThere
<1>8. ~usage.ok /\ usage.why = <<"expired", 0>> =>
        answers["usage"].status = 401 /\ answers["usage"].said
  BY <1>5, AnswerCases
<1>. HIDE DEF usage
<1>. QED BY <1>1, <1>2, <1>4, <1>5, <1>6, <1>7, <1>8 DEF Decided

\* The kept failure is what its definition says: there is one for each host in turn.
LEMMA FailuresUnfold ==
  /\ Failures[0] = Nil
  /\ \A i \in 1..3 :
        Failures[i] = IF ~Heard({Hosts[i]}) \/ Said(Hosts[i]).ok THEN Failures[i - 1]
                      ELSE Failure(Failures[i - 1], Said(Hosts[i]).why)
<1>. DEFINE next(i, before) == IF ~Heard({Hosts[i]}) \/ Said(Hosts[i]).ok THEN before
                               ELSE Failure(before, Said(Hosts[i]).why)
            first == next(1, Nil)
            second == next(2, first)
            third == next(3, second)
            f == [i \in 0..3 |-> IF i = 0 THEN Nil ELSE IF i = 1 THEN first
                                 ELSE IF i = 2 THEN second ELSE third]
<1>1. f[0] = Nil /\ f[1] = next(1, f[0]) /\ f[2] = next(2, f[1]) /\ f[3] = next(3, f[2])
  <2>. HIDE DEF next
  <2>. QED OBVIOUS
<1>2. \A i \in 0..3 : f[i] = IF i = 0 THEN Nil ELSE next(i, f[i - 1])
  <2>. HIDE DEF f, next
  <2>1. \A i \in 0..3 : i = 0 \/ i = 1 \/ i = 2 \/ i = 3
    OBVIOUS
  <2>. QED BY <1>1, <2>1
<1>3. f = [i \in 0..3 |-> f[i]]
  <2>. HIDE DEF first, second, third
  <2>. QED OBVIOUS
<1>4. f = [i \in 0..3 |-> IF i = 0 THEN Nil ELSE next(i, f[i - 1])]
  <2>. HIDE DEF f, next
  <2>. QED BY <1>2, <1>3
<1>5. Len(Hosts) = 3
  BY DEF Hosts
<1>6. Failures = [i \in 0..3 |-> IF i = 0 THEN Nil ELSE next(i, Failures[i - 1])]
  <2>1. \E g : g = [i \in 0..3 |-> IF i = 0 THEN Nil ELSE next(i, g[i - 1])]
    <3>. HIDE DEF f, next
    <3>. QED BY <1>4
  <2>. QED BY <2>1, <1>5 DEF Failures
<1>. HIDE DEF next
<1>7. Failures[0] = Nil /\ \A i \in 1..3 : Failures[i] = next(i, Failures[i - 1])
  BY <1>6
<1>. QED BY <1>7 DEF next

\* When no host's answer could be read, every host was asked and answered.
LEMMA EveryHostHeard ==
  ASSUME Calls \subseteq DOMAIN answers, credential.provider = "antigravity",
         \A i \in 1..3 : Heard({Hosts[i]}) => ~Said(Hosts[i]).ok
  PROVE  \A i \in 1..3 : Hosts[i] \in DOMAIN answers
<1>1. DOMAIN Hosts = 1..3
  BY DEF Hosts
<1>2. HostsAsked \subseteq DOMAIN answers
  BY DEF Calls
<1>3. \A i \in 1..3 : Heard({Hosts[i]}) => HostWindows(Hosts[i]) = <<>>
  BY DEF HostWindows
<1>4. \A i \in 1..3 :
        (\A j \in 1..(i - 1) : Heard({Hosts[j]}) /\ HostWindows(Hosts[j]) = <<>>) =>
            Hosts[i] \in HostsAsked
  BY <1>1 DEF HostsAsked
<1>5. \A i \in 1..3 : Hosts[i] \in DOMAIN answers => Heard({Hosts[i]})
  BY DEF Heard
<1>6. Heard({Hosts[1]}) /\ Hosts[1] \in DOMAIN answers
  BY <1>2, <1>4, <1>5
<1>7. Heard({Hosts[2]}) /\ Hosts[2] \in DOMAIN answers
  BY <1>2, <1>3, <1>4, <1>5, <1>6
<1>8. Hosts[3] \in DOMAIN answers
  BY <1>2, <1>3, <1>4, <1>5, <1>6, <1>7
<1>. QED BY <1>6, <1>7, <1>8

\* Antigravity's hosts are asked in turn; the first that gives windows ends it.
LEMMA HostsReport ==
  ASSUME ReadsInv, Calls \subseteq DOMAIN answers, answers # Nil,
         credential.provider = "antigravity"
  PROVE  Decided
<1>. DEFINE reads(i) == Heard({Hosts[i]}) /\ Said(Hosts[i]).ok
<1>1. DOMAIN Hosts = 1..3 /\ Len(Hosts) = 3
  BY DEF Hosts
<1>2. Reporting = {Hosts[i] : i \in 1..3}
  BY <1>1 DEF Reporting
<1>3. \A i \in 1..3 : Heard({Hosts[i]}) = (Hosts[i] \in DOMAIN answers)
  BY DEF Heard
<1>4. Outcome = AntigravityOutcome
  BY DEF Outcome
<1>5. CASE \E i \in 1..3 : reads(i)
  <2>1. Outcome.ok = TRUE
    BY <1>1, <1>4, <1>5 DEF AntigravityOutcome, Observation, Ok
  <2>2. Reported # {}
    <3>1. PICK i \in 1..3 : reads(i)
      BY <1>5
    <3>2. Hosts[i] \in Reporting /\ Hosts[i] \in DOMAIN answers
      BY <1>2, <1>3, <3>1
    <3>. QED BY <3>1, <3>2, ReportedReads
  <2>. QED BY <2>1, <2>2 DEF Decided
<1>6. CASE ~\E i \in 1..3 : reads(i)
  <2>1. \A i \in 1..3 : Hosts[i] \in DOMAIN answers
    BY <1>6, EveryHostHeard
  <2>2. \A i \in 1..3 : ~Said(Hosts[i]).ok /\ Said(Hosts[i]) = Answer(answers[Hosts[i]])
    BY <1>3, <1>6, <2>1 DEF Said
  <2>3. Outcome.ok = FALSE /\ Outcome.why = Failures[3]
    BY <1>1, <1>4, <1>6 DEF AntigravityOutcome
  <2>4. Reported = {}
    BY <1>2, <2>2 DEF Reported
  <2>. DEFINE why(i) == Said(Hosts[i]).why
  <2>5. \A i \in 1..3 : Failures[i] = IF Failures[i - 1] \in Decisive THEN Failures[i - 1] ELSE why(i)
    <3>1. \A i \in 1..3 : Failures[i] = Failure(Failures[i - 1], why(i))
      BY <1>3, <2>1, <2>2, FailuresUnfold
    <3>. QED BY <3>1 DEF Failure
  <2>6. \A i \in 1..3 : answers[Hosts[i]].status \in Int
    BY <2>1, HeardTells
  <2>7. \A i \in 1..3 :
           /\ why(i) # Nil
           /\ why(i) \in {<<"unreachable", 0>>, <<"expired", 0>>, <<"unreadable", 0>>,
                          <<"upstream", answers[Hosts[i]].status>>}
    BY <2>2, <2>6, AnswerCases, FailuresAreThere
  <2>8. \A i \in 1..3 : why(i) = <<"expired", 0>> =>
           /\ Hosts[i] \in Reporting \cap DOMAIN answers
           /\ answers[Hosts[i]].status = 401 /\ answers[Hosts[i]].said
    BY <1>2, <2>1, <2>2, ReportedReads
  <2>9. \A i \in 1..3 : Statused(Hosts[i]) \in {403, 404} => why(i) \in Decisive
    <3>. SUFFICES ASSUME NEW i \in 1..3, Statused(Hosts[i]) \in {403, 404}
                  PROVE  why(i) \in Decisive
      OBVIOUS
    <3>1. why(i)[2] \in {403, 404}
      BY <2>2 DEF Statused
    <3>2. why(i) = <<"upstream", answers[Hosts[i]].status>>
      <4>. HIDE DEF why
      <4>. QED BY <2>7, <3>1
    <3>. HIDE DEF why
    <3>. QED BY <3>1, <3>2 DEF Decisive
  <2>. HIDE DEF why
  <2>10. Failures[1] = IF Nil \in Decisive THEN Nil ELSE why(1)
    BY <2>5, FailuresUnfold
  <2>11. Nil \notin Decisive
    <3>1. \A w \in Reasons, status \in Int : <<w, status>> # Nil
      BY ProviderReadsAssumption
    <3>2. "upstream" \in Reasons
      BY DEF Reasons
    <3>. QED BY <3>1, <3>2 DEF Decisive
  <2>12. /\ Failures[1] = why(1)
         /\ Failures[2] = IF why(1) \in Decisive THEN why(1) ELSE why(2)
         /\ Failures[3] = IF Failures[2] \in Decisive THEN Failures[2] ELSE why(3)
    BY <2>5, <2>10, <2>11
  <2>13. Failures[3] \in {why(1), why(2), why(3)}
    BY <2>12
  <2>14. (\E i \in 1..3 : why(i) \in Decisive) => Failures[3] \in Decisive
    <3>1. \A i \in 1..3 : i = 1 \/ i = 2 \/ i = 3
      OBVIOUS
    <3>. QED BY <3>1, <2>12
  <2>15. Outcome.why # Nil
    BY <2>3, <2>7, <2>13
  <2>16. Outcome.why = <<"expired", 0>> =>
           \E c \in Reporting \cap DOMAIN answers : answers[c].status = 401 /\ answers[c].said
    BY <2>3, <2>8, <2>13
  <2>17. (\E c \in Reporting : Statused(c) \in {403, 404}) => Outcome.why \in Decisive
    BY <1>2, <2>3, <2>9, <2>14
  <2>. QED BY <2>3, <2>4, <2>15, <2>16, <2>17 DEF Decided
<1>. QED BY <1>5, <1>6

\* Devin reports in one answer, which may hold no window.
LEMMA DevinReports ==
  ASSUME Calls \subseteq DOMAIN answers, credential.provider = "devin"
  PROVE  Decided
<1>. DEFINE status == Said("usage")
<1>1. "usage" \in DOMAIN answers
  BY DEF Calls
<1>2. Reporting = {"usage"}
  BY DEF Reporting
<1>3. Outcome = DevinOutcome
  BY DEF Outcome
<1>4. CASE status.ok
  <2>1. Reported # {}
    BY <1>1, <1>2, <1>4, ReportedReads
  <2>2. Outcome.ok \in BOOLEAN /\ (~Outcome.ok => Outcome.why = <<"empty", 0>>)
    BY <1>3, <1>4 DEF DevinOutcome, Observation, Ok, Err
  <2>. QED BY <2>1, <2>2 DEF Decided
<1>5. CASE ~status.ok
  <2>1. Outcome = status
    BY <1>3, <1>5 DEF DevinOutcome
  <2>2. status.ok = FALSE
    BY <1>5, ReportedReads
  <2>3. status.why = <<"expired", 0>> => answers["usage"].status = 401 /\ answers["usage"].said
    BY <1>5, ReportedReads
  <2>. QED BY <1>1, <1>2, <2>1, <2>2, <2>3 DEF Decided
<1>. QED BY <1>4, <1>5

\* Meta reads a file for a token, then asks for a key; only the key can say expired.
LEMMA KeyReports ==
  ASSUME ReadsInv, Calls \subseteq DOMAIN answers, answers # Nil, credential.provider = "meta"
  PROVE  Decided
<1>. DEFINE file == Said("file")
            key == Said("key")
<1>1. "file" \in DOMAIN answers
  BY DEF Calls
<1>2. Reporting = {"key"}
  BY DEF Reporting
<1>3. Outcome = MetaOutcome
  BY DEF Outcome
<1>4. CASE ~file.ok
  <2>1. answers["file"].status \in {0, 200}
    BY <1>1 DEF ReadsInv, AnswersInv, Codes
  <2>2. file.why # <<"expired", 0>> /\ file.ok = FALSE
    BY <1>4, <2>1, ReportedReads
  <2>3. Outcome = file \/ Outcome = Err("no_object", 0)
    BY <1>3, <1>4 DEF MetaOutcome
  <2>4. Outcome.ok = FALSE /\ Outcome.why # <<"expired", 0>>
    BY <2>2, <2>3 DEF Err
  <2>. QED BY <2>4 DEF Decided
<1>5. CASE file.ok /\ ~(file.value.object /\ file.value.token)
  <2>1. Outcome = Err("no_object", 0) \/ Outcome = Err("no_token", 0)
    BY <1>3, <1>5 DEF MetaOutcome
  <2>2. Outcome.ok = FALSE /\ Outcome.why # <<"expired", 0>>
    BY <2>1 DEF Err
  <2>. QED BY <2>2 DEF Decided
<1>6. CASE file.ok /\ file.value.object /\ file.value.token
  <2>1. Heard({"file"}) /\ Token(file)
    BY <1>1, <1>6 DEF Heard, Token
  <2>2. "key" \in DOMAIN answers
    BY <2>1 DEF Calls
  <2>3. Outcome = IF ~key.ok THEN key
                  ELSE IF ~key.value.object THEN Err("unreadable", 0)
                  ELSE Observation(MetaWindows(key.value),
                                   Or(Read(key.value.plan), Read(key.value.tier)), Nil)
    BY <1>3, <1>6 DEF MetaOutcome
  <2>4. CASE key.ok
    <3>1. Reported # {}
      BY <1>2, <2>2, <2>4, ReportedReads
    <3>2. Outcome.ok \in BOOLEAN /\ (~Outcome.ok => Outcome.why = <<"unreadable", 0>>)
      BY <2>3, <2>4 DEF Observation, Ok, Err
    <3>. QED BY <3>1, <3>2 DEF Decided
  <2>5. CASE ~key.ok
    <3>1. Outcome = key /\ key.ok = FALSE
      BY <2>3, <2>5, ReportedReads
    <3>2. key.why = <<"expired", 0>> => answers["key"].status = 401 /\ answers["key"].said
      BY <2>5, ReportedReads
    <3>. QED BY <1>2, <2>2, <3>1, <3>2 DEF Decided
  <2>. QED BY <2>4, <2>5
<1>. QED BY <1>4, <1>5, <1>6

\* A ping never says that a sign-in expired.
LEMMA PingIsSilent ==
  PaidOutcome.ok \in BOOLEAN /\ (~PaidOutcome.ok => PaidOutcome.why # <<"expired", 0>>)
BY DEF PaidOutcome, Observation, Ok, Err

\* xAI bills twice, and answers a ping where no bill holds a window.
LEMMA BillsReport ==
  ASSUME Calls \subseteq DOMAIN answers, credential.provider = "xai"
  PROVE  Decided
<1>1. Reporting = Billing
  BY DEF Reporting
<1>2. Outcome = XaiOutcome
  BY DEF Outcome
<1>3. CASE IsPaid(credential)
  <2>1. Outcome = PaidOutcome
    BY <1>2, <1>3 DEF XaiOutcome
  <2>2. "chat" \in DOMAIN answers
    BY <1>3 DEF Calls
  <2>. QED BY <2>1, <2>2, PingIsSilent DEF Decided
<1>4. CASE ~IsPaid(credential)
  <2>. DEFINE windows == Billed("weekly") \o Billed("monthly")
              silent == IF \E c \in Billing : Said(c).ok THEN Err("empty", 0) ELSE Said("weekly")
  <2>1. Billing \subseteq DOMAIN answers /\ Heard(Billing)
    BY <1>4 DEF Calls, Heard
  <2>2. Outcome = IF windows # <<>> THEN Observation(windows, Nil, Nil)
                  ELSE IF PaidOutcome.ok THEN PaidOutcome ELSE silent
    BY <1>2, <1>4 DEF XaiOutcome
  <2>3. CASE \E c \in Billing : Billed(c) # <<>>
    <3>1. \E c \in Billing : Said(c).ok
      BY <2>3 DEF Billed
    <3>2. Reported # {}
      BY <1>1, <2>1, <3>1, ReportedReads
    <3>3. Outcome.ok \in BOOLEAN /\ (~Outcome.ok => Outcome.why = <<"empty", 0>>)
      BY <2>2, <3>1 DEF Observation, Ok, Err
    <3>. QED BY <3>2, <3>3 DEF Decided
  <2>4. CASE \A c \in Billing : Billed(c) = <<>>
    <3>1. windows = <<>>
      BY <2>4 DEF Billing
    <3>2. "chat" \in DOMAIN answers
      BY <1>4, <2>1, <2>4 DEF Calls
    <3>3. CASE PaidOutcome.ok
      <4>1. Outcome.ok = TRUE
        BY <2>2, <3>1, <3>3, PingIsSilent
      <4>. QED BY <3>2, <3>3, <4>1 DEF Decided
    <3>4. CASE ~PaidOutcome.ok
      <4>1. Outcome = silent
        BY <2>2, <3>1, <3>4
      <4>2. silent.ok = FALSE
        BY ReportedReads DEF Err, Billing
      <4>3. silent.why = <<"expired", 0>> =>
              answers["weekly"].status = 401 /\ answers["weekly"].said
        BY ReportedReads DEF Err, Billing
      <4>. QED BY <1>1, <2>1, <4>1, <4>2, <4>3 DEF Decided, Billing
    <3>. QED BY <3>3, <3>4
  <2>. QED BY <2>3, <2>4
<1>. QED BY <1>3, <1>4

\* Whatever the provider, the outcome is decided by what reports its quota.
LEMMA AnswersAreDecided ==
  ASSUME ReadsInv, Calls \subseteq DOMAIN answers, answers # Nil
  PROVE  Decided
<1>1. credential.provider \in Providers
  BY ProviderReadsAssumption DEF ReadsInv
<1>. QED BY <1>1, OneReport, HostsReport, DevinReports, KeyReports, BillsReport DEF Providers

\* A refresh ends as the calls that report its quota say.
THEOREM AnswersDecideCorrect == RefreshSpec => AnswersDecide
<1>. DEFINE Decides ==
       Stores =>
        /\ credential.provider \in {"claude", "codex", "kimi", "antigravity"} =>
              (stored'.failure = Nil) = (Reported # {})
        /\ stored'.windows # stored.windows =>
              Reported # {} \/ ("chat" \in DOMAIN answers /\ PaidOutcome.ok)
        /\ stored'.expired /\ ~stored.expired =>
              \E c \in Reporting \cap DOMAIN answers :
                  answers[c].status = 401 /\ answers[c].said
        /\ credential.provider = "antigravity" /\ stored'.failure # Nil
           /\ (\E c \in Reporting : Statused(c) \in {403, 404}) =>
              stored'.failure \in Decisive
<1>1. ASSUME ReadsInv, [RefreshNext]_refreshVars PROVE [Decides]_refreshVars
  <2>1. CASE RecordOutcome
    <3>1. Decided
      BY <1>1, <2>1, AnswersAreDecided DEF RecordOutcome
    <3>2. CASE Outcome.ok
      <4>1. stored'.failure = Nil /\ stored'.expired = FALSE
        BY <1>1, <2>1, <3>2, RecordStores DEF ReadsInv
      <4>. QED BY <3>1, <3>2, <4>1 DEF Decided
    <3>3. CASE ~Outcome.ok
      <4>1. /\ stored'.failure = Outcome.why /\ stored'.windows = stored.windows
            /\ stored'.expired = (stored.expired \/ Outcome.why = <<"expired", 0>>)
        BY <1>1, <2>1, <3>3, RecordStores DEF ReadsInv
      <4>. QED BY <3>1, <3>3, <4>1 DEF Decided
    <3>. QED BY <3>2, <3>3
  <2>2. CASE ~RecordOutcome
    BY <1>1, <2>2 DEF RefreshNext, Stores, Begin, Hear, Stop, Reset, refreshVars
  <2>. QED BY <2>1, <2>2
<1>. QED BY <1>1, ReadsCorrect, PTL DEF RefreshSpec, AnswersDecide

---------------------------------------------------------------------------
(* What is stored of a window. *)

\* WindowsSteady of ProviderReads: two answers about one reset are one report.
THEOREM WindowsSteadyCorrect == RefreshSpec => WindowsSteady
<1>. DEFINE Steady ==
       \A key \in DOMAIN stored'.windows :
          LET new == stored'.windows[key].resets IN
          new # Nil =>
              /\ Stands(new) # {}
              /\ key \in DOMAIN stored.windows =>
                    LET old == stored.windows[key].resets IN
                    old # Nil /\ old # new => Stands(old) \cap Stands(new) = {}
<1>1. ASSUME ReadsInv, ReadsInv', [RefreshNext]_refreshVars PROVE [Steady]_refreshVars
  <2>1. ASSUME NEW key \in DOMAIN stored'.windows
        PROVE  stored'.windows[key].resets \in Resets
    BY <1>1 DEF ReadsInv, StoredInv, Resets, Stands
  <2>2. CASE RecordOutcome /\ Outcome.ok
    BY <1>1, <2>1, <2>2, RecordsSteady DEF Resets
  <2>3. CASE ~(RecordOutcome /\ Outcome.ok)
    <3>1. stored'.windows = stored.windows
      <4>1. CASE RecordOutcome
        BY <1>1, <2>3, <4>1, RecordStores DEF ReadsInv
      <4>2. CASE ~RecordOutcome
        BY <1>1, <4>2 DEF RefreshNext, Begin, Hear, Stop, Reset, refreshVars
      <4>. QED BY <4>1, <4>2
    <3>. QED BY <2>1, <3>1 DEF Resets
  <2>. QED BY <2>2, <2>3
<1>. QED BY <1>1, ReadsCorrect, PTL DEF RefreshSpec, WindowsSteady

---------------------------------------------------------------------------
(* What is stored of the grants. *)

\* Claude's grants are those of its list, when every entry of it could be read.
LEMMA ClaudeGrantsListed ==
  ASSUME NEW block, block # Nil => block.grants \in {Nil, Bad} \/ IsList(block.grants),
         block # Nil /\ block.grants \notin {Nil, Bad} =>
            \A i \in DOMAIN block.grants :
               LET g == block.grants[i] IN {g.total, g.left, g.ends} \subseteq Number,
         ClaudeGrants(block) # Nil
  PROVE  LET listed == Or(block.grants, <<>>) IN
         /\ \A i \in DOMAIN listed : Bad \notin {listed[i].left, listed[i].ends}
         /\ Offered(ClaudeGrants(block)) =
               {<<listed[i].left, listed[i].ends>> : i \in {i \in DOMAIN listed : listed[i].left > 0}}
<1>. DEFINE listed == Or(block.grants, <<>>)
            kept(g, i) ==
               IF g.left > 0 THEN [left |-> g.left, total |-> g.total, ends |-> g.ends] ELSE Nil
            all == Each(listed, kept)
<1>1. /\ block # Nil /\ block.grants # Bad
      /\ \A i \in DOMAIN listed : ReadableGrant(listed[i])
      /\ ClaudeGrants(block) = Present(all)
  BY DEF ClaudeGrants
<1>2. IsList(listed)
  <2>1. IsList(<<>>)
    BY DEF IsList
  <2>. QED BY <1>1, <2>1 DEF Or
<1>3. IsList(all)
  <2>1. DOMAIN all = DOMAIN listed /\ all = [i \in DOMAIN listed |-> all[i]]
    BY DEF Each
  <2>. HIDE DEF listed, all
  <2>. QED BY <1>2, <2>1, EachIsList
<1>4. \A i \in DOMAIN listed :
         LET g == listed[i] IN [left |-> g.left, total |-> g.total, ends |-> g.ends] # Nil
  <2>1. \A i \in DOMAIN listed :
           LET g == listed[i] IN {g.total, g.left, g.ends} \subseteq Number
    <3>1. CASE block.grants = Nil
      <4>1. listed = <<>> /\ DOMAIN <<>> = {}
        BY <3>1 DEF Or
      <4>. HIDE DEF listed
      <4>. QED BY <4>1
    <3>2. CASE block.grants # Nil
      BY <1>1, <3>2 DEF Or
    <3>. QED BY <3>1, <3>2
  <2>. HIDE DEF listed
  <2>. QED BY <2>1, AnswersAssumption
<1>5. ASSUME NEW i \in DOMAIN listed, listed[i].left > 0
      PROVE  \E j \in DOMAIN ClaudeGrants(block) :
                 /\ ClaudeGrants(block)[j].left = listed[i].left
                 /\ ClaudeGrants(block)[j].ends = listed[i].ends
  <2>. DEFINE g == listed[i]
              grant == [left |-> g.left, total |-> g.total, ends |-> g.ends]
  <2>1. i \in DOMAIN all /\ all[i] = grant
    BY <1>5 DEF Each
  <2>2. grant # Nil
    BY <1>4
  <2>. HIDE DEF all
  <2>3. \E j \in DOMAIN Present(all) : Present(all)[j] = grant
    BY <1>3, <2>1, <2>2, PresentKeeps
  <2>4. grant.left = g.left /\ grant.ends = g.ends
    OBVIOUS
  <2>. HIDE DEF grant, g
  <2>5. \E j \in DOMAIN Present(all) : Present(all)[j].left = g.left /\ Present(all)[j].ends = g.ends
    BY <2>3, <2>4
  <2>. QED BY <1>1, <2>5 DEF g
<1>6. \A i \in DOMAIN listed : Bad \notin {listed[i].left, listed[i].ends}
  BY <1>1 DEF ReadableGrant, Read
<1>7. ASSUME NEW j \in DOMAIN ClaudeGrants(block)
      PROVE  \E i \in DOMAIN listed :
                 /\ listed[i].left > 0
                 /\ ClaudeGrants(block)[j].left = listed[i].left
                 /\ ClaudeGrants(block)[j].ends = listed[i].ends
  <2>1. PICK i \in DOMAIN all : Present(all)[j] = all[i] /\ all[i] # Nil
    <3>. HIDE DEF all
    <3>. QED BY <1>1, <1>3, <1>7, PresentKeeps
  <2>. DEFINE g == listed[i]
              grant == [left |-> g.left, total |-> g.total, ends |-> g.ends]
  <2>2. i \in DOMAIN listed /\ all[i] = kept(g, i)
    BY DEF Each
  <2>3. g.left > 0 /\ all[i] = grant
    BY <2>1, <2>2, Zenon
  <2>4. grant.left = g.left /\ grant.ends = g.ends
    OBVIOUS
  <2>. HIDE DEF grant, g, all
  <2>5. Present(all)[j].left = g.left /\ Present(all)[j].ends = g.ends
    BY <2>1, <2>3, <2>4
  <2>. QED BY <1>1, <2>2, <2>3, <2>5 DEF g
<1>. HIDE DEF listed
<1>8. Offered(ClaudeGrants(block)) =
         {<<listed[i].left, listed[i].ends>> : i \in {i \in DOMAIN listed : listed[i].left > 0}}
  BY <1>5, <1>7 DEF Offered
<1>. QED BY <1>6, <1>8 DEF listed

\* Codex's grants are the available credits of its list whose expiry could be read.
LEMMA CodexGrantsListed ==
  ASSUME NEW list, IsList(list.credits), CodexGrants(list) # Nil,
         \A i \in DOMAIN list.credits :
            [left |-> 1, total |-> Nil, ends |-> list.credits[i].ends] # Nil
  PROVE  /\ list.known
         /\ Offered(CodexGrants(list)) =
               {<<1, list.credits[i].ends>> :
                  i \in {i \in DOMAIN list.credits :
                           /\ list.credits[i].resets
                           /\ list.credits[i].available
                           /\ list.credits[i].ends \notin {Nil, Bad}}}
<1>. DEFINE credits == list.credits
            offers(c) == c.resets /\ c.available /\ c.ends \notin {Nil, Bad}
            grant(c) == [left |-> 1, total |-> Nil, ends |-> c.ends]
            kept(c, i) ==
               IF c.resets /\ c.available /\ Read(c.ends) # Nil
               THEN [left |-> 1, total |-> Nil, ends |-> c.ends] ELSE Nil
            all == Each(credits, kept)
<1>1. list.known /\ CodexGrants(list) = Present(all)
  BY DEF CodexGrants
<1>2. IsList(all) /\ DOMAIN all = DOMAIN credits
  <2>1. DOMAIN all = DOMAIN credits /\ all = [i \in DOMAIN credits |-> all[i]]
    BY DEF Each
  <2>. HIDE DEF all
  <2>. QED BY <2>1, EachIsList
<1>3. \A i \in DOMAIN credits : all[i] = IF offers(credits[i]) THEN grant(credits[i]) ELSE Nil
  BY DEF Each, Read
<1>4. \A c : grant(c).left = 1 /\ grant(c).ends = c.ends
  OBVIOUS
<1>. HIDE DEF all
<1>5. ASSUME NEW j \in DOMAIN Present(all)
      PROVE  \E i \in DOMAIN credits :
                 offers(credits[i]) /\ Present(all)[j] = grant(credits[i])
  <2>1. PICK i \in DOMAIN all : Present(all)[j] = all[i] /\ all[i] # Nil
    BY <1>2, PresentKeeps
  <2>. HIDE DEF offers, grant, credits
  <2>. QED BY <1>2, <1>3, <2>1
<1>6. ASSUME NEW i \in DOMAIN credits, offers(credits[i])
      PROVE  \E j \in DOMAIN Present(all) : Present(all)[j] = grant(credits[i])
  <2>1. all[i] = grant(credits[i]) /\ grant(credits[i]) # Nil
    BY <1>3, <1>6
  <2>. HIDE DEF offers, grant, credits
  <2>. QED BY <1>2, <2>1, PresentKeeps
<1>. HIDE DEF grant
<1>7. Offered(Present(all)) =
         {<<1, credits[i].ends>> : i \in {i \in DOMAIN credits : offers(credits[i])}}
  <2>. HIDE DEF offers, credits
  <2>. QED BY <1>4, <1>5, <1>6 DEF Offered
<1>. QED BY <1>1, <1>7

\* GrantsStand of ProviderReads: the grants change only to what a list offers.
THEOREM GrantsStandCorrect == RefreshSpec => GrantsStand
<1>. DEFINE Stand ==
       stored'.grants # stored.grants =>
        /\ "grants" \in DOMAIN answers
        /\ Said("grants").ok
        /\ LET list == Said("grants").value
           IN  IF credential.provider = "claude"
               THEN LET listed == Or(list.cedar.grants, <<>>)
                    IN  /\ \A i \in DOMAIN listed : Bad \notin {listed[i].left, listed[i].ends}
                        /\ Offered(stored'.grants) =
                              {<<listed[i].left, listed[i].ends>> :
                                  i \in {i \in DOMAIN listed : listed[i].left > 0}}
               ELSE LET credits == list.credits
                        offers(c) == c.resets /\ c.available /\ c.ends \notin {Nil, Bad}
                    IN  /\ list.known
                        /\ Offered(stored'.grants) =
                              {<<1, credits[i].ends>> :
                                  i \in {i \in DOMAIN credits : offers(credits[i])}}
<1>1. ASSUME ReadsInv, [RefreshNext]_refreshVars, stored'.grants # stored.grants PROVE Stand
  <2>1. RecordOutcome
    BY <1>1 DEF RefreshNext, Begin, Hear, Stop, Reset, refreshVars
  <2>2. Outcome.ok
    BY <1>1, <2>1, RecordStores DEF ReadsInv
  <2>3. /\ Outcome.value.grants # Nil
        /\ stored'.grants = Outcome.value.grants
    BY <1>1, <2>1, <2>2, RecordStores DEF ReadsInv, Or
  <2>4. answers # Nil /\ Calls \subseteq DOMAIN answers
    BY <2>1 DEF RecordOutcome
  <2>. DEFINE list == Said("grants").value
  <2>5. CASE credential.provider = "claude"
    <3>1. /\ Said("usage").ok
          /\ Outcome.value.grants = Optional("grants", LAMBDA body : ClaudeGrants(body.cedar))
      BY <2>2, <2>5, AnswerCases DEF Outcome, ClaudeOutcome, Observation, Ok, Said
    <3>2. Said("grants").ok /\ Outcome.value.grants = ClaudeGrants(list.cedar)
      BY <2>3, <3>1 DEF Optional
    <3>3. "grants" \in DOMAIN answers
      BY <2>4, <2>5, <3>1 DEF Calls, Heard
    <3>4. ClaudeLists(list)
      BY <1>1, <2>4, <2>5, <3>2, <3>3, HeardTells DEF Tells
    <3>. DEFINE block == list.cedar
    <3>5. /\ block # Nil => block.grants \in {Nil, Bad} \/ IsList(block.grants)
          /\ block # Nil /\ block.grants \notin {Nil, Bad} =>
                \A i \in DOMAIN block.grants :
                   LET g == block.grants[i] IN {g.total, g.left, g.ends} \subseteq Number
      BY <3>4 DEF ClaudeLists, Every
    <3>6. LET listed == Or(block.grants, <<>>) IN
           /\ \A i \in DOMAIN listed : Bad \notin {listed[i].left, listed[i].ends}
           /\ Offered(ClaudeGrants(block)) =
                 {<<listed[i].left, listed[i].ends>> :
                     i \in {i \in DOMAIN listed : listed[i].left > 0}}
      <4>. HIDE DEF block
      <4>. QED BY <2>3, <3>2, <3>5, ClaudeGrantsListed DEF block
    <3>. QED BY <2>3, <2>5, <3>2, <3>3, <3>6
  <2>6. CASE credential.provider = "codex"
    <3>1. /\ Said("usage").ok
          /\ Outcome.value.grants = Optional("grants", CodexGrants)
      BY <2>2, <2>6, AnswerCases DEF Outcome, CodexOutcome, Observation, Ok, Said
    <3>2. Said("grants").ok /\ Outcome.value.grants = CodexGrants(list)
      BY <2>3, <3>1 DEF Optional
    <3>3. "grants" \in DOMAIN answers
      BY <2>4, <2>6, <3>1 DEF Calls, Heard
    <3>4. CodexListed(list)
      BY <1>1, <2>4, <2>6, <3>2, <3>3, HeardTells DEF Tells
    <3>5. /\ list.known
          /\ Offered(stored'.grants) =
                {<<1, list.credits[i].ends>> :
                   i \in {i \in DOMAIN list.credits :
                            /\ list.credits[i].resets
                            /\ list.credits[i].available
                            /\ list.credits[i].ends \notin {Nil, Bad}}}
      <4>. HIDE DEF list
      <4>1. IsList(list.credits)
            /\ \A i \in DOMAIN list.credits :
                  [left |-> 1, total |-> Nil, ends |-> list.credits[i].ends] # Nil
        BY <3>4, AnswersAssumption DEF CodexListed, Every, Number
      <4>. QED BY <2>3, <3>2, <4>1, CodexGrantsListed
    <3>. QED BY <2>6, <3>2, <3>3, <3>5
  <2>7. CASE credential.provider \notin {"claude", "codex"}
    <3>1. credential.provider \in Providers
      BY <1>1, ProviderReadsAssumption DEF ReadsInv
    <3>2. PaidOutcome.ok => PaidOutcome.value.grants = Nil
      BY DEF PaidOutcome, Observation, Ok, Err
    <3>3. CASE credential.provider = "antigravity"
      BY <2>2, <2>3, <3>3 DEF Outcome, AntigravityOutcome, Observation, Ok
    <3>4. CASE credential.provider = "kimi"
      BY <2>2, <2>3, <3>4, AnswerCases DEF Outcome, KimiOutcome, Observation, Ok, Said
    <3>5. CASE credential.provider = "devin"
      BY <2>2, <2>3, <3>5, AnswerCases DEF Outcome, DevinOutcome, Observation, Ok, Err, Said
    <3>6. CASE credential.provider = "meta"
      BY <2>2, <2>3, <3>6, AnswerCases DEF Outcome, MetaOutcome, Observation, Ok, Err, Said
    <3>7. CASE credential.provider = "xai"
      <4>1. Outcome = XaiOutcome
        BY <3>7 DEF Outcome
      <4>2. Said("weekly").ok => \E c \in Billing : Said(c).ok
        BY DEF Billing
      <4>. QED BY <2>2, <2>3, <3>2, <4>1, <4>2 DEF XaiOutcome, Observation, Ok, Err
    <3>. QED BY <2>7, <3>1, <3>3, <3>4, <3>5, <3>6, <3>7 DEF Providers
  <2>. QED BY <2>5, <2>6, <2>7
<1>2. ReadsInv /\ [RefreshNext]_refreshVars => [Stand]_refreshVars
  BY <1>1
<1>. QED BY <1>2, ReadsCorrect, PTL DEF RefreshSpec, GrantsStand

==============================================================================
