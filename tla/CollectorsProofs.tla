-------------------------- MODULE CollectorsProofs --------------------------
(* Proofs about Collectors: what a collector takes from its gateway stays  *)
(* until it is filed, is filed once and vanishes nowhere unseen, for any   *)
(* records, batches, channels, pages and faults.                           *)
EXTENDS Collectors, TLAPS, FunctionTheorems, FiniteSetTheorems, WellFoundedInduction

LEMMA Finite ==
  ASSUME NEW S, S \subseteq Records
  PROVE  IsFiniteSet(S) /\ Cardinality(S) \in Nat
<1>1. IsFiniteSet(S)
  BY CollectorsAssumption, FS_Subset
<1>. QED BY <1>1, FS_CardinalityType

LEMMA OldestIsOne ==
  ASSUME NEW S, S \subseteq Records
  PROVE  \A r \in Oldest(S) : r \in S
BY DEF Oldest

-----------------------------------------------------------------------------
(* ingest(): what a batch of requests adds to the tables.                  *)

\* The dead letters ever written.
Written == letters \cup pruned

Letter == [record : Unreadable, copy : Nat, by : {"collector", "post"}]

\* The dead letters a batch adds are as many as the records it cannot read, and new.
LEMMA RefusedAreNew ==
  ASSUME TypeOK, LettersInv, NEW batch, batch \subseteq Records, NEW by \in {"collector", "post"}
  PROVE  /\ Refused(batch, by) \subseteq Letter
         /\ IsFiniteSet(Refused(batch, by)) /\ Cardinality(Refused(batch, by)) \in Nat
         /\ Refused(batch, by) \cap Written = {}
         /\ {l.record : l \in Refused(batch, by)} = batch \cap Unreadable
         /\ \A l \in Refused(batch, by) : l.by = by
         /\ \A l, m \in Refused(batch, by) : l.record = m.record => l = m
<1>1. \A r : Copies(r) \in Nat
  <2>. TAKE r
  <2>. DEFINE L == {l \in letters \cup pruned : l.record = r}
  <2>1. IsFiniteSet(L)
    BY FS_Subset DEF LettersInv
  <2>. QED BY <2>1, FS_CardinalityType DEF Copies
<1>. DEFINE B == batch \cap Unreadable
            new(r) == [record |-> r, copy |-> Copies(r), by |-> by]
            f == [r \in B |-> new(r)]
<1>2. Refused(batch, by) = {new(r) : r \in B}
  BY DEF Refused
<1>n. \A r : new(r).record = r /\ new(r).copy = Copies(r) /\ new(r).by = by
  OBVIOUS
<1>3. IsFiniteSet(B)
  BY Finite
<1>4. f \in Surjection(B, Refused(batch, by))
  <2>1. f \in [B -> Refused(batch, by)]
    BY <1>2
  <2>2. \A t \in Refused(batch, by) : \E r \in B : f[r] = t
    BY <1>2
  <2>. QED BY <2>1, <2>2, Fun_IsSurj
<1>5. IsFiniteSet(Refused(batch, by))
  BY <1>3, <1>4, FS_Surjection
<1>6. Refused(batch, by) \cap Written = {}
  <2>1. SUFFICES ASSUME NEW r \in B, new(r) \in Written PROVE FALSE
    BY <1>2
  <2>2. Copies(r) < Copies(r)
    BY <1>n, <2>1 DEF LettersInv, Written
  <2>. QED BY <1>1, <2>2
<1>7. Refused(batch, by) \subseteq Letter
  BY <1>1, <1>2 DEF Letter
<1>. HIDE DEF new
<1>8. {l.record : l \in Refused(batch, by)} = B
  <2>1. ASSUME NEW l \in Refused(batch, by) PROVE l.record \in B
    BY <1>2, <1>n, <2>1
  <2>2. ASSUME NEW r \in B PROVE \E l \in Refused(batch, by) : l.record = r
    BY <1>2, <1>n
  <2>. QED BY <2>1, <2>2
<1>9. /\ \A l \in Refused(batch, by) : l.by = by
      /\ \A l, m \in Refused(batch, by) : l.record = m.record => l = m
  BY <1>2, <1>n
<1>. QED BY <1>5, <1>6, <1>7, <1>8, <1>9, FS_CardinalityType

\* What the collector wrote is finite.
LEMMA CollectedFinite ==
  ASSUME LettersInv
  PROVE  IsFiniteSet(Collected) /\ Cardinality(Collected) \in Nat
<1>1. Collected \subseteq letters \cup pruned
  BY DEF Collected
<1>. QED BY <1>1, FS_Subset, FS_CardinalityType DEF LettersInv

LEMMA IngestFiles ==
  ASSUME TypeOK, LettersInv, NEW batch, batch \subseteq Records \ Notices, Ingest(batch),
         pruned' = pruned
  PROVE  /\ stored' \subseteq Records \ Unreadable
         /\ letters' \subseteq Letter
         /\ brought' \in Nat
         /\ Cardinality(stored') + Cardinality(Collected')
              = Cardinality(stored) + Cardinality(Collected) + brought'
         /\ \A r \in batch : Filed(r)'
         /\ \A r : Filed(r) => Filed(r)'
         /\ Collected' = Collected \cup Refused(batch, "collector")
         /\ Lettered' = Lettered \cup (batch \cap Rejected)
<1>. DEFINE new == Refused(batch, "collector")
<1>0. /\ stored \subseteq Records /\ Accepted(batch) \subseteq Records
      /\ stored \cap Accepted(batch) = {}
      /\ batch \subseteq Records /\ batch \cap Unreadable = batch \cap Rejected
  BY DEF TypeOK, Accepted, Unreadable
<1>1. /\ new \subseteq Letter
      /\ IsFiniteSet(new) /\ Cardinality(new) \in Nat
      /\ new \cap Written = {}
      /\ {l.record : l \in new} = batch \cap Rejected
      /\ \A l \in new : l.by = "collector"
  BY <1>0, RefusedAreNew
<1>2. IsFiniteSet(Collected) /\ Cardinality(Collected) \in Nat
  BY CollectedFinite
<1>3. /\ IsFiniteSet(stored) /\ Cardinality(stored) \in Nat
      /\ IsFiniteSet(Accepted(batch)) /\ Cardinality(Accepted(batch)) \in Nat
  BY <1>0, Finite
<1>4. Cardinality(stored') = Cardinality(stored) + Cardinality(Accepted(batch))
  BY <1>0, <1>3, FS_Union, FS_EmptySet DEF Ingest
<1>. HIDE DEF new
<1>5. Collected' = Collected \cup new
  <2>1. letters' \cup pruned' = (letters \cup pruned) \cup new
    BY DEF Ingest, new
  <2>. QED BY <1>1, <2>1 DEF Collected
<1>6. Cardinality(Collected') = Cardinality(Collected) + Cardinality(new)
  <2>1. Collected \cap new = {}
    BY <1>1 DEF Collected, Written
  <2>2. Cardinality(Collected \cup new)
          = Cardinality(Collected) + Cardinality(new) - Cardinality(Collected \cap new)
    BY <1>1, <1>2, FS_Union
  <2>3. Cardinality(Collected \cap new) = 0
    BY <2>1, FS_EmptySet
  <2>. QED BY <1>1, <1>2, <1>5, <2>2, <2>3
<1>7. Lettered' = Lettered \cup (batch \cap Rejected)
  BY <1>1, <1>5 DEF Lettered
<1>8. \A r : Filed(r) => Filed(r)'
  BY <1>5 DEF Ingest, Filed
<1>9. \A r \in batch : Filed(r)'
  <2>. TAKE r \in batch
  <2>1. CASE r \in Rejected
    <3>1. r \in Lettered'
      BY <1>7, <2>1
    <3>. QED BY <3>1 DEF Lettered, Filed
  <2>2. CASE r \notin Rejected
    BY <1>0, <2>2 DEF Ingest, Accepted, Filed
  <2>. QED BY <2>1, <2>2
<1>10. brought' = Cardinality(Accepted(batch)) + Cardinality(new)
  BY DEF Ingest, new
<1>11. stored' \subseteq Records \ Unreadable
  BY DEF TypeOK, Ingest, Accepted
<1>12. letters' \subseteq Letter
  BY <1>1 DEF TypeOK, Ingest, Letter, new
<1>13. brought' \in Nat
  BY <1>1, <1>3, <1>10
<1>14. Cardinality(stored') + Cardinality(Collected')
         = Cardinality(stored) + Cardinality(Collected) + brought'
  BY <1>1, <1>2, <1>3, <1>4, <1>6, <1>10
<1>. QED BY <1>5, <1>7, <1>8, <1>9, <1>11, <1>12, <1>13, <1>14 DEF new

\* A post changes nothing of what the collector wrote.
LEMMA PostFiles ==
  ASSUME TypeOK, LettersInv, NEW r \in Records, Post(r)
  PROVE  /\ stored \subseteq stored' /\ stored' \subseteq Records \ Unreadable
         /\ letters' \subseteq Letter
         /\ Collected' = Collected
<1>1. /\ Refused({r}, "post") \subseteq Letter
      /\ \A l \in Refused({r}, "post") : l.by = "post"
  BY RefusedAreNew
<1>2. stored \subseteq stored' /\ stored' \subseteq Records \ Unreadable
  BY DEF Post, TypeOK, Accepted
<1>3. letters' = letters \cup Refused({r}, "post") /\ pruned' = pruned
  BY DEF Post, gone
<1>4. Collected' = Collected
  BY <1>1, <1>3 DEF Collected
<1>. QED BY <1>1, <1>2, <1>3, <1>4 DEF TypeOK, Letter

\* The copies of a record stay numbered from 0.
LEMMA RefusingNumbers ==
  ASSUME TypeOK, LettersInv, NEW batch, batch \subseteq Records,
         NEW by \in {"collector", "post"},
         letters' = letters \cup Refused(batch, by), pruned' = pruned
  PROVE  LettersInv'
<1>. DEFINE new == Refused(batch, by)
<1>1. IsFiniteSet(new) /\ new \cap Written = {}
  BY RefusedAreNew
<1>2. /\ Written' = Written \cup new
      /\ IsFiniteSet(Written) /\ IsFiniteSet(Written')
  <2>1. Written' = Written \cup new
    BY DEF Written
  <2>2. IsFiniteSet(Written)
    BY DEF LettersInv, Written
  <2>. HIDE DEF new
  <2>. QED BY <1>1, <2>1, <2>2, FS_Union
<1>3. ASSUME NEW l \in Written' PROVE l.copy < Copies(l.record)'
  <2>. DEFINE r == l.record
              Old == {m \in Written : m.record = r}
              New == {m \in Written' : m.record = r}
  <2>1. IsFiniteSet(Old) /\ IsFiniteSet(New) /\ Old \subseteq New
    BY <1>2, FS_Subset
  <2>2. Cardinality(Old) \in Nat /\ Cardinality(New) \in Nat /\ Cardinality(Old) <= Cardinality(New)
    BY <2>1, FS_Subset, FS_CardinalityType
  <2>3. Copies(r) = Cardinality(Old) /\ Copies(r)' = Cardinality(New)
    BY DEF Copies, Written
  <2>4. CASE l \in Written
    <3>1. l.copy < Copies(l.record) /\ l.copy \in Nat
      BY <2>4 DEF LettersInv, TypeOK, Written
    <3>. QED BY <2>2, <2>3, <3>1
  <2>5. CASE l \in new
    <3>1. l.copy = Cardinality(Old)
      <4>1. PICK s \in batch \cap Unreadable : l = [record |-> s, copy |-> Copies(s), by |-> by]
        BY <2>5 DEF Refused
      <4>2. l.record = s /\ l.copy = Copies(s)
        BY <4>1
      <4>. QED BY <2>3, <4>2
    <3>2. l \in New /\ l \notin Old
      BY <1>1, <1>2, <2>5
    <3>3. Cardinality(Old) # Cardinality(New)
      BY <2>1, <3>2, FS_Subset
    <3>. QED BY <2>2, <2>3, <3>1, <3>3
  <2>. QED BY <1>2, <2>4, <2>5
<1>. QED BY <1>2, <1>3 DEF LettersInv, Written

-----------------------------------------------------------------------------
(* The parts of CollectorsInv, step by step.                               *)

\* The newest event of a table is one of its events.
LEMMA NewestIsAnEvent ==
  ASSUME stored \subseteq Records, stored # {}
  PROVE  Newest \in Int
<1>. DEFINE n == Cardinality(Records)
            Back == {n - r : r \in stored}
<1>1. n \in Nat /\ Records = 1 .. n /\ Started \in [Records -> Int]
  BY CollectorsAssumption, Finite
<1>. HIDE DEF n
<1>2. Back \subseteq Nat /\ Back # {}
  <2>1. \A r \in stored : n - r \in Nat
    BY <1>1
  <2>. QED BY <2>1
<1>3. PICK b \in Back : \A y \in Back : b <= y
  <2>. HIDE DEF Back
  <2>1. PICK b \in Back : \A y \in Back : <<y, b>> \notin OpToRel(<, Nat)
    BY <1>2, NatLessThanWellFounded, WFMin, Zenon
  <2>2. \A y \in Back : ~ (y < b)
    BY <1>2, <2>1 DEF OpToRel
  <2>. QED BY <1>2, <2>2
<1>4. PICK r \in stored : b = n - r
  BY <1>3
<1>5. \A s \in stored : s <= r
  <2>. TAKE s \in stored
  <2>1. n - r <= n - s
    BY <1>3, <1>4
  <2>. QED BY <1>1, <2>1
<1>6. \A s \in stored : Started[s] <= Started[r]
  BY <1>5, CollectorsAssumption
<1>7. Newest \in {Started[s] : s \in stored}
  BY <1>6 DEF Newest
<1>. QED BY <1>1, <1>7

LEMMA PlacesTyped ==
  ASSUME TypeOK
  PROVE  /\ \A batch : batch \subseteq Records => Keep(batch) \subseteq Records \ Notices
         /\ Popped \subseteq queued /\ Page \subseteq made
BY DEF TypeOK, Keep, Popped, Page, InWindow

LEMMA TypeStep ==
  ASSUME TypeOK, QueueInv, RowsInv, LettersInv, [Next]_vars
  PROVE  TypeOK'
<1>0. /\ {LastRetry, PageSize} \subseteq Nat \ {0} /\ MaxTime \in Nat /\ Overlap \in Nat
      /\ SourceKinds \subseteq {"cliproxy", "litellm"} /\ Notices \subseteq Records
      /\ 1 \in 1 .. LastRetry
  BY CollectorsAssumption
<1>. USE DEF TypeOK, gateway, queue, poll, tables, health, gone, Fault, Letter
<1>1. CASE Connect
  BY <1>0, <1>1 DEF Connect
<1>2. CASE Store
  <2>1. CASE unsaved = {}
    BY <1>2, <2>1 DEF Store
  <2>2. CASE unsaved # {}
    <3>1. /\ stored' \subseteq Records \ Unreadable
          /\ letters' \subseteq Letter /\ brought' \in Nat
      BY <1>2, <2>2, IngestFiles DEF Store
    <3>. QED BY <1>2, <2>2, <3>1 DEF Store
  <2>. QED BY <2>1, <2>2
<1>3. CASE Count
  BY <1>3 DEF Count
<1>4. CASE Pop
  <2>1. Keep(Popped) \subseteq Records \ Notices /\ queued \ Popped \subseteq Records
    BY PlacesTyped
  <2>. QED BY <1>4, <2>1 DEF Pop
<1>5. ASSUME NEW r \in Records, Take(r) PROVE TypeOK'
  <2>1. Keep({r}) \subseteq Records \ Notices
    BY PlacesTyped
  <2>. QED BY <1>5, <2>1 DEF Take
<1>6. CASE CloseBatch
  BY <1>6 DEF CloseBatch
<1>7. CASE Disconnected
  <2>1. attached' \in BOOLEAN /\ connected' \in BOOLEAN
    BY <1>7, Zenon DEF Disconnected, EndSessionKeeping, EndSession
  <2>. QED BY <1>0, <1>7, <2>1 DEF Disconnected, EndSessionKeeping, EndSession
<1>8. CASE Retry
  BY <1>0, <1>8 DEF Retry
<1>9. CASE Begin
  <2>1. Window \in Int
    BY <1>0, NewestIsAnEvent DEF Window
  <2>. QED BY <1>9, <2>1 DEF Begin
<1>10. CASE Fetch
  <2>1. CASE Page = {}
    BY <1>10, <2>1 DEF Fetch
  <2>2. CASE Page # {}
    <3>1. kind = "litellm"
      BY <1>0, <1>10 DEF Fetch, QueueInv, NoPoll
    <3>2. Page \subseteq Records \ Notices
      BY <3>1, PlacesTyped DEF RowsInv
    <3>3. Ingest(Page)
      BY <1>10, <2>2 DEF Fetch
    <3>4. /\ stored' \subseteq Records \ Unreadable
          /\ letters' \subseteq Letter /\ brought' \in Nat
      BY <1>10, <3>2, <3>3, IngestFiles DEF Fetch
    <3>. QED BY <1>10, <3>4 DEF Fetch
  <2>. QED BY <2>1, <2>2
<1>11. CASE Polled
  BY <1>0, <1>11 DEF Polled
<1>12. CASE Cut
  <2>1. attached' \in BOOLEAN /\ connected' \in BOOLEAN
    BY <1>12, Zenon DEF Cut
  <2>. QED BY <1>0, <1>12, <2>1 DEF Cut
<1>13. CASE SessionFails
  <2>1. attached' \in BOOLEAN /\ connected' \in BOOLEAN
    BY <1>13, Zenon DEF SessionFails, EndSessionKeeping, EndSession
  <2>. QED BY <1>0, <1>13, <2>1 DEF SessionFails, EndSessionKeeping, EndSession
<1>14. CASE PopReplyLost
  <2>1. attached' \in BOOLEAN /\ connected' \in BOOLEAN
    BY <1>14, Zenon DEF PopReplyLost, EndSessionKeeping, EndSession
  <2>. QED BY <1>0, <1>14, <2>1, PlacesTyped DEF PopReplyLost, EndSessionKeeping, EndSession
<1>15. CASE PollFails
  <2>1. attached' \in BOOLEAN /\ connected' \in BOOLEAN
    BY <1>15, Zenon DEF PollFails
  <2>. QED BY <1>0, <1>15, <2>1 DEF PollFails
<1>16. CASE Crash
  <2>1. attached' \in BOOLEAN /\ connected' \in BOOLEAN
    BY <1>16, Zenon DEF Crash
  <2>. QED BY <1>0, <1>16, <2>1 DEF Crash
<1>17. ASSUME NEW r \in Records, Produce(r) PROVE TypeOK'
  BY <1>17 DEF Produce
<1>18. ASSUME NEW r \in Records, Land(r) PROVE TypeOK'
  BY <1>18 DEF Land
<1>19. ASSUME NEW r \in Records, Post(r) PROVE TypeOK'
  <2>1. stored' \subseteq Records \ Unreadable /\ letters' \subseteq Letter
    BY <1>19, PostFiles
  <2>2. /\ pruned' = pruned /\ faults' \in Nat
        /\ UNCHANGED <<gateway, queue, unsaved, pc, after, brought, poll, delay, received, health,
                       now, boot, gone>>
    BY <1>19 DEF Post
  <2>. QED BY <2>1, <2>2
<1>20. CASE Tick
  BY <1>20 DEF Tick
<1>21. CASE UNCHANGED vars
  BY <1>21 DEF vars
<1>22. ASSUME NEW old \in SUBSET letters, Prune(old) PROVE TypeOK'
  BY <1>22 DEF Prune
<1>. QED
  BY <1>1, <1>2, <1>3, <1>4, <1>5, <1>6, <1>7, <1>8, <1>9, <1>10, <1>11, <1>12, <1>13, <1>14,
     <1>15, <1>16, <1>17, <1>18, <1>19, <1>20, <1>21, <1>22
  DEF Next, Session, Poll, Faulty, Outside

LEMMA KindStep ==
  ASSUME [Next]_vars
  PROVE  kind' = kind
BY DEF Next, Session, Poll, Faulty, Outside, vars, gateway, Connect, Store, Count, Pop, Take,
       CloseBatch, Disconnected, Retry, Begin, Fetch, Polled, Cut, SessionFails, PopReplyLost,
       PollFails, Crash, Produce, Land, Post, Prune, Tick, EndSessionKeeping, EndSession

\* A queue record is popped, pushed, kept and filed from one place to the next.
LEMMA QueueStep ==
  ASSUME TypeOK, QueueInv, LettersInv, [Next]_vars
  PROVE  QueueInv'
<1>. DEFINE Once == \A l \in Collected, m \in Collected : l.record = m.record => l = m
            Goal == (NoPoll /\ OffLine /\ OnePlace /\ Once)'
<1>. SUFFICES ASSUME kind = "cliproxy" PROVE Goal
  BY KindStep DEF QueueInv
<1>0. NoPoll /\ OffLine /\ OnePlace /\ Once
  BY DEF QueueInv
<1>s. UNCHANGED <<letters, pruned>> => (Lettered' = Lettered /\ (Once => Once'))
  BY DEF Lettered, Collected
<1>. HIDE DEF Once
<1>. USE DEF gateway, queue, poll, tables, health, gone, NoPoll, OffLine
<1>1. CASE Connect
  BY <1>0, <1>s, <1>1 DEF Connect, OnePlace
<1>2. CASE Store
  <2>1. CASE unsaved = {}
    BY <1>0, <1>s, <1>2, <2>1 DEF Store, OnePlace
  <2>2. CASE unsaved # {}
    <3>1. Ingest(unsaved) /\ unsaved \subseteq Records \ Notices
      BY <1>2, <2>2 DEF Store, TypeOK
    <3>2. Lettered' = Lettered \cup (unsaved \cap Rejected)
      BY <1>2, <3>1, IngestFiles DEF Store
    <3>3. OnePlace'
      BY <1>0, <1>s, <1>2, <2>2, <3>2 DEF Store, OnePlace
    <3>4. Once'
      <4>. DEFINE new == Refused(unsaved, "collector")
      <4>1. Collected' = Collected \cup new
        BY <1>2, <3>1, IngestFiles DEF Store
      <4>2. /\ {l.record : l \in new} = unsaved \cap Unreadable
            /\ \A l, m \in new : l.record = m.record => l = m
        BY <3>1, RefusedAreNew
      <4>3. unsaved \cap Lettered = {}
        BY <1>0 DEF OnePlace
      <4>. HIDE DEF new
      <4>4. \A l \in Collected, m \in new : l.record # m.record
        BY <4>2, <4>3 DEF Lettered
      <4>. QED BY <1>0, <4>1, <4>2, <4>4 DEF Once
    <3>. QED BY <1>0, <1>s, <1>2, <2>2, <3>1, <3>3, <3>4 DEF Store
  <2>. QED BY <2>1, <2>2
<1>3. CASE Count
  BY <1>0, <1>s, <1>3 DEF Count, OnePlace
<1>4. CASE Pop
  <2>1. Popped \subseteq queued /\ Keep(Popped) \subseteq unsaved \cup Popped
    BY DEF Popped, Keep
  <2>. QED BY <1>0, <1>s, <1>4, <2>1 DEF Pop, OnePlace
<1>5. ASSUME NEW r \in Records, Take(r) PROVE Goal
  <2>1. r \in pushed /\ Keep({r}) \subseteq unsaved \cup {r}
    BY <1>5, OldestIsOne DEF Take, Keep, TypeOK
  <2>. QED BY <1>0, <1>s, <1>5, <2>1 DEF Take, OnePlace
<1>6. CASE CloseBatch
  BY <1>0, <1>s, <1>6 DEF CloseBatch, OnePlace
<1>7. CASE Disconnected
  BY <1>0, <1>s, <1>7 DEF Disconnected, EndSessionKeeping, EndSession, OnePlace
<1>8. CASE Retry
  BY <1>0, <1>s, <1>8 DEF Retry, OnePlace
<1>9. CASE Begin \/ Fetch \/ Polled \/ PollFails \/ Tick
  BY <1>0, <1>s, <1>9 DEF Begin, Fetch, Polled, PollFails, Tick
<1>10. CASE Cut
  BY <1>0, <1>s, <1>10 DEF Cut, OnePlace
<1>11. CASE SessionFails
  BY <1>0, <1>s, <1>11 DEF SessionFails, EndSessionKeeping, EndSession, OnePlace
<1>12. CASE PopReplyLost
  <2>1. Popped \subseteq queued
    BY DEF Popped
  <2>. QED BY <1>0, <1>s, <1>12, <2>1
           DEF PopReplyLost, EndSessionKeeping, EndSession, OnePlace
<1>13. CASE Crash
  BY <1>0, <1>s, <1>13 DEF Crash, OnePlace
<1>14. ASSUME NEW r \in Records, Produce(r) PROVE Goal
  <2>1. r \notin made
    BY <1>14, OldestIsOne DEF Produce
  <2>. QED BY <1>0, <1>s, <1>14, <2>1 DEF Produce, OnePlace
<1>15. ASSUME NEW r \in Records, Land(r) PROVE Goal
  BY <1>15 DEF Land
<1>16. ASSUME NEW r \in Records, Post(r) PROVE Goal
  <2>1. Collected' = Collected
    BY <1>16, PostFiles
  <2>2. Lettered' = Lettered /\ Once'
    BY <1>0, <2>1 DEF Lettered, Once
  <2>. QED BY <1>0, <1>16, <2>2 DEF Post, OnePlace
<1>18. ASSUME NEW old \in SUBSET letters, Prune(old) PROVE Goal
  <2>1. Collected' = Collected
    BY <1>18 DEF Prune, Collected
  <2>2. Lettered' = Lettered /\ Once'
    BY <1>0, <2>1 DEF Lettered, Once
  <2>. QED BY <1>0, <1>18, <2>2 DEF Prune, OnePlace
<1>17. CASE UNCHANGED vars
  BY <1>0, <1>s, <1>17 DEF vars, OnePlace
<1>. QED
  BY <1>1, <1>2, <1>3, <1>4, <1>5, <1>6, <1>7, <1>8, <1>9, <1>10, <1>11, <1>12, <1>13, <1>14,
     <1>15, <1>16, <1>17, <1>18
  DEF Next, Session, Poll, Faulty, Outside

LEMMA RowsStep ==
  ASSUME TypeOK, RowsInv, [Next]_vars
  PROVE  RowsInv'
<1>1. made' = made \/ (\E r \in Records : Produce(r) \/ Land(r))
  BY DEF Next, Session, Poll, Faulty, Outside, vars, gateway, Connect, Store, Count, Pop, Take,
         CloseBatch, Disconnected, Retry, Begin, Fetch, Polled, Cut, SessionFails, PopReplyLost,
         PollFails, Crash, Post, Prune, Tick, EndSessionKeeping, EndSession
<1>2. ASSUME NEW r \in Records, Produce(r) PROVE RowsInv'
  BY <1>2 DEF Produce, RowsInv
<1>3. ASSUME NEW r \in Records, Land(r) PROVE RowsInv'
  BY <1>3 DEF Land, RowsInv
<1>. QED BY <1>1, <1>2, <1>3, KindStep DEF RowsInv

\* The tables change by a batch, by a record posted or by a prune, and the count only after
\* them.
LEMMA TablesStep ==
  ASSUME TypeOK, QueueInv, RowsInv, LettersInv, [Next]_vars
  PROVE  \/ \E batch \in SUBSET (Records \ Notices) :
               Ingest(batch) /\ received' = received /\ pruned' = pruned
         \/ \E r \in Records : Post(r)
         \/ /\ Written' = Written /\ stored' = stored
            /\ received' <= (received + brought) - brought'
<1>. USE DEF TypeOK, tables, gone, Written
<1>1. CASE Store
  <2>1. CASE unsaved = {}
    BY <1>1, <2>1 DEF Store
  <2>2. CASE unsaved # {}
    BY <1>1, <2>2 DEF Store
  <2>. QED BY <2>1, <2>2
<1>2. CASE Fetch
  <2>1. CASE Page = {}
    BY <1>2, <2>1 DEF Fetch
  <2>2. CASE Page # {}
    <3>1. kind = "litellm"
      BY <1>2, CollectorsAssumption DEF Fetch, QueueInv, NoPoll
    <3>2. Page \in SUBSET (Records \ Notices)
      BY <3>1, PlacesTyped DEF RowsInv
    <3>3. Ingest(Page) /\ received' = received /\ pruned' = pruned
      BY <1>2, <2>2 DEF Fetch
    <3>. QED BY <3>2, <3>3
  <2>. QED BY <2>1, <2>2
<1>3. CASE Count
  BY <1>3 DEF Count
<1>4. ASSUME NEW old \in SUBSET letters, Prune(old)
      PROVE  UNCHANGED <<Written, stored, received, brought>>
  BY <1>4 DEF Prune
<1>5. CASE Disconnected \/ SessionFails \/ PopReplyLost \/ PollFails \/ Crash
  BY <1>5 DEF Disconnected, SessionFails, PopReplyLost, EndSessionKeeping, EndSession, PollFails,
              Crash
<1>6. CASE Connect \/ Pop \/ CloseBatch \/ Retry \/ Begin \/ Polled \/ Cut \/ Tick
  BY <1>6 DEF Connect, Pop, CloseBatch, Retry, Begin, Polled, Cut, Tick
<1>7. ASSUME NEW r \in Records, Take(r) \/ Produce(r) \/ Land(r)
      PROVE  UNCHANGED <<Written, stored, received, brought>>
  BY <1>7 DEF Take, Produce, Land
<1>8. CASE UNCHANGED vars
  BY <1>8 DEF vars
<1>. QED
  BY <1>1, <1>2, <1>3, <1>4, <1>5, <1>6, <1>7, <1>8 DEF Next, Session, Poll, Faulty, Outside

LEMMA LettersStep ==
  ASSUME TypeOK, QueueInv, RowsInv, LettersInv, [Next]_vars
  PROVE  LettersInv'
<1>1. ASSUME NEW batch \in SUBSET (Records \ Notices), Ingest(batch), pruned' = pruned
      PROVE  LettersInv'
  BY <1>1, RefusingNumbers DEF Ingest
<1>2. ASSUME NEW r \in Records, Post(r) PROVE LettersInv'
  BY <1>2, RefusingNumbers DEF Post, gone
<1>3. CASE Written' = Written
  BY <1>3 DEF LettersInv, Copies, Written
<1>. QED BY <1>1, <1>2, <1>3, TablesStep

\* What is written stays the collector's, and no more.
LEMMA WrittenKeepsCollected ==
  ASSUME Written' = Written
  PROVE  Collected' = Collected
BY DEF Written, Collected

LEMMA FiledOnceStep ==
  ASSUME TypeOK, QueueInv, RowsInv, LettersInv, FiledOnce, [Next]_vars, QueueInv'
  PROVE  FiledOnce'
<1>0. /\ Cardinality(stored) \in Nat /\ IsFiniteSet(stored)
      /\ Cardinality(Collected) \in Nat /\ received \in Nat /\ brought \in Nat
  BY Finite, CollectedFinite DEF TypeOK
<1>1. ASSUME NEW batch \in SUBSET (Records \ Notices), Ingest(batch), received' = received,
             pruned' = pruned
      PROVE  received' + brought' <= Cardinality(stored') + Cardinality(Collected')
  <2>1. /\ brought' \in Nat
        /\ Cardinality(stored') + Cardinality(Collected')
             = Cardinality(stored) + Cardinality(Collected) + brought'
    BY <1>1, IngestFiles
  <2>. QED BY <1>0, <1>1, <2>1 DEF FiledOnce
<1>2. ASSUME Collected' = Collected, stored \subseteq stored', stored' \subseteq Records,
             received' <= (received + brought) - brought', TypeOK'
      PROVE  received' + brought' <= Cardinality(stored') + Cardinality(Collected')
  <2>1. Cardinality(stored') \in Nat /\ IsFiniteSet(stored')
    BY <1>2, Finite
  <2>2. Cardinality(stored) <= Cardinality(stored')
    BY <1>2, <2>1, FS_Subset
  <2>3. received' \in Nat /\ brought' \in Nat
    BY <1>2 DEF TypeOK
  <2>4. received + brought <= Cardinality(stored) + Cardinality(Collected)
    BY DEF FiledOnce
  <2>5. Cardinality(Collected') = Cardinality(Collected)
    BY <1>2
  <2>6. received' <= (received + brought) - brought'
    BY <1>2
  <2>7. PICK r, b, s : r = received' /\ b = brought' /\ s = Cardinality(stored')
    OBVIOUS
  <2>8. r \in Nat /\ b \in Nat /\ s \in Nat /\ r <= (received + brought) - b
        /\ Cardinality(stored) <= s
    BY <2>1, <2>2, <2>3, <2>6, <2>7
  <2>9. r + b <= s + Cardinality(Collected)
    BY <1>0, <2>4, <2>8
  <2>. QED BY <2>5, <2>7, <2>9
<1>3. ASSUME NEW r \in Records, Post(r)
      PROVE  /\ Collected' = Collected /\ stored \subseteq stored' /\ stored' \subseteq Records
             /\ received' <= (received + brought) - brought'
  BY <1>0, <1>3, PostFiles DEF Post
<1>4. ASSUME Written' = Written, stored' = stored
      PROVE  Collected' = Collected /\ stored \subseteq stored' /\ stored' \subseteq Records
  BY <1>4, WrittenKeepsCollected DEF TypeOK
<1>5. received' + brought' <= Cardinality(stored') + Cardinality(Collected')
  BY <1>1, <1>2, <1>3, <1>4, TablesStep, TypeStep
<1>. QED BY <1>5 DEF FiledOnce, QueueInv

\* Nothing is unfiled.
LEMMA FiledStays ==
  ASSUME TypeOK, QueueInv, RowsInv, LettersInv, [Next]_vars
  PROVE  \A r : Filed(r) => Filed(r)'
<1>1. ASSUME NEW batch \in SUBSET (Records \ Notices), Ingest(batch), pruned' = pruned
      PROVE  \A r : Filed(r) => Filed(r)'
  BY <1>1, IngestFiles
<1>2. ASSUME Collected' = Collected, stored \subseteq stored' PROVE \A r : Filed(r) => Filed(r)'
  BY <1>2 DEF Filed
<1>. QED BY <1>1, <1>2, TablesStep, PostFiles, WrittenKeepsCollected

LEMMA VanishStep ==
  ASSUME TypeOK, QueueInv, RowsInv, LettersInv, NothingVanishes, [Next]_vars
  PROVE  NothingVanishes'
<1>. DEFINE Held == queued \cup pushed \cup unsaved \cup lost \cup dropped
<1>. SUFFICES ASSUME kind = "cliproxy", NEW r \in made' \ Notices
              PROVE  Filed(r)' \/ r \in Held'
  BY KindStep DEF NothingVanishes
<1>0. Filed(r) => Filed(r)'
  BY FiledStays
<1>1. r \in made => Filed(r) \/ r \in Held
  BY DEF NothingVanishes
<1>a. NoPoll /\ OffLine
  BY DEF QueueInv
<1>b. \A q : q \in stored => Filed(q)
  BY DEF Filed
<1>. USE DEF gateway, queue, gone, TypeOK
<1>2. ASSUME Filed(r) PROVE Filed(r)' \/ r \in Held'
  BY <1>0, <1>2
<1>3. ASSUME NEW q \in Records, Produce(q) PROVE Filed(r)' \/ r \in Held'
  BY <1>0, <1>1, <1>3 DEF Produce
<1>4. ASSUME NEW q \in Records, Land(q) PROVE Filed(r)' \/ r \in Held'
  BY <1>4 DEF Land
<1>5. CASE Store
  <2>1. CASE unsaved = {}
    BY <1>0, <1>1, <1>5, <2>1 DEF Store
  <2>2. CASE unsaved # {}
    <3>1. \A q \in unsaved : Filed(q)'
      BY <1>5, <2>2, IngestFiles DEF Store
    <3>. QED BY <1>0, <1>1, <1>5, <3>1 DEF Store
  <2>. QED BY <2>1, <2>2
<1>6. CASE Pop
  BY <1>0, <1>1, <1>6 DEF Pop, Keep
<1>7. ASSUME NEW q \in Records, Take(q) PROVE Filed(r)' \/ r \in Held'
  BY <1>0, <1>1, <1>7 DEF Take, Keep
<1>8. CASE Disconnected \/ SessionFails
  BY <1>0, <1>1, <1>8, <1>b DEF Disconnected, SessionFails, EndSessionKeeping, EndSession
<1>9. CASE PopReplyLost
  BY <1>0, <1>1, <1>9, <1>b DEF PopReplyLost, EndSessionKeeping, EndSession
<1>10. CASE Crash
  BY <1>0, <1>1, <1>10, <1>b DEF Crash
<1>11. CASE Connect \/ Cut
  BY <1>0, <1>1, <1>a, <1>11 DEF Connect, Cut, OffLine
<1>12. CASE CloseBatch \/ Retry \/ Count
  BY <1>0, <1>1, <1>12 DEF CloseBatch, Retry, Count
<1>13. CASE Begin \/ Fetch \/ Polled \/ PollFails \/ Tick
  BY <1>a, <1>13 DEF Begin, Fetch, Polled, PollFails, Tick, NoPoll
<1>14. ASSUME NEW q \in Records, Post(q) PROVE Filed(r)' \/ r \in Held'
  BY <1>0, <1>1, <1>14 DEF Post
<1>15. CASE UNCHANGED vars
  BY <1>0, <1>1, <1>15 DEF vars
<1>16. ASSUME NEW old \in SUBSET letters, Prune(old) PROVE Filed(r)' \/ r \in Held'
  BY <1>0, <1>1, <1>16 DEF Prune
<1>. QED
  BY <1>3, <1>4, <1>5, <1>6, <1>7, <1>8, <1>9, <1>10, <1>11, <1>12, <1>13, <1>14, <1>15, <1>16
  DEF Next, Session, Poll, Faulty, Outside

-----------------------------------------------------------------------------
(* Theorems.                                                               *)

LEMMA InitHolds ==
  ASSUME Init
  PROVE  CollectorsInv
<1>1. 1 \in 1 .. LastRetry
  BY CollectorsAssumption
<1>2. TypeOK
  <2>1. attached \in BOOLEAN /\ connected \in BOOLEAN
    BY Zenon DEF Init
  <2>. QED BY <1>1, <2>1 DEF Init, TypeOK
<1>3. QueueInv /\ RowsInv /\ NothingVanishes
  BY DEF Init, QueueInv, NoPoll, OffLine, OnePlace, Lettered, Collected, RowsInv, NothingVanishes
<1>4. LettersInv /\ FiledOnce
  <2>1. IsFiniteSet({}) /\ Cardinality({}) = 0
    BY FS_EmptySet
  <2>2. Init => letters \cup pruned = {} /\ Collected = {}
    BY DEF Init, Collected
  <2>. QED BY <2>1, <2>2 DEF Init, LettersInv, FiledOnce
<1>. QED BY <1>2, <1>3, <1>4 DEF CollectorsInv

\* The records have their types in every reachable state, each of a queue's records is in
\* one place, and the dead letters of one record are numbered.
THEOREM CollectorsInvCorrect == Spec => []CollectorsInv
<1>1. Init => CollectorsInv
  BY InitHolds
<1>2. CollectorsInv /\ [Next]_vars => CollectorsInv'
  <2>. SUFFICES ASSUME CollectorsInv, [Next]_vars PROVE CollectorsInv'
    OBVIOUS
  <2>. USE DEF CollectorsInv
  <2>1. TypeOK'
    BY TypeStep
  <2>2. QueueInv'
    BY QueueStep
  <2>3. RowsInv' /\ LettersInv'
    BY RowsStep, LettersStep
  <2>4. FiledOnce'
    BY <2>2, FiledOnceStep
  <2>5. NothingVanishes'
    BY VanishStep
  <2>. QED BY <2>1, <2>2, <2>3, <2>4, <2>5
<1>. QED BY <1>1, <1>2, PTL DEF Spec

\* The collector dead-letters a record of the queue at most once, and what a source counts
\* was stored or dead-lettered by it, whatever is retried, posted or polled again
\* (usage/ingest.rs, Progress::received).
THEOREM FiledOnceCorrect == Spec => []FiledOnce
<1>1. CollectorsInv => FiledOnce
  BY DEF CollectorsInv
<1>. QED BY <1>1, CollectorsInvCorrect, PTL

\* A queue's record that is not filed waits, or went with a reply, a channel or the process.
THEOREM NothingVanishesCorrect == Spec => []NothingVanishes
<1>1. CollectorsInv => NothingVanishes
  BY DEF CollectorsInv
<1>. QED BY <1>1, CollectorsInvCorrect, PTL

\* Where what is kept goes in a step.
LEMMA KeptStep ==
  ASSUME TypeOK, LettersInv, [Next]_vars, boot' = boot, NEW r \in unsaved
  PROVE  r \in unsaved' \/ Filed(r)'
<1>1. CASE Store
  <2>1. CASE unsaved = {}
    BY <2>1
  <2>2. CASE unsaved # {}
    BY <1>1, <2>2, IngestFiles DEF Store, TypeOK, gone
  <2>. QED BY <2>1, <2>2
<1>2. CASE Pop \/ \E q \in Records : Take(q)
  BY <1>2 DEF Pop, Take, Keep
<1>3. CASE Crash
  BY <1>3 DEF Crash, TypeOK
<1>4. CASE \/ Connect \/ Count \/ CloseBatch \/ Disconnected \/ Retry \/ Begin \/ Fetch \/ Polled
           \/ Cut \/ SessionFails \/ PopReplyLost \/ PollFails \/ Tick
           \/ \E q \in Records : Produce(q) \/ Land(q) \/ Post(q)
           \/ \E old \in SUBSET letters : Prune(old)
  BY <1>4 DEF Connect, Count, CloseBatch, Disconnected, Retry, Begin, Fetch, Polled, Cut,
              SessionFails, PopReplyLost, EndSessionKeeping, PollFails, Tick, Produce, Land, Post,
              Prune
<1>5. CASE UNCHANGED vars
  BY <1>5 DEF vars
<1>. QED BY <1>1, <1>2, <1>3, <1>4, <1>5 DEF Next, Session, Poll, Faulty, Outside

\* What is kept for the next commit leaves with the process alone: a session, a command, a
\* commit or a progress row that fails forgets none of it (cliproxy::Unsaved).
THEOREM KeptUntilFiledCorrect == Spec => KeptUntilFiled
<1>1. CollectorsInv /\ [Next]_vars
      => [boot' = boot => \A r \in unsaved : r \in unsaved' \/ Filed(r)']_vars
  BY KeptStep DEF CollectorsInv
<1>. QED BY <1>1, CollectorsInvCorrect, PTL DEF Spec, KeptUntilFiled
=============================================================================
