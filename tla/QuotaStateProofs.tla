-------------------------- MODULE QuotaStateProofs --------------------------
(* Proofs about QuotaState: a list stored late never removes a credential  *)
(* that a newer one names, and a record that comes late neither brings an  *)
(* exhaustion back nor clears a newer one.                                 *)
EXTENDS QuotaState, TLAPS

-----------------------------------------------------------------------------
(* One row *)

\* observe() of a listed entry leaves a row, stamps it no earlier, and only at the list's
\* instant; a list no older than the row takes the removal back.
LEMMA ObserveRow ==
  ASSUME NEW c \in CredentialRow \cup {None}, NEW entry \in {"on", "off"}, NEW at \in 0..MaxTime
  PROVE  LET o == Observe(c, entry, at)
         IN /\ o \in CredentialRow
            /\ c = None \/ at >= c.soft => o.soft = at /\ o.removed = None
            /\ ~(c = None \/ at >= c.soft) => o = c
<1>1. CASE c = None
  BY <1>1 DEF Observe, CredentialRow
<1>2. CASE c # None
  <2>1. c \in CredentialRow /\ c.soft \in 0..MaxTime
    BY <1>2 DEF CredentialRow
  <2>2. CASE at >= c.soft
    <3>1. Observe(c, entry, at) = [c EXCEPT !.soft = at, !.removed = None, !.off = (entry = "off")]
      BY <1>2, <2>2 DEF Observe
    <3>. QED BY <1>2, <2>1, <2>2, <3>1 DEF CredentialRow
  <2>3. CASE ~(at >= c.soft)
    <3>1. Observe(c, entry, at) = c
      BY <1>2, <2>3 DEF Observe
    <3>. QED BY <1>2, <2>1, <2>3, <3>1
  <2>. QED BY <2>2, <2>3
<1>. QED BY <1>1, <1>2

\* mark_unlisted() keeps the stamp, and leaves a row stamped by the list alone.
LEMMA MarkRow ==
  ASSUME NEW c \in CredentialRow \cup {None}, NEW at \in 0..MaxTime
  PROVE  LET m == MarkUnlisted(c, at)
         IN /\ m \in CredentialRow \cup {None}
            /\ (m = None) <=> (c = None)
            /\ c # None => m.soft = c.soft
            /\ c # None /\ at <= c.soft => m = c
<1>1. CASE c = None
  BY <1>1 DEF MarkUnlisted
<1>2. CASE c # None
  <2>1. c \in CredentialRow /\ c.soft \in 0..MaxTime
    BY <1>2 DEF CredentialRow
  <2>2. CASE c.removed = None /\ c.soft < at
    <3>1. MarkUnlisted(c, at) = [c EXCEPT !.removed = at]
      BY <1>2, <2>2 DEF MarkUnlisted
    <3>2. MarkUnlisted(c, at) \in CredentialRow /\ MarkUnlisted(c, at).soft = c.soft
      BY <2>1, <3>1 DEF CredentialRow
    <3>. QED BY <1>2, <2>1, <2>2, <3>2, QuotaStateAssumption
  <2>3. CASE ~(c.removed = None /\ c.soft < at)
    <3>1. MarkUnlisted(c, at) = c
      BY <2>3 DEF MarkUnlisted
    <3>. QED BY <1>2, <2>1, <3>1
  <2>. QED BY <2>2, <2>3
<1>. QED BY <1>1, <1>2

\* refreshed() touches neither the stamp nor the mark.
LEMMA RefreshedRow ==
  ASSUME NEW c \in CredentialRow, NEW result
  PROVE  /\ Refreshed(c, result) \in CredentialRow
         /\ Refreshed(c, result).soft = c.soft
         /\ Refreshed(c, result).removed = c.removed
<1>1. (IF result = "ok" THEN FALSE ELSE c.signIn \/ result = "expired") \in BOOLEAN
  OBVIOUS
<1>. DEFINE signIn == IF result = "ok" THEN FALSE ELSE c.signIn \/ result = "expired"
<1>2. Refreshed(c, result) = [c EXCEPT !.signIn = signIn]
  BY Zenon DEF Refreshed
<1>. HIDE DEF signIn
<1>. QED BY <1>1, <1>2 DEF CredentialRow, signIn

-----------------------------------------------------------------------------
(* A list *)

\* The history after a list is stored.
Newest(list) ==
  IF list.at > latest.at THEN [at |-> list.at, named |-> DOMAIN list.named]
  ELSE IF list.at = latest.at THEN [latest EXCEPT !.named = @ \cup DOMAIN list.named]
  ELSE latest

\* What one list makes of one row.
LEMMA StoredRow ==
  ASSUME RowsOK, NEW list \in Lists, NEW a \in Accounts
  PROVE  LET c == credential[a]
             n == Stored(list)[a]
         IN /\ n \in CredentialRow \cup {None}
            /\ c # None \/ a \in DOMAIN list.named => n # None
            /\ a \in DOMAIN list.named /\ (c = None \/ list.at >= c.soft)
                 => n.soft = list.at /\ n.removed = None
            /\ c # None /\ a \notin DOMAIN list.named => n.soft = c.soft
            /\ c = None /\ a \notin DOMAIN list.named => n = None
            /\ c # None /\ list.at < c.soft => n = c
            /\ c # None /\ list.at = c.soft /\ a \notin DOMAIN list.named => n = c
<1>. DEFINE observed == [b \in Accounts |->
               IF b \in DOMAIN list.named THEN Observe(credential[b], list.named[b], list.at)
               ELSE credential[b]]
            c == credential[a]
            o == observed[a]
            n == Stored(list)[a]
<1>1. /\ c \in CredentialRow \cup {None} /\ list.at \in 0..MaxTime
      /\ a \in DOMAIN list.named => list.named[a] \in {"on", "off"}
      /\ c # None => c.soft \in 0..MaxTime
  BY DEF RowsOK, Lists, CredentialRow
<1>2. n = IF list.whole THEN MarkUnlisted(o, list.at) ELSE o
  BY DEF Stored
<1>3. o = IF a \in DOMAIN list.named THEN Observe(c, list.named[a], list.at) ELSE c
  OBVIOUS
<1>. HIDE DEF n, o, c, observed
<1>4. CASE a \in DOMAIN list.named
  <2>1. /\ o \in CredentialRow /\ o # None
        /\ c = None \/ list.at >= c.soft => o.soft = list.at /\ o.removed = None
        /\ ~(c = None \/ list.at >= c.soft) => o = c
    <3>. DEFINE entry == list.named[a]
    <3>1. entry \in {"on", "off"} /\ o = Observe(c, entry, list.at)
      BY <1>1, <1>3, <1>4
    <3>. HIDE DEF entry
    <3>2. /\ o \in CredentialRow
          /\ c = None \/ list.at >= c.soft => o.soft = list.at /\ o.removed = None
          /\ ~(c = None \/ list.at >= c.soft) => o = c
      BY <1>1, <3>1, ObserveRow
    <3>3. o # None
      BY <3>2, QuotaStateAssumption
    <3>. QED BY <3>2, <3>3
  <2>2. o.soft \in 0..MaxTime
    BY <2>1 DEF CredentialRow
  <2>3. list.at <= o.soft
    BY <1>1, <2>1, <2>2
  <2>4. n = o
    BY <1>1, <1>2, <2>1, <2>3, MarkRow
  <2>. QED BY <1>1, <1>4, <2>1, <2>4 DEF c, n
<1>5. CASE a \notin DOMAIN list.named
  <2>1. o = c
    BY <1>3, <1>5
  <2>. QED BY <1>1, <1>2, <1>5, <2>1, MarkRow DEF c, n
<1>. QED BY <1>4, <1>5

\* Whatever was stored before, a list keeps the stamps in order.
LEMMA StoredStamps ==
  ASSUME RowsOK, StampsOK, NEW list \in Lists,
         credential' = Stored(list), latest' = Newest(list)
  PROVE  /\ credential' \in [Accounts -> CredentialRow \cup {None}]
         /\ latest' \in [at : 0..MaxTime, named : SUBSET Accounts]
         /\ \A a \in Accounts : credential[a] # None \/ a \in DOMAIN list.named => credential'[a] # None
         /\ StampsOK'
<1>1. /\ list.at \in 0..MaxTime /\ DOMAIN list.named \subseteq Accounts
      /\ latest.at \in 0..MaxTime /\ latest.named \subseteq Accounts
  BY DEF RowsOK, Lists
<1>2. credential' \in [Accounts -> CredentialRow \cup {None}]
  <2>1. \A a \in Accounts : Stored(list)[a] \in CredentialRow \cup {None}
    BY StoredRow
  <2>2. Stored(list) = [a \in Accounts |-> Stored(list)[a]]
    BY DEF Stored
  <2>. QED BY <2>1, <2>2
<1>3. /\ latest'.at = IF list.at > latest.at THEN list.at ELSE latest.at
      /\ latest'.named = IF list.at > latest.at THEN DOMAIN list.named
                         ELSE IF list.at = latest.at THEN latest.named \cup DOMAIN list.named
                         ELSE latest.named
      /\ latest' \in [at : 0..MaxTime, named : SUBSET Accounts]
  <2>1. latest \in [at : 0..MaxTime, named : SUBSET Accounts]
    BY DEF RowsOK
  <2>2. CASE list.at = latest.at
    <3>. DEFINE union == latest.named \cup DOMAIN list.named
    <3>1. latest' = [latest EXCEPT !.named = union]
      BY <1>1, <2>2 DEF Newest
    <3>2. union \in SUBSET Accounts
      BY <1>1
    <3>. QED BY <1>1, <2>1, <2>2, <3>1, <3>2
  <2>3. CASE list.at # latest.at
    BY <1>1, <2>1, <2>3 DEF Newest
  <2>. QED BY <2>2, <2>3
<1>4. \A a \in Accounts : credential[a] # None \/ a \in DOMAIN list.named => credential'[a] # None
  BY StoredRow
<1>5. ASSUME NEW a \in Accounts, credential'[a] # None
      PROVE  credential'[a].soft <= latest'.at
  <2>1. CASE credential[a] = None
    <3>1. credential'[a].soft = list.at
      BY <1>5, <2>1, StoredRow
    <3>. QED BY <1>1, <1>3, <3>1
  <2>2. CASE credential[a] # None
    <3>1. credential[a].soft <= latest.at /\ credential[a].soft \in 0..MaxTime
      BY <2>2 DEF StampsOK, RowsOK, CredentialRow
    <3>2. credential'[a].soft \in {list.at, credential[a].soft}
      BY <1>1, <2>2, <3>1, StoredRow
    <3>. QED BY <1>1, <1>3, <3>1, <3>2
  <2>. QED BY <2>1, <2>2
<1>6. ASSUME NEW a \in latest'.named
      PROVE  /\ credential'[a] # None /\ credential'[a].soft = latest'.at
             /\ credential'[a].removed = None
  <2>1. a \in Accounts
    BY <1>3
  <2>2. credential[a] # None => credential[a].soft <= latest.at /\ credential[a].soft \in 0..MaxTime
    BY <2>1 DEF StampsOK, RowsOK, CredentialRow
  <2>3. CASE a \in DOMAIN list.named /\ list.at >= latest.at
    <3>1. credential[a] = None \/ list.at >= credential[a].soft
      BY <1>1, <2>2, <2>3
    <3>2. list.at = latest'.at
      BY <1>1, <1>3, <2>3
    <3>. QED BY <2>1, <2>3, <3>1, <3>2, StoredRow
  <2>4. CASE ~(a \in DOMAIN list.named /\ list.at >= latest.at)
    <3>1. a \in latest.named /\ list.at <= latest.at /\ latest'.at = latest.at
      BY <1>1, <1>3, <1>6, <2>4
    <3>2. /\ credential[a] # None /\ credential[a].soft = latest.at
          /\ credential[a].removed = None
      BY <3>1 DEF StampsOK
    <3>3. credential'[a] = credential[a]
      BY <1>1, <2>1, <2>2, <2>4, <3>1, <3>2, StoredRow
    <3>. QED BY <3>1, <3>2, <3>3
  <2>. QED BY <2>3, <2>4
<1>. QED BY <1>2, <1>3, <1>4, <1>5, <1>6 DEF StampsOK

-----------------------------------------------------------------------------
(* A record of a Meta credential *)

\* Records carry instants.
LEMMA RecordTypes ==
  ASSUME NEW r \in Records
  PROVE  r.at \in Nat /\ r.failed \in BOOLEAN /\ r.resets \in Nat
BY QuotaStateAssumption

\* observe() puts the marker the newest record calls for, or leaves it as the newest left it.
LEMMA EvidenceKeeps ==
  ASSUME now \in 0..MaxTime, MarkerOK, EvidenceIsNewest,
         NEW r \in Records, r \notin arrived, r.at <= now,
         marker' = Evidence(r), arrived' = arrived \cup {r}, now' = now
  PROVE  MarkerOK' /\ EvidenceIsNewest'
<1>1. r.at \in Nat /\ r.failed \in BOOLEAN /\ r.resets \in Nat /\ now \in Nat
  BY RecordTypes, QuotaStateAssumption
<1>. DEFINE told == [at |-> r.at, resets |-> r.resets]
<1>2. told.at = r.at /\ told.resets = r.resets
  OBVIOUS
<1>3. told # None
  <2>1. r.at \in 0..MaxTime /\ r.resets \in {x.resets : x \in Records}
    BY <1>1, QuotaStateAssumption
  <2>2. told \in MarkerRow
    BY <2>1 DEF MarkerRow
  <2>. QED BY <2>2, QuotaStateAssumption
<1>4. marker # None =>
        \E s \in arrived : s.failed /\ marker = [at |-> s.at, resets |-> s.resets]
  BY DEF MarkerOK
<1>5. \A s \in arrived : s \in Records /\ s.at \in Nat /\ s.failed \in BOOLEAN /\ s.resets \in Nat
  BY RecordTypes DEF MarkerOK
<1>6. marker' = IF (r.failed /\ r.resets <= now) \/ Newer(r) THEN marker
                ELSE IF r.failed
                THEN IF marker = None \/ r.at >= marker.at THEN told ELSE marker
                ELSE IF marker # None /\ marker.at <= r.at THEN None ELSE marker
  BY DEF Evidence
<1>. HIDE DEF told
<1>7. MarkerOK'
  <2>1. arrived' \subseteq {s \in Records : s.at <= now'}
    BY DEF MarkerOK
  <2>2. ASSUME marker' # None
        PROVE  \E s \in arrived' : s.failed /\ marker' = [at |-> s.at, resets |-> s.resets]
    <3>1. CASE marker' = told /\ r.failed
      BY <3>1 DEF told
    <3>2. CASE marker' = marker
      BY <1>4, <2>2, <3>2
    <3>. QED BY <1>1, <1>6, <2>2, <3>1, <3>2
  <2>. QED BY <2>1, <2>2 DEF MarkerOK
<1>8. ASSUME NEW q \in arrived', \A s \in arrived' \ {q} : s.at < q.at
      PROVE  IF q.failed THEN q.resets > now => marker' = [at |-> q.at, resets |-> q.resets]
             ELSE marker' = None
  <2>1. CASE q = r
    <3>1. ~Newer(r)
      BY <1>1, <1>5, <1>8, <2>1 DEF Newer
    <3>2. marker # None => marker.at \in Nat /\ marker.at < r.at
      BY <1>4, <1>5, <1>8, <2>1
    <3>3. CASE r.failed /\ r.resets > now
      <4>1. marker' = told
        BY <1>1, <1>6, <3>1, <3>2, <3>3
      <4>. QED BY <2>1, <3>3, <4>1 DEF told
    <3>4. CASE r.failed /\ ~(r.resets > now)
      BY <2>1, <3>4
    <3>5. CASE ~r.failed
      <4>1. marker' = None
        BY <1>1, <1>6, <3>1, <3>2, <3>5
      <4>. QED BY <2>1, <3>5, <4>1
    <3>. QED BY <3>3, <3>4, <3>5
  <2>2. CASE q # r
    <3>1. q \in arrived /\ r.at < q.at /\ \A s \in arrived \ {q} : s.at < q.at
      BY <1>8, <2>2
    <3>2. IF q.failed THEN q.resets > now => marker = [at |-> q.at, resets |-> q.resets]
          ELSE marker = None
      BY <3>1 DEF EvidenceIsNewest
    <3>3. CASE q.failed /\ q.resets > now
      <4>1. marker = [at |-> q.at, resets |-> q.resets] /\ marker.at = q.at
        BY <3>2, <3>3
      <4>2. marker # None
        <5>1. q.at \in 0..MaxTime /\ q.resets \in {x.resets : x \in Records}
          BY <1>5, <3>1, QuotaStateAssumption DEF MarkerOK
        <5>2. marker \in MarkerRow
          BY <4>1, <5>1 DEF MarkerRow
        <5>. QED BY <5>2, QuotaStateAssumption
      <4>3. marker' = marker
        BY <1>1, <1>5, <1>6, <3>1, <4>1, <4>2
      <4>. QED BY <3>3, <4>1, <4>3
    <3>4. CASE q.failed /\ ~(q.resets > now)
      BY <3>4
    <3>5. CASE ~q.failed
      <4>1. Newer(r) /\ marker = None
        BY <3>1, <3>2, <3>5 DEF Newer
      <4>2. marker' = None
        BY <1>6, <4>1
      <4>. QED BY <3>5, <4>2
    <3>. QED BY <3>3, <3>4, <3>5
  <2>. QED BY <2>1, <2>2
<1>9. EvidenceIsNewest'
  BY <1>8 DEF EvidenceIsNewest
<1>. QED BY <1>7, <1>9

\* An expired marker goes; the newest record called for none any more.
LEMMA ExpireKeeps ==
  ASSUME now \in 0..MaxTime, MarkerOK, EvidenceIsNewest, Expire
  PROVE  MarkerOK' /\ EvidenceIsNewest'
<1>1. marker # None /\ marker.resets <= now /\ marker' = None /\ arrived' = arrived /\ now' = now
  BY DEF Expire
<1>2. MarkerOK'
  BY <1>1 DEF MarkerOK
<1>3. ASSUME NEW q \in arrived, \A s \in arrived \ {q} : s.at < q.at
      PROVE  ~(q.failed /\ q.resets > now)
  <2>1. q.resets \in Nat /\ now \in Nat
    BY RecordTypes, QuotaStateAssumption DEF MarkerOK
  <2>. SUFFICES ASSUME q.failed, q.resets > now PROVE FALSE
    OBVIOUS
  <2>2. marker = [at |-> q.at, resets |-> q.resets]
    BY <1>3 DEF EvidenceIsNewest
  <2>3. marker.resets = q.resets
    BY <2>2
  <2>. QED BY <1>1, <2>1, <2>3
<1>4. EvidenceIsNewest'
  BY <1>1, <1>3 DEF EvidenceIsNewest
<1>. QED BY <1>2, <1>4

\* Time alone calls for no other marker.
LEMMA TimeKeeps ==
  ASSUME now \in 0..MaxTime, now' \in 0..MaxTime, now <= now', MarkerOK, EvidenceIsNewest,
         marker' = marker, arrived' = arrived
  PROVE  MarkerOK' /\ EvidenceIsNewest'
<1>1. \A s \in arrived : s.at \in Nat /\ s.resets \in Nat /\ s.at <= now
  BY RecordTypes DEF MarkerOK
<1>2. now \in Nat /\ now' \in Nat
  BY QuotaStateAssumption
<1>3. \A s \in arrived : s.at <= now' /\ (s.resets > now' => s.resets > now)
  BY <1>1, <1>2
<1>4. MarkerOK'
  BY <1>3 DEF MarkerOK
<1>5. EvidenceIsNewest'
  BY <1>3 DEF EvidenceIsNewest
<1>. QED BY <1>4, <1>5

-----------------------------------------------------------------------------
(* The invariant *)

QuotaStateInv == RowsOK /\ StampsOK /\ MarkerOK /\ EvidenceIsNewest

\* What a step that leaves the rows and the markers alone must still show.
LEMMA OnTheWay ==
  ASSUME QuotaStateInv, now' = now, UNCHANGED <<credential, latest, marker, arrived>>,
         gateway' \in [Accounts -> [entry : Entries, valid : BOOLEAN]],
         listing' \in [Syncers -> Lists \cup {None}], job' \in Jobs,
         job'.at \in {"fetch", "record"} =>
           job'.account \in Accounts /\ credential[job'.account] # None
  PROVE  QuotaStateInv'
<1>1. RowsOK'
  BY DEF QuotaStateInv, RowsOK
<1>2. StampsOK'
  BY DEF QuotaStateInv, StampsOK
<1>3. MarkerOK' /\ EvidenceIsNewest'
  BY DEF QuotaStateInv, MarkerOK, EvidenceIsNewest
<1>. QED BY <1>1, <1>2, <1>3 DEF QuotaStateInv

\* A refresh that begins, or that has its answer, is a job.
LEMMA JobBegins ==
  ASSUME NEW a \in Accounts
  PROVE  /\ [Idle EXCEPT !.at = "list", !.account = a] \in Jobs
         /\ [Idle EXCEPT !.at = "list", !.account = a].at = "list"
         /\ [Idle EXCEPT !.at = "list", !.account = a, !.automatic = TRUE] \in Jobs
         /\ [Idle EXCEPT !.at = "list", !.account = a, !.automatic = TRUE].at = "list"
<1>. DEFINE j1 == [Idle EXCEPT !.at = "list"]
            j2 == [j1 EXCEPT !.account = a]
            j3 == [j2 EXCEPT !.automatic = TRUE]
<1>1. Idle \in Jobs
  BY DEF Idle, Jobs
<1>2. j1 \in Jobs /\ j1.at = "list"
  BY <1>1 DEF Jobs
<1>. HIDE DEF j1
<1>3. j2 \in Jobs /\ j2.at = "list"
  BY <1>2 DEF Jobs
<1>4. j2 = [Idle EXCEPT !.at = "list", !.account = a]
  BY Zenon DEF j1
<1>. HIDE DEF j2
<1>5. j3 \in Jobs /\ j3.at = "list"
  BY <1>3 DEF Jobs
<1>6. j3 = [Idle EXCEPT !.at = "list", !.account = a, !.automatic = TRUE]
  BY Zenon DEF j1, j2
<1>. HIDE DEF j3
<1>. QED BY <1>3, <1>4, <1>5, <1>6, Zenon

\* The answer of a provider keeps the job's account.
LEMMA JobAnswered ==
  ASSUME NEW j \in Jobs, NEW result \in {"ok", "expired", "failed"}
  PROVE  LET k == [j EXCEPT !.at = "record", !.result = result]
         IN k \in Jobs /\ k.account = j.account
<1>. DEFINE j1 == [j EXCEPT !.at = "record"]
            k == [j1 EXCEPT !.result = result]
<1>1. j1 \in Jobs /\ j1.account = j.account
  BY DEF Jobs
<1>. HIDE DEF j1
<1>2. k \in Jobs /\ k.account = j.account
  BY <1>1 DEF Jobs
<1>3. k = [j EXCEPT !.at = "record", !.result = result]
  BY Zenon DEF j1
<1>. HIDE DEF k
<1>. QED BY <1>2, <1>3, Zenon

\* A list holds entries of this source, whole or in part.
LEMMA ReadKeeps ==
  ASSUME QuotaStateInv, NEW s \in Syncers, ReadWhole(s) \/ ReadPartly(s)
  PROVE  QuotaStateInv'
<1>1. ASSUME NEW S \in SUBSET Listed, NEW whole \in BOOLEAN
      PROVE  [at |-> now, named |-> [a \in S |-> gateway[a].entry], whole |-> whole] \in Lists
  <2>. DEFINE named == [a \in S |-> gateway[a].entry]
  <2>1. \A a \in S : a \in Accounts /\ gateway[a].entry \in {"on", "off"}
    BY DEF QuotaStateInv, RowsOK, Listed, Entries
  <2>2. named \in [S -> {"on", "off"}] /\ S \in SUBSET Accounts
    BY <2>1
  <2>. HIDE DEF named
  <2>3. named \in UNION {[T -> {"on", "off"}] : T \in SUBSET Accounts}
    BY <2>2
  <2>4. now \in 0..MaxTime
    BY DEF QuotaStateInv, RowsOK
  <2>. QED BY <2>3, <2>4 DEF Lists, named
<1>2. PICK list \in Lists : listing' = [listing EXCEPT ![s] = list]
  <2>1. CASE ReadWhole(s)
    <3>1. Listed \in SUBSET Listed
      OBVIOUS
    <3>. QED BY <1>1, <2>1, <3>1, Zenon DEF ReadWhole
  <2>2. CASE ReadPartly(s)
    <3>1. PICK skipped \in Listed : listing' = [listing EXCEPT ![s] =
             [at |-> now, named |-> [a \in Listed \ {skipped} |-> gateway[a].entry],
              whole |-> FALSE]]
      BY <2>2, Zenon DEF ReadPartly
    <3>2. Listed \ {skipped} \in SUBSET Listed
      OBVIOUS
    <3>. QED BY <1>1, <3>1, <3>2, Zenon
  <2>. QED BY <2>1, <2>2
<1>3. listing' \in [Syncers -> Lists \cup {None}]
  BY <1>2 DEF QuotaStateInv, RowsOK
<1>4. now' = now /\ UNCHANGED <<gateway, credential, latest, marker, arrived, job>>
  BY DEF ReadWhole, ReadPartly
<1>. QED BY <1>3, <1>4, OnTheWay DEF QuotaStateInv, RowsOK

\* A list is stored, by whichever task read it.
LEMMA StoreListKeeps ==
  ASSUME QuotaStateInv, NEW s \in Syncers, StoreList(s)
  PROVE  QuotaStateInv'
<1>. DEFINE list == listing[s]
<1>1. list \in Lists
  BY DEF StoreList, QuotaStateInv, RowsOK
<1>2. /\ credential' = Stored(list) /\ latest' = Newest(list)
      /\ job' = IF s = "refresh" THEN Targeted(list) ELSE job
  BY Zenon DEF StoreList, Newest
<1>3. /\ listing' = [listing EXCEPT ![s] = None]
      /\ now' = now /\ UNCHANGED <<gateway, marker, arrived>>
  BY DEF StoreList
<1>. HIDE DEF list
<1>4. /\ credential' \in [Accounts -> CredentialRow \cup {None}]
      /\ latest' \in [at : 0..MaxTime, named : SUBSET Accounts]
      /\ \A a \in Accounts : credential[a] # None \/ a \in DOMAIN list.named => credential'[a] # None
      /\ StampsOK'
  BY <1>1, <1>2, StoredStamps DEF QuotaStateInv
<1>5. job' \in Jobs /\ (job'.at \in {"fetch", "record"} =>
        job'.account \in Accounts /\ credential'[job'.account] # None)
  <2>1. CASE s = "refresh" /\ job.account \in DOMAIN list.named
    <3>1. job' = [job EXCEPT !.at = "fetch"]
      BY <1>2, <2>1 DEF Targeted
    <3>2. job' \in Jobs /\ job'.account = job.account
      BY <3>1 DEF QuotaStateInv, RowsOK, Jobs
    <3>3. job.account \in Accounts
      BY <1>1, <2>1 DEF Lists
    <3>. QED BY <1>4, <2>1, <3>2, <3>3
  <2>2. CASE s = "refresh" /\ job.account \notin DOMAIN list.named
    <3>1. job' = Idle
      BY <1>2, <2>2 DEF Targeted
    <3>. QED BY <3>1 DEF Idle, Jobs
  <2>3. CASE s # "refresh"
    BY <1>2, <1>4, <2>3 DEF QuotaStateInv, RowsOK
  <2>. QED BY <2>1, <2>2, <2>3
<1>6. listing' \in [Syncers -> Lists \cup {None}]
  BY <1>3 DEF QuotaStateInv, RowsOK
<1>7. RowsOK'
  BY <1>3, <1>4, <1>5, <1>6 DEF QuotaStateInv, RowsOK
<1>8. MarkerOK' /\ EvidenceIsNewest'
  BY <1>3 DEF QuotaStateInv, MarkerOK, EvidenceIsNewest
<1>. QED BY <1>4, <1>7, <1>8 DEF QuotaStateInv

\* A list that cannot be read changes nothing stored.
LEMMA ListFailsKeeps ==
  ASSUME QuotaStateInv, NEW s \in Syncers, ListFails(s)
  PROVE  QuotaStateInv'
<1>1. /\ listing' = [listing EXCEPT ![s] = None] /\ job' \in {Idle, job}
      /\ now' = now /\ UNCHANGED <<gateway, credential, latest, marker, arrived>>
  BY DEF ListFails
<1>2. listing' \in [Syncers -> Lists \cup {None}]
  BY <1>1 DEF QuotaStateInv, RowsOK
<1>3. Idle \in Jobs /\ Idle.at = "idle"
  BY DEF Idle, Jobs
<1>4. job' \in Jobs /\ (job'.at \in {"fetch", "record"} =>
        job'.account \in Accounts /\ credential[job'.account] # None)
  BY <1>1, <1>3 DEF QuotaStateInv, RowsOK
<1>. QED BY <1>1, <1>2, <1>4, OnTheWay DEF QuotaStateInv, RowsOK

\* Claims, deadlines and people only start a job.
LEMMA AskKeeps ==
  ASSUME QuotaStateInv, NEW a \in Accounts, NotDue(a) \/ ClaimDue(a) \/ Ask(a)
  PROVE  QuotaStateInv'
<1>1. now' = now /\ UNCHANGED <<gateway, listing, credential, latest, marker, arrived>>
  BY DEF NotDue, ClaimDue, Ask
<1>2. job' = job \/ (job' \in Jobs /\ job'.at = "list")
  <2>1. ClaimDue(a) => job' = [Idle EXCEPT !.at = "list", !.account = a, !.automatic = TRUE]
    BY Zenon DEF ClaimDue
  <2>2. Ask(a) => job' = [Idle EXCEPT !.at = "list", !.account = a]
    BY Zenon DEF Ask
  <2>3. NotDue(a) => job' = job
    BY DEF NotDue
  <2>. QED BY <2>1, <2>2, <2>3, JobBegins, Zenon
<1>3. job' \in Jobs /\ (job'.at \in {"fetch", "record"} =>
        job'.account \in Accounts /\ credential[job'.account] # None)
  BY <1>2 DEF QuotaStateInv, RowsOK
<1>. QED BY <1>1, <1>3, OnTheWay DEF QuotaStateInv, RowsOK

\* The provider answers, or does not.
LEMMA FetchKeeps ==
  ASSUME QuotaStateInv, Fetch
  PROVE  QuotaStateInv'
<1>1. now' = now /\ UNCHANGED <<gateway, listing, credential, latest, marker, arrived>>
  BY DEF Fetch
<1>2. job.at = "fetch"
  BY DEF Fetch
<1>3. PICK result \in {"ok", "expired", "failed"} :
        job' = [job EXCEPT !.at = "record", !.result = result]
  BY Zenon DEF Fetch
<1>4. job \in Jobs /\ job.account \in Accounts /\ credential[job.account] # None
  BY <1>2 DEF QuotaStateInv, RowsOK
<1>5. job' \in Jobs /\ job'.account = job.account
  BY <1>3, <1>4, JobAnswered, Zenon
<1>6. job'.at \in {"fetch", "record"} => job'.account \in Accounts /\ credential[job'.account] # None
  BY <1>4, <1>5
<1>. QED BY <1>1, <1>5, <1>6, OnTheWay DEF QuotaStateInv, RowsOK

\* Recording an answer changes the sign-in error alone, and keeps the marker.
LEMMA RecordKeeps ==
  ASSUME QuotaStateInv, Record
  PROVE  QuotaStateInv'
<1>. DEFINE a == job.account
            row == Refreshed(credential[a], job.result)
<1>1. a \in Accounts /\ credential[a] # None /\ credential[a] \in CredentialRow
  BY DEF Record, QuotaStateInv, RowsOK
<1>2. /\ credential' = [credential EXCEPT ![a] = row]
      /\ marker' = marker /\ job' = Idle
      /\ now' = now /\ UNCHANGED <<gateway, listing, latest, arrived>>
  BY DEF Record, Replaced
<1>3. row \in CredentialRow /\ row.soft = credential[a].soft /\ row.removed = credential[a].removed
  BY <1>1, RefreshedRow
<1>4. row # None
  BY <1>3, QuotaStateAssumption
<1>. HIDE DEF a, row
<1>5. credential' \in [Accounts -> CredentialRow \cup {None}]
  BY <1>2, <1>3 DEF QuotaStateInv, RowsOK
<1>6. ASSUME NEW b \in Accounts
      PROVE  /\ (credential'[b] = None) <=> (credential[b] = None)
             /\ credential[b] # None => credential'[b].soft = credential[b].soft
             /\ credential[b] # None => credential'[b].removed = credential[b].removed
  <2>1. credential'[b] = IF b = a THEN row ELSE credential[b]
    BY <1>1, <1>2 DEF QuotaStateInv, RowsOK
  <2>. QED BY <1>1, <1>3, <1>4, <2>1
<1>7. job' \in Jobs /\ job'.at = "idle"
  BY <1>2 DEF Idle, Jobs
<1>8. RowsOK'
  BY <1>2, <1>5, <1>7 DEF QuotaStateInv, RowsOK
<1>9. StampsOK'
  <2>1. latest.named \subseteq Accounts
    BY DEF QuotaStateInv, RowsOK
  <2>2. latest' = latest
    BY <1>2
  <2>3. ASSUME NEW b \in Accounts, credential'[b] # None
        PROVE  credential'[b].soft <= latest'.at
    <3>1. credential[b] # None /\ credential[b].soft <= latest.at
      BY <1>6, <2>3 DEF QuotaStateInv, StampsOK
    <3>2. credential'[b].soft = credential[b].soft
      BY <1>6, <3>1
    <3>. QED BY <2>2, <3>1, <3>2
  <2>4. ASSUME NEW b \in latest'.named
        PROVE  /\ credential'[b] # None /\ credential'[b].soft = latest'.at
               /\ credential'[b].removed = None
    <3>1. b \in Accounts /\ b \in latest.named
      BY <2>1, <2>2
    <3>2. /\ credential[b] # None /\ credential[b].soft = latest.at
          /\ credential[b].removed = None
      BY <3>1 DEF QuotaStateInv, StampsOK
    <3>. QED BY <1>6, <2>2, <3>1, <3>2
  <2>. QED BY <2>3, <2>4 DEF StampsOK
<1>10. MarkerOK' /\ EvidenceIsNewest'
  BY <1>2 DEF QuotaStateInv, MarkerOK, EvidenceIsNewest
<1>. QED BY <1>8, <1>9, <1>10 DEF QuotaStateInv

\* Records, expiry and time leave the credentials alone.
LEMMA EvidenceStepKeeps ==
  ASSUME QuotaStateInv, (\E r \in Records : Ingest(r)) \/ Expire \/ Tick
  PROVE  QuotaStateInv'
<1>1. UNCHANGED <<gateway, listing, credential, latest, job>>
  BY DEF Ingest, Expire, Tick
<1>2. now \in 0..MaxTime /\ now' \in 0..MaxTime /\ now <= now'
  <2>1. now \in 0..MaxTime /\ MaxTime \in Nat
    BY QuotaStateAssumption DEF QuotaStateInv, RowsOK
  <2>2. CASE Tick
    <3>1. now' = IF now < MaxTime THEN now + 1 ELSE now
      BY <2>2 DEF Tick
    <3>. QED BY <2>1, <3>1
  <2>3. CASE ~Tick
    <3>1. now' = now
      BY <2>3 DEF Ingest, Expire
    <3>. QED BY <2>1, <3>1
  <2>. QED BY <2>2, <2>3
<1>3. RowsOK'
  BY <1>1, <1>2 DEF QuotaStateInv, RowsOK
<1>4. StampsOK'
  BY <1>1 DEF QuotaStateInv, StampsOK
<1>5. MarkerOK' /\ EvidenceIsNewest'
  <2>1. ASSUME NEW r \in Records, Ingest(r)
        PROVE  MarkerOK' /\ EvidenceIsNewest'
    <3>1. /\ r \notin arrived /\ r.at <= now /\ marker' = Evidence(r)
          /\ arrived' = arrived \cup {r} /\ now' = now
      BY <2>1 DEF Ingest
    <3>. QED BY <1>2, <3>1, EvidenceKeeps DEF QuotaStateInv
  <2>2. CASE Expire
    BY <1>2, <2>2, ExpireKeeps DEF QuotaStateInv
  <2>3. CASE Tick
    <3>1. marker' = marker /\ arrived' = arrived
      BY <2>3 DEF Tick
    <3>. QED BY <1>2, <3>1, TimeKeeps DEF QuotaStateInv
  <2>. QED BY <2>1, <2>2, <2>3
<1>. QED BY <1>3, <1>4, <1>5 DEF QuotaStateInv

\* The gateway's own changes, the loop's turn and a restart touch nothing stored.
LEMMA OutsideKeeps ==
  ASSUME QuotaStateInv, (\E a \in Accounts : Move(a)) \/ EndRecovery \/ Restart \/ UNCHANGED vars
  PROVE  QuotaStateInv'
<1>1. now' = now /\ UNCHANGED <<credential, latest, marker, arrived>>
  BY DEF Move, EndRecovery, Restart, vars
<1>2. gateway' \in [Accounts -> [entry : Entries, valid : BOOLEAN]]
  <2>1. ASSUME NEW a \in Accounts, Move(a)
        PROVE  gateway' \in [Accounts -> [entry : Entries, valid : BOOLEAN]]
    BY <2>1 DEF Move, QuotaStateInv, RowsOK
  <2>2. EndRecovery \/ Restart \/ UNCHANGED vars => gateway' = gateway
    BY DEF EndRecovery, Restart, vars
  <2>. QED BY <2>1, <2>2 DEF QuotaStateInv, RowsOK
<1>3. listing' = listing \/ listing' = [s \in Syncers |-> None]
  BY DEF Move, EndRecovery, Restart, vars
<1>4. listing' \in [Syncers -> Lists \cup {None}]
  BY <1>3 DEF QuotaStateInv, RowsOK
<1>5. job' \in {Idle, job}
  BY DEF Move, EndRecovery, Restart, vars
<1>6. Idle \in Jobs /\ Idle.at = "idle"
  BY DEF Idle, Jobs
<1>7. job' \in Jobs /\ (job'.at \in {"fetch", "record"} =>
        job'.account \in Accounts /\ credential[job'.account] # None)
  BY <1>5, <1>6 DEF QuotaStateInv, RowsOK
<1>. QED BY <1>1, <1>2, <1>4, <1>7, OnTheWay

\* Nothing is stored at first, and every step keeps the invariant.
LEMMA QuotaStateInvHolds == Spec => []QuotaStateInv
<1>1. Init => QuotaStateInv
  <2>. SUFFICES ASSUME Init PROVE QuotaStateInv
    OBVIOUS
  <2>1. 0 \in 0..MaxTime
    BY QuotaStateAssumption
  <2>2. Idle \in Jobs /\ Idle.at = "idle"
    BY DEF Idle, Jobs
  <2>3. gateway \in [Accounts -> [entry : Entries, valid : BOOLEAN]]
    BY DEF Init, Entries
  <2>4. latest \in [at : 0..MaxTime, named : SUBSET Accounts]
    BY <2>1 DEF Init
  <2>5. RowsOK
    BY <2>1, <2>2, <2>3, <2>4 DEF Init, RowsOK
  <2>6. StampsOK
    BY DEF Init, StampsOK
  <2>7. MarkerOK /\ EvidenceIsNewest
    BY DEF Init, MarkerOK, EvidenceIsNewest
  <2>. QED BY <2>5, <2>6, <2>7 DEF QuotaStateInv
<1>2. QuotaStateInv /\ [Next]_vars => QuotaStateInv'
  <2>. SUFFICES ASSUME QuotaStateInv, [Next]_vars PROVE QuotaStateInv'
    OBVIOUS
  <2>1. ASSUME NEW s \in Syncers, Sync(s) PROVE QuotaStateInv'
    BY <2>1, ReadKeeps, StoreListKeeps, ListFailsKeeps DEF Sync
  <2>2. ASSUME NEW a \in Accounts, Recover(a) \/ Ask(a) PROVE QuotaStateInv'
    BY <2>2, AskKeeps DEF Recover
  <2>3. CASE Refresh
    BY <2>3, FetchKeeps, RecordKeeps DEF Refresh
  <2>4. CASE (\E r \in Records : Ingest(r)) \/ Expire \/ Tick
    BY <2>4, EvidenceStepKeeps
  <2>5. CASE (\E a \in Accounts : Move(a)) \/ EndRecovery \/ Restart \/ UNCHANGED vars
    BY <2>5, OutsideKeeps
  <2>. QED BY <2>1, <2>2, <2>3, <2>4, <2>5 DEF Next
<1>. QED BY <1>1, <1>2, PTL DEF Spec

\* Lists may be stored in any order: what the newest one names stays unmarked, because
\* observe() and mark_unlisted() compare the instant the gateway put on the list.
THEOREM NamedIsListedCorrect == Spec => []NamedIsListed
<1>1. QuotaStateInv => NamedIsListed
  BY DEF QuotaStateInv, StampsOK, NamedIsListed
<1>. QED BY <1>1, QuotaStateInvHolds, PTL

\* Records may be ingested in any order: the marker is what the newest one says, because
\* observe() asks the usage history as well as the marker's own instant.
THEOREM EvidenceIsNewestCorrect == Spec => []EvidenceIsNewest
<1>1. QuotaStateInv => EvidenceIsNewest
  BY DEF QuotaStateInv
<1>. QED BY <1>1, QuotaStateInvHolds, PTL

=============================================================================
