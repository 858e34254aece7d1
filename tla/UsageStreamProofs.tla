------------------------- MODULE UsageStreamProofs -------------------------
(* Proofs about UsageStream: the ids of one process rise, a connection     *)
(* delivers no event twice, and a client misses only what its stream went  *)
(* past, for any clock, threads, clients, pages and order of publication.  *)
EXTENDS UsageStream, TLAPS, SequenceTheorems, FiniteSetTheorems, WellFoundedInduction

\* A quotient below n bounds the number by n times the divisor.
LEMMA BelowMultiple ==
  ASSUME NEW k \in Nat \ {0}, NEW s \in Nat, NEW n \in Nat, n > s \div k
  PROVE  n * k > s
<1>. DEFINE q == s \div k
<1>1. q \in Int /\ s < (q + 1) * k
  OBVIOUS
<1>. HIDE DEF q
<1>2. n \in Int /\ n >= q + 1
  BY <1>1 DEF q
<1>3. PICK d \in Nat : n = q + 1 + d
  <2>1. n - (q + 1) \in Nat /\ n = q + 1 + (n - (q + 1))
    BY <1>1, <1>2
  <2>. QED BY <2>1
<1>4. n * k = (q + 1) * k + d * k /\ d * k >= 0
  BY <1>1, <1>3
<1>. QED BY <1>1, <1>4

\* next() answers an id above the state it loaded: a later millisecond, or one more.
LEMMA NextIsAbove ==
  ASSUME NEW m \in Minters, loaded[m] \in [now : Nat, state : Nat]
  PROVE  NextId(m) \in Nat /\ NextId(m) > loaded[m].state
<1>. DEFINE l == loaded[m]
            k == SequenceMask + 1
<1>1. l.now \in Nat /\ l.state \in Nat /\ k \in Nat \ {0}
  BY StreamAssumption
<1>. HIDE DEF l, k
<1>2. Ms(l.state) = l.state \div k /\ IdOf(l.now, 0) = l.now * k + 0
  BY DEF Ms, IdOf, k
<1>3. NextId(m) = IF l.now > Ms(l.state) THEN IdOf(l.now, 0) ELSE l.state + 1
  BY DEF NextId, l
<1>4. CASE l.now > Ms(l.state)
  <2>1. l.now * k > l.state
    BY <1>1, <1>2, <1>4, BelowMultiple
  <2>2. l.now * k \in Nat
    BY <1>1
  <2>3. IdOf(l.now, 0) = l.now * k
    BY <1>2, <2>2
  <2>. QED BY <1>3, <1>4, <2>1, <2>2, <2>3 DEF l
<1>5. CASE ~(l.now > Ms(l.state))
  BY <1>1, <1>3, <1>5 DEF l
<1>. QED BY <1>4, <1>5

\* The inductive invariant: the state covers every id given out, and each is above the last.
IdsInv == GeneratorOK /\ IdsRise /\ StateCovers

\* What a step that gives out no id must show.
LEMMA NothingGiven ==
  ASSUME IdsInv, now' \in Nat, loaded' \in [Minters -> [now : Nat, state : Nat]],
         \/ state' = state /\ minted' = minted
         \/ state' = 0 /\ minted' = <<>>
  PROVE  IdsInv'
<1>1. CASE state' = state /\ minted' = minted
  <2>1. GeneratorOK'
    BY <1>1 DEF IdsInv, GeneratorOK
  <2>2. IdsRise' /\ StateCovers'
    BY <1>1 DEF IdsInv, IdsRise, StateCovers
  <2>. QED BY <2>1, <2>2 DEF IdsInv
<1>2. CASE state' = 0 /\ minted' = <<>>
  <2>1. GeneratorOK'
    BY <1>2 DEF GeneratorOK
  <2>2. IdsRise' /\ StateCovers'
    BY <1>2 DEF IdsRise, StateCovers
  <2>. QED BY <2>1, <2>2 DEF IdsInv
<1>. QED BY <1>1, <1>2

\* An exchange that finds the state it loaded.
LEMMA ExchangeKeeps ==
  ASSUME IdsInv, NEW m \in Minters, Exchange(m)
  PROVE  IdsInv'
<1>. DEFINE id == NextId(m)
<1>1. id \in Nat /\ id > state
  <2>1. loaded[m] \in [now : Nat, state : Nat] /\ state = loaded[m].state
    BY DEF IdsInv, GeneratorOK, Exchange
  <2>. QED BY <2>1, NextIsAbove
<1>2. state' = id /\ minted' = Append(minted, id) /\ now' = now
      /\ loaded' = [loaded EXCEPT ![m] = Unloaded]
  BY DEF Exchange, Given
<1>. HIDE DEF id
<1>3. GeneratorOK'
  BY <1>1, <1>2 DEF IdsInv, GeneratorOK, Unloaded
<1>4. /\ minted \in Seq(Nat) /\ Len(minted') = Len(minted) + 1 /\ Len(minted) \in Nat
      /\ \A i \in 1 .. Len(minted) : minted'[i] = minted[i] /\ minted[i] \in Nat
      /\ minted'[Len(minted) + 1] = id
  BY <1>1, <1>2 DEF IdsInv, GeneratorOK
<1>5. \A i \in 1 .. Len(minted) : minted[i] < id
  <2>1. state \in Nat /\ \A i \in 1 .. Len(minted) : minted[i] <= state
    BY DEF IdsInv, GeneratorOK, StateCovers
  <2>. QED BY <1>1, <1>4, <2>1
<1>6. IdsRise'
  <2>. SUFFICES ASSUME NEW i \in 2 .. Len(minted') PROVE minted'[i - 1] < minted'[i]
    BY DEF IdsRise
  <2>1. CASE i = Len(minted) + 1
    BY <1>4, <1>5, <2>1
  <2>2. CASE i # Len(minted) + 1
    <3>1. i \in 2 .. Len(minted) /\ i - 1 \in 1 .. Len(minted) /\ i \in 1 .. Len(minted)
      BY <1>4, <2>2
    <3>2. minted[i - 1] < minted[i]
      BY <3>1 DEF IdsInv, IdsRise
    <3>. QED BY <1>4, <3>1, <3>2
  <2>. QED BY <2>1, <2>2
<1>7. StateCovers'
  <2>. SUFFICES ASSUME NEW i \in 1 .. Len(minted') PROVE minted'[i] <= state'
    BY DEF StateCovers
  <2>1. CASE i = Len(minted) + 1
    BY <1>1, <1>2, <1>4, <2>1
  <2>2. CASE i # Len(minted) + 1
    <3>1. i \in 1 .. Len(minted)
      BY <1>4, <2>2
    <3>. QED BY <1>1, <1>2, <1>4, <1>5, <3>1
  <2>. QED BY <2>1, <2>2
<1>. QED BY <1>3, <1>6, <1>7 DEF IdsInv

\* Every step keeps it, whichever threads race and wherever the clock goes.
LEMMA IdsStep ==
  ASSUME IdsInv, [Next]_vars
  PROVE  IdsInv'
<1>0. GeneratorOK
  BY DEF IdsInv
<1>. DEFINE Quiet == /\ now' \in Nat /\ loaded' \in [Minters -> [now : Nat, state : Nat]]
                     /\ \/ state' = state /\ minted' = minted
                        \/ state' = 0 /\ minted' = <<>>
<1>1. ASSUME NEW m \in Minters, Mint(m) PROVE IdsInv'
  <2>1. CASE Load(m)
    <3>1. loaded' \in [Minters -> [now : Nat, state : Nat]]
      BY <1>0, <2>1 DEF Load, GeneratorOK
    <3>2. now' \in Nat /\ state' = state /\ minted' = minted
      BY <1>0, <2>1 DEF Load, GeneratorOK
    <3>. QED BY <3>1, <3>2, NothingGiven
  <2>2. CASE Exchange(m)
    BY <2>2, ExchangeKeeps
  <2>3. CASE LoadAgain(m)
    <3>1. loaded' \in [Minters -> [now : Nat, state : Nat]]
      BY <1>0, <2>3 DEF LoadAgain, GeneratorOK, Unloaded
    <3>2. now' \in Nat /\ state' = state /\ minted' = minted
      BY <1>0, <2>3 DEF LoadAgain, GeneratorOK
    <3>. QED BY <3>1, <3>2, NothingGiven
  <2>. QED BY <1>1, <2>1, <2>2, <2>3 DEF Mint
<1>2. ASSUME NEW w \in Writers, Batch(w) PROVE Quiet
  BY <1>0, <1>2 DEF Batch, BeginBatch, CommitBatch, ReadBack, Publish, GiveUp, GeneratorOK, mint
<1>3. ASSUME NEW c \in Clients, Stream(c) \/ Break(c) PROVE Quiet
  BY <1>0, <1>3 DEF Stream, Subscribe, ReadReplay, DeliverReplay, DeliverLive, EndLagged,
                    Break, GeneratorOK, mint
<1>4. CASE Tick \/ StepBack
  <2>1. now' \in Nat
    BY <1>0, <1>4 DEF Tick, StepBack, GeneratorOK
  <2>2. state' = state /\ minted' = minted /\ loaded' = loaded
    BY <1>4 DEF Tick, StepBack, mint
  <2>. QED BY <1>0, <2>1, <2>2, NothingGiven DEF GeneratorOK
<1>5. CASE Restart
  <2>1. state' = 0 /\ minted' = <<>> /\ now' = now /\ loaded' = [m \in Minters |-> Unloaded]
    BY <1>5 DEF Restart
  <2>2. loaded' \in [Minters -> [now : Nat, state : Nat]]
    BY <2>1 DEF Unloaded
  <2>. QED BY <1>0, <2>1, <2>2, NothingGiven DEF GeneratorOK
<1>6. CASE UNCHANGED vars
  BY <1>0, <1>6, NothingGiven DEF vars, mint, GeneratorOK
<1>7. ASSUME Quiet PROVE IdsInv'
  BY <1>7, NothingGiven
<1>. QED BY <1>1, <1>2, <1>3, <1>4, <1>5, <1>6, <1>7 DEF Next

\* Ids rise: whichever threads race, wherever the clock steps and however many ids a
\* millisecond must hold, IdGenerator::next never gives out an id that is not above the last.
THEOREM IdsRiseCorrect == Spec => []IdsRise
<1>1. Init => IdsInv
  BY DEF Init, IdsInv, GeneratorOK, IdsRise, StateCovers, Unloaded
<1>2. IdsInv /\ [Next]_vars => IdsInv'
  BY IdsStep
<1>3. IdsInv => IdsRise
  BY DEF IdsInv
<1>. QED BY <1>1, <1>2, <1>3, PTL DEF Spec

-----------------------------------------------------------------------------
(* Sets of ids, and sequences of them. *)

\* A set of numbers that is not empty has a least one, which Min returns.
LEMMA MinIsLeast ==
  ASSUME NEW S, S \subseteq Nat, S # {}
  PROVE  Min(S) \in S /\ \A x \in S : Min(S) <= x
<1>1. PICK x \in S : \A y \in S : <<y, x>> \notin OpToRel(<, Nat)
  BY WFMin, NatLessThanWellFounded, Zenon
<1>2. \A y \in S : ~ (y < x)
  BY <1>1 DEF OpToRel
<1>3. \A y \in S : x <= y
  BY <1>2
<1>. QED BY <1>3 DEF Min

\* The ids of a sequence have a bound: the first prefix without one would be one id longer
\* than a prefix that has it.
LEMMA SequenceBounded ==
  ASSUME NEW t \in Seq(Nat)
  PROVE  \E b \in Nat : \A x \in ToSet(t) : x <= b
<1>. DEFINE n == Len(t)
            Bound(k, b) == \A i \in 1 .. k : t[i] <= b
            Unbounded == {k \in 0 .. n : ~ \E b \in Nat : Bound(k, b)}
<1>1. n \in Nat /\ \A i \in 1 .. n : t[i] \in Nat
  OBVIOUS
<1>. HIDE DEF n
<1>2. ASSUME NEW k \in 1 .. n, NEW b \in Nat, Bound(k - 1, b)
      PROVE  \E top \in Nat : Bound(k, top)
  <2>1. PICK top \in Nat : b <= top /\ t[k] <= top
    BY <1>1
  <2>2. \A i \in 1 .. k : t[i] <= top
    <3>. TAKE i \in 1 .. k
    <3>1. CASE i = k
      BY <2>1, <3>1
    <3>2. CASE i # k
      <4>1. i \in 1 .. k - 1 /\ i \in 1 .. n
        BY <1>1, <3>2
      <4>2. t[i] <= b /\ t[i] \in Nat
        BY <1>1, <1>2, <4>1
      <4>. QED BY <2>1, <4>2
    <3>. QED BY <3>1, <3>2
  <2>. QED BY <2>2
<1>3. Bound(0, 0)
  OBVIOUS
<1>4. Unbounded = {}
  <2>. SUFFICES ASSUME Unbounded # {} PROVE FALSE
    OBVIOUS
  <2>1. Unbounded \subseteq Nat
    OBVIOUS
  <2>2. PICK k \in Unbounded : \A x \in Unbounded : k <= x
    <3>. HIDE DEF Unbounded
    <3>. QED BY <2>1, MinIsLeast
  <2>3. k \in 0 .. n /\ ~ \E b \in Nat : Bound(k, b)
    OBVIOUS
  <2>4. k # 0
    BY <1>3, <2>3
  <2>5. k \in 1 .. n /\ k - 1 \in 0 .. n /\ ~ (k <= k - 1)
    BY <1>1, <2>3, <2>4
  <2>6. k - 1 \notin Unbounded
    BY <2>2, <2>5
  <2>7. PICK b \in Nat : Bound(k - 1, b)
    BY <2>5, <2>6
  <2>. QED BY <1>2, <2>3, <2>5, <2>7
<1>5. PICK b \in Nat : Bound(n, b)
  <2>1. n \in 0 .. n
    BY <1>1
  <2>2. n \notin Unbounded
    <3>. HIDE DEF Unbounded
    <3>. QED BY <1>4
  <2>. QED BY <2>1, <2>2
<1>6. \A x \in ToSet(t) : \E i \in 1 .. n : x = t[i]
  BY DEF ToSet, n
<1>. QED BY <1>5, <1>6

\* A set of a sequence's ids that is not empty has a greatest one, which Max returns.
LEMMA MaxIsGreatest ==
  ASSUME NEW t \in Seq(Nat), NEW S, S \subseteq ToSet(t), S # {}
  PROVE  Max(S) \in S /\ \A x \in S : x <= Max(S)
<1>1. PICK b \in Nat : \A x \in ToSet(t) : x <= b
  BY SequenceBounded
<1>2. S \subseteq Nat
  BY DEF ToSet
<1>. DEFINE Below == {b - x : x \in S}
<1>3. Below \subseteq Nat /\ Below # {}
  <2>1. \A x \in S : b - x \in Nat
    BY <1>1, <1>2
  <2>. QED BY <2>1
<1>4. Min(Below) \in Below /\ \A y \in Below : Min(Below) <= y
  <2>. HIDE DEF Below
  <2>. QED BY <1>3, MinIsLeast
<1>5. PICK x \in S : Min(Below) = b - x
  BY <1>4
<1>6. \A y \in S : x >= y
  <2>. TAKE y \in S
  <2>1. b - x <= b - y
    BY <1>4, <1>5
  <2>. QED BY <1>2, <2>1
<1>. HIDE DEF Below
<1>. QED BY <1>2, <1>6 DEF Max

\* The ids of a sequence, when it grows or loses its head.
LEMMA Elements ==
  ASSUME NEW s \in Seq(Nat)
  PROVE  ToSet(s) = {s[i] : i \in 1 .. Len(s)} /\ ToSet(s) \subseteq Nat
BY DEF ToSet

LEMMA AppendElements ==
  ASSUME NEW s \in Seq(Nat), NEW x \in Nat
  PROVE  ToSet(Append(s, x)) = ToSet(s) \cup {x}
<1>1. /\ Append(s, x) \in Seq(Nat) /\ Len(Append(s, x)) = Len(s) + 1 /\ Len(s) \in Nat
      /\ \A i \in 1 .. Len(s) : Append(s, x)[i] = s[i]
      /\ Append(s, x)[Len(s) + 1] = x
  OBVIOUS
<1>2. \A y \in ToSet(Append(s, x)) : y \in ToSet(s) \/ y = x
  <2>. TAKE y \in ToSet(Append(s, x))
  <2>1. PICK i \in 1 .. Len(s) + 1 : y = Append(s, x)[i]
    BY <1>1 DEF ToSet
  <2>2. CASE i = Len(s) + 1
    BY <1>1, <2>1, <2>2
  <2>3. CASE i # Len(s) + 1
    BY <1>1, <2>1, <2>3, Elements
  <2>. QED BY <2>2, <2>3
<1>3. \A y \in ToSet(s) : y \in ToSet(Append(s, x))
  <2>. TAKE y \in ToSet(s)
  <2>1. PICK i \in 1 .. Len(s) : y = s[i]
    BY Elements
  <2>2. i \in 1 .. Len(Append(s, x)) /\ y = Append(s, x)[i]
    BY <1>1, <2>1
  <2>. QED BY <1>1, <2>2, Elements
<1>4. x \in ToSet(Append(s, x))
  <2>1. Len(s) + 1 \in 1 .. Len(Append(s, x))
    BY <1>1
  <2>. QED BY <1>1, <2>1 DEF ToSet
<1>. QED BY <1>2, <1>3, <1>4

LEMMA TailElements ==
  ASSUME NEW s \in Seq(Nat), s # <<>>
  PROVE  /\ Head(s) \in ToSet(s) /\ Head(s) \in Nat /\ Tail(s) \in Seq(Nat)
         /\ ToSet(s) = ToSet(Tail(s)) \cup {Head(s)}
         /\ Head(s) = s[1] /\ Len(Tail(s)) = Len(s) - 1 /\ Len(s) \in Nat \ {0}
         /\ \A i \in 1 .. Len(s) - 1 : Tail(s)[i] = s[i + 1]
<1>1. /\ Head(s) = s[1] /\ Len(s) \in Nat \ {0} /\ Tail(s) \in Seq(Nat) /\ s[1] \in Nat
      /\ Len(Tail(s)) = Len(s) - 1 /\ \A i \in 1 .. Len(s) - 1 : Tail(s)[i] = s[i + 1]
  OBVIOUS
<1>2. Head(s) \in ToSet(s)
  BY <1>1, Elements
<1>3. \A y \in ToSet(s) : y \in ToSet(Tail(s)) \/ y = Head(s)
  <2>. TAKE y \in ToSet(s)
  <2>1. PICK i \in 1 .. Len(s) : y = s[i]
    BY Elements
  <2>2. CASE i = 1
    BY <1>1, <2>1, <2>2
  <2>3. CASE i # 1
    <3>1. i - 1 \in 1 .. Len(Tail(s)) /\ Tail(s)[i - 1] = y
      BY <1>1, <2>1, <2>3
    <3>. QED BY <1>1, <3>1, Elements
  <2>. QED BY <2>2, <2>3
<1>4. \A y \in ToSet(Tail(s)) : y \in ToSet(s)
  <2>. TAKE y \in ToSet(Tail(s))
  <2>1. PICK i \in 1 .. Len(s) - 1 : y = Tail(s)[i]
    BY <1>1 DEF ToSet
  <2>2. i + 1 \in 1 .. Len(s) /\ y = s[i + 1]
    BY <1>1, <2>1
  <2>. QED BY <2>2, Elements
<1>. QED BY <1>1, <1>2, <1>3, <1>4

LEMMA ConcatElements ==
  ASSUME NEW s \in Seq(Nat), NEW t \in Seq(Nat)
  PROVE  /\ s \o t \in Seq(Nat) /\ ToSet(s \o t) = ToSet(s) \cup ToSet(t)
         /\ Len(s \o t) = Len(s) + Len(t) /\ Len(s) \in Nat /\ Len(t) \in Nat
         /\ \A i \in 1 .. Len(s) : (s \o t)[i] = s[i]
         /\ \A i \in 1 .. Len(t) : (s \o t)[Len(s) + i] = t[i]
<1>1. /\ s \o t \in Seq(Nat) /\ Len(s \o t) = Len(s) + Len(t) /\ Len(s) \in Nat /\ Len(t) \in Nat
      /\ \A i \in 1 .. Len(s) : (s \o t)[i] = s[i]
      /\ \A i \in 1 .. Len(t) : (s \o t)[Len(s) + i] = t[i]
  OBVIOUS
<1>2. \A y \in ToSet(s \o t) : y \in ToSet(s) \/ y \in ToSet(t)
  <2>. TAKE y \in ToSet(s \o t)
  <2>1. PICK i \in 1 .. Len(s) + Len(t) : y = (s \o t)[i]
    BY <1>1 DEF ToSet
  <2>2. CASE i <= Len(s)
    <3>1. i \in 1 .. Len(s) /\ y = s[i]
      BY <1>1, <2>1, <2>2
    <3>. QED BY <3>1, Elements
  <2>3. CASE i > Len(s)
    <3>1. i - Len(s) \in 1 .. Len(t) /\ Len(s) + (i - Len(s)) = i
      BY <1>1, <2>3
    <3>2. y = t[i - Len(s)]
      BY <1>1, <2>1, <3>1
    <3>. QED BY <3>1, <3>2, Elements
  <2>. QED BY <1>1, <2>2, <2>3
<1>3. \A y \in ToSet(s) : y \in ToSet(s \o t)
  <2>. TAKE y \in ToSet(s)
  <2>1. PICK i \in 1 .. Len(s) : y = s[i]
    BY Elements
  <2>2. i \in 1 .. Len(s \o t) /\ y = (s \o t)[i]
    BY <1>1, <2>1
  <2>. QED BY <1>1, <2>2, Elements
<1>4. \A y \in ToSet(t) : y \in ToSet(s \o t)
  <2>. TAKE y \in ToSet(t)
  <2>1. PICK i \in 1 .. Len(t) : y = t[i]
    BY Elements
  <2>2. Len(s) + i \in 1 .. Len(s \o t) /\ y = (s \o t)[Len(s) + i]
    BY <1>1, <2>1
  <2>. QED BY <1>1, <2>2, Elements
<1>. QED BY <1>1, <1>2, <1>3, <1>4

\* What a sequence of distinct ids loses and gains.
LEMMA InjectiveAppend ==
  ASSUME NEW s \in Seq(Nat), NEW x \in Nat, IsInjective(s), x \notin ToSet(s)
  PROVE  IsInjective(Append(s, x))
<1>1. /\ DOMAIN Append(s, x) = 1 .. Len(s) + 1 /\ DOMAIN s = 1 .. Len(s) /\ Len(s) \in Nat
      /\ \A i \in 1 .. Len(s) : Append(s, x)[i] = s[i]
      /\ Append(s, x)[Len(s) + 1] = x
  OBVIOUS
<1>. SUFFICES ASSUME NEW a \in 1 .. Len(s) + 1, NEW b \in 1 .. Len(s) + 1,
                     Append(s, x)[a] = Append(s, x)[b]
              PROVE  a = b
  BY <1>1 DEF IsInjective
<1>2. \A i \in 1 .. Len(s) : s[i] # x
  BY DEF ToSet
<1>3. \A i \in 1 .. Len(s) + 1 : i = Len(s) + 1 \/ i \in 1 .. Len(s)
  BY <1>1
<1>. QED BY <1>1, <1>2, <1>3 DEF IsInjective

LEMMA InjectiveTail ==
  ASSUME NEW s \in Seq(Nat), s # <<>>, IsInjective(s)
  PROVE  IsInjective(Tail(s)) /\ Head(s) \notin ToSet(Tail(s))
<1>1. /\ Head(s) = s[1] /\ Tail(s) \in Seq(Nat) /\ Len(s) \in Nat \ {0}
      /\ Len(Tail(s)) = Len(s) - 1 /\ \A i \in 1 .. Len(s) - 1 : Tail(s)[i] = s[i + 1]
  BY TailElements
<1>2. DOMAIN Tail(s) = 1 .. Len(s) - 1 /\ DOMAIN s = 1 .. Len(s)
  BY <1>1
<1>3. \A i \in 1 .. Len(s) - 1 : i + 1 \in 1 .. Len(s) /\ i + 1 # 1
  BY <1>1
<1>4. IsInjective(Tail(s))
  <2>. SUFFICES ASSUME NEW a \in 1 .. Len(s) - 1, NEW b \in 1 .. Len(s) - 1,
                       Tail(s)[a] = Tail(s)[b]
                PROVE  a = b
    BY <1>2 DEF IsInjective
  <2>1. a + 1 = b + 1
    BY <1>1, <1>2, <1>3 DEF IsInjective
  <2>. QED BY <2>1
<1>5. Head(s) \notin ToSet(Tail(s))
  <2>. SUFFICES ASSUME NEW i \in 1 .. Len(s) - 1, Tail(s)[i] = s[1] PROVE FALSE
    BY <1>1, <1>2 DEF ToSet
  <2>1. 1 \in DOMAIN s /\ i + 1 \in DOMAIN s /\ s[i + 1] = s[1]
    BY <1>1, <1>2, <1>3
  <2>. QED BY <1>3, <2>1 DEF IsInjective
<1>. QED BY <1>4, <1>5

\* A batch that rises has distinct ids, and its head is below the rest.
LEMMA RisesTail ==
  ASSUME NEW s \in Seq(Nat), s # <<>>, Rises(s)
  PROVE  Rises(Tail(s)) /\ IsInjective(s) /\ \A x \in ToSet(Tail(s)) : Head(s) < x
<1>1. /\ Head(s) = s[1] /\ Tail(s) \in Seq(Nat) /\ Len(s) \in Nat \ {0}
      /\ Len(Tail(s)) = Len(s) - 1 /\ \A i \in 1 .. Len(s) - 1 : Tail(s)[i] = s[i + 1]
  BY TailElements
<1>2. \A i \in 1 .. Len(s) - 1 : i + 1 \in 1 .. Len(s) /\ 1 < i + 1
  BY <1>1
<1>3. Rises(Tail(s))
  BY <1>1, <1>2 DEF Rises
<1>4. IsInjective(s)
  <2>. SUFFICES ASSUME NEW a \in 1 .. Len(s), NEW b \in 1 .. Len(s), s[a] = s[b]
                PROVE  a = b
    BY DEF IsInjective
  <2>1. s[a] \in Nat /\ s[b] \in Nat
    OBVIOUS
  <2>2. ~ (a < b) /\ ~ (b < a)
    BY <2>1 DEF Rises
  <2>. QED BY <2>2
<1>5. \A x \in ToSet(Tail(s)) : Head(s) < x
  <2>. TAKE x \in ToSet(Tail(s))
  <2>1. PICK i \in 1 .. Len(s) - 1 : x = s[i + 1]
    BY <1>1 DEF ToSet
  <2>2. s[1] < s[i + 1]
    BY <1>1, <1>2 DEF Rises
  <2>. QED BY <1>1, <2>1, <2>2
<1>. QED BY <1>3, <1>4, <1>5

LEMMA RisesAppend ==
  ASSUME NEW s \in Seq(Nat), NEW x \in Nat, Rises(s), \A i \in 1 .. Len(s) : s[i] < x
  PROVE  Rises(Append(s, x))
<1>1. /\ Len(Append(s, x)) = Len(s) + 1 /\ Len(s) \in Nat
      /\ \A i \in 1 .. Len(s) : Append(s, x)[i] = s[i]
      /\ Append(s, x)[Len(s) + 1] = x
  OBVIOUS
<1>. SUFFICES ASSUME NEW i \in 1 .. Len(s) + 1, NEW j \in 1 .. Len(s) + 1, i < j
              PROVE  Append(s, x)[i] < Append(s, x)[j]
  BY <1>1 DEF Rises
<1>2. i \in 1 .. Len(s)
  BY <1>1
<1>3. CASE j = Len(s) + 1
  BY <1>1, <1>2, <1>3
<1>4. CASE j # Len(s) + 1
  <2>1. j \in 1 .. Len(s)
    BY <1>1, <1>4
  <2>. QED BY <1>1, <1>2, <2>1 DEF Rises
<1>. QED BY <1>3, <1>4

\* A page holds what is newer, from the oldest on; it is empty only if nothing is newer.
LEMMA PageIsPrefix ==
  ASSUME table \in Seq(Nat), NEW id \in Nat
  PROVE  /\ Page(id) \subseteq ToSet(table) /\ \A e \in Page(id) : id < e
         /\ \A e \in Page(id), f \in ToSet(table) : id < f /\ f <= e => f \in Page(id)
         /\ Page(id) = {} => \A e \in ToSet(table) : ~ (id < e)
<1>. DEFINE T == ToSet(table)
            newer(e) == {f \in T : id < f /\ f <= e}
<1>1. T \subseteq Nat
  BY Elements
<1>2. Page(id) = {e \in T : e > id /\ Cardinality(newer(e)) <= Replay}
  BY DEF Page
<1>3. IsFiniteSet(T)
  <2>1. table \in [1 .. Len(table) -> T] /\ Len(table) \in Nat
    BY DEF ToSet
  <2>2. table \in Seq(T)
    <3>. HIDE DEF T
    <3>. QED BY <2>1
  <2>3. \A e \in T : \E n \in 1 .. Len(table) : table[n] = e
    BY DEF ToSet
  <2>. HIDE DEF T
  <2>. QED BY <2>2, <2>3 DEF IsFiniteSet
<1>4. \A e \in T : IsFiniteSet(newer(e)) /\ Cardinality(newer(e)) \in Nat
  BY <1>3, FS_Subset, FS_CardinalityType
<1>. HIDE DEF T
<1>5. ASSUME NEW e \in Page(id), NEW f \in T, id < f, f <= e
      PROVE  f \in Page(id)
  <2>1. e \in T /\ Cardinality(newer(e)) <= Replay
    BY <1>2
  <2>2. newer(f) \subseteq newer(e)
    <3>. SUFFICES ASSUME NEW g \in newer(f) PROVE g \in newer(e)
      OBVIOUS
    <3>1. g \in T /\ id < g /\ g <= f
      OBVIOUS
    <3>2. g \in Nat /\ f \in Nat /\ e \in Nat
      BY <1>1, <1>5, <2>1, <3>1
    <3>3. g <= e
      BY <1>5, <3>1, <3>2
    <3>. QED BY <3>1, <3>3
  <2>3. /\ Cardinality(newer(f)) <= Cardinality(newer(e))
        /\ Cardinality(newer(f)) \in Nat /\ Cardinality(newer(e)) \in Nat
    BY <1>4, <1>5, <2>1, <2>2, FS_Subset
  <2>4. Cardinality(newer(f)) <= Replay
    <3>. HIDE DEF newer
    <3>. QED BY <2>1, <2>3, StreamAssumption
  <2>. QED BY <1>1, <1>2, <1>5, <2>4
<1>6. ASSUME Page(id) = {}, NEW e \in T, id < e
      PROVE  FALSE
  <2>. DEFINE above == {f \in T : id < f}
  <2>1. Min(above) \in above /\ \A f \in above : Min(above) <= f
    <3>1. above \subseteq Nat /\ above # {}
      BY <1>1, <1>6
    <3>. QED BY <3>1, MinIsLeast
  <2>. DEFINE m == Min(above)
  <2>2. m \in T /\ id < m /\ m \in Nat
    BY <1>1, <2>1
  <2>. HIDE DEF m
  <2>3. newer(m) \subseteq {m}
    <3>. SUFFICES ASSUME NEW g \in newer(m) PROVE g = m
      OBVIOUS
    <3>1. g \in T /\ id < g /\ g <= m
      OBVIOUS
    <3>2. g \in Nat /\ m <= g
      BY <1>1, <2>1, <3>1 DEF m
    <3>. QED BY <2>2, <3>1, <3>2
  <2>4. Cardinality(newer(m)) <= Cardinality({m}) /\ Cardinality({m}) = 1
    BY <2>3, FS_Singleton, FS_Subset
  <2>5. Cardinality(newer(m)) <= Replay
    <3>1. Cardinality(newer(m)) \in Nat
      BY <1>4, <2>2
    <3>. HIDE DEF newer
    <3>. QED BY <2>4, <3>1, StreamAssumption
  <2>6. m \in Page(id)
    BY <1>1, <1>2, <2>2, <2>5
  <2>. QED BY <1>6, <2>6
<1>7. Page(id) \subseteq T /\ \A e \in Page(id) : id < e
  BY <1>1, <1>2
<1>. QED BY <1>5, <1>6, <1>7 DEF T

-----------------------------------------------------------------------------
(* The writers' side: types, the ids' order, and batches. *)

\* What a minter is given is an id above the state.
LEMMA GivenIsAbove ==
  ASSUME GeneratorOK, NEW m \in Minters, Exchange(m)
  PROVE  NextId(m) \in Nat /\ NextId(m) > state
<1>1. loaded[m] \in [now : Nat, state : Nat] /\ state = loaded[m].state
  BY DEF GeneratorOK, Exchange
<1>. QED BY <1>1, NextIsAbove

LEMMA WritersTypedStep ==
  ASSUME TypeOK, BatchesOK, [Next]_vars
  PROVE  WritersTyped'
<1>. USE DEF WritersTyped
<1>0. GeneratorOK /\ WritersTyped
  BY DEF TypeOK
<1>1. ASSUME NEW m \in Minters, Load(m) \/ LoadAgain(m) PROVE WritersTyped'
  BY <1>0, <1>1 DEF Load, LoadAgain, ingest
<1>2. ASSUME NEW m \in Minters, Exchange(m) PROVE WritersTyped'
  <2>1. NextId(m) \in Nat
    BY <1>0, <1>2, GivenIsAbove
  <2>2. batch' \in [Writers -> Seq(Nat)]
    BY <1>0, <1>2, <2>1 DEF Exchange, Given
  <2>. QED BY <1>0, <1>2, <2>2 DEF Exchange, Given
<1>3. ASSUME NEW w \in Writers, BeginBatch(w) PROVE WritersTyped'
  BY <1>0, <1>3 DEF BeginBatch, mint
<1>4. ASSUME NEW w \in Writers, CommitBatch(w) PROVE WritersTyped'
  <2>1. table' \in Seq(Nat)
    <3>1. batch[w] \in Seq(Nat) /\ table \in Seq(Nat)
      BY <1>0
    <3>2. table' = table \/ table' = table \o batch[w]
      BY <1>4 DEF CommitBatch
    <3>. QED BY <3>1, <3>2, ConcatElements
  <2>2. pc' \in [Writers -> {"idle", "writing", "committed", "publishing"}]
    BY <1>0, <1>4 DEF CommitBatch
  <2>. QED BY <1>0, <1>4, <2>1, <2>2 DEF CommitBatch, mint
<1>5. ASSUME NEW w \in Writers, ReadBack(w) \/ GiveUp(w) PROVE WritersTyped'
  <2>1. pc' \in [Writers -> {"idle", "writing", "committed", "publishing"}]
    BY <1>0, <1>5 DEF ReadBack, GiveUp
  <2>2. faults' \in Nat
    BY <1>0, <1>5 DEF ReadBack, GiveUp, Fault
  <2>. QED BY <1>0, <1>5, <2>1, <2>2 DEF ReadBack, GiveUp, mint
<1>6. ASSUME NEW w \in Writers, Publish(w) PROVE WritersTyped'
  <2>1. batch[w] \in Seq(Nat) /\ batch[w] # <<>>
    BY <1>0, <1>6 DEF Publish, BatchesOK, BatchOK
  <2>2. Tail(batch[w]) \in Seq(Nat)
    BY <2>1, TailElements
  <2>. QED BY <1>0, <1>6, <2>2 DEF Publish, mint
<1>7. ASSUME NEW c \in Clients, Stream(c) \/ Break(c) PROVE WritersTyped'
  BY <1>0, <1>7 DEF Stream, Subscribe, ReadReplay, DeliverReplay, DeliverLive, EndLagged,
                    Break, Fault, mint, ingest
<1>8. CASE Tick \/ StepBack
  BY <1>0, <1>8 DEF Tick, StepBack, Fault, mint, ingest
<1>9. CASE Restart
  BY <1>0, <1>9 DEF Restart, Fault
<1>10. CASE UNCHANGED vars
  BY <1>0, <1>10 DEF vars, mint, ingest
<1>. QED BY <1>1, <1>2, <1>3, <1>4, <1>5, <1>6, <1>7, <1>8, <1>9, <1>10 DEF Next, Mint, Batch

\* What waits is a set of ids.
LEMMA WaitingIds ==
  ASSUME WritersTyped
  PROVE  Waiting \subseteq Nat /\ \A w \in Writers : Left(w) \subseteq Nat /\ Left(w) \subseteq Waiting
<1>1. \A w \in Writers : ToSet(batch[w]) \subseteq Nat
  BY Elements DEF WritersTyped
<1>. QED BY <1>1 DEF Waiting, Left

\* What a replay holds, and through what it reads the table.
LEMMA ReplayedIds ==
  ASSUME TypeOK, NEW c \in Clients
  PROVE  /\ Replayed(c) \subseteq ToSet(table) /\ Replayed(c) \subseteq Nat
         /\ Replayed(c) # {} => /\ Max(Replayed(c)) \in Replayed(c) /\ Max(Replayed(c)) \in Nat
                               /\ \A e \in Replayed(c) : e <= Max(Replayed(c))
         /\ CutOff(c) \subseteq Nat
<1>1. table \in Seq(Nat) /\ lastId[c] \in Nat \cup {None}
  BY DEF TypeOK, WritersTyped, ClientsTyped
<1>2. Replayed(c) \subseteq ToSet(table) /\ ToSet(table) \subseteq Nat
  BY <1>1, PageIsPrefix, Elements DEF Replayed
<1>3. Replayed(c) # {} => /\ Max(Replayed(c)) \in Replayed(c)
                         /\ \A e \in Replayed(c) : e <= Max(Replayed(c))
  BY <1>1, <1>2, MaxIsGreatest
<1>4. CutOff(c) \subseteq Nat
  BY <1>2 DEF CutOff
<1>. QED BY <1>2, <1>3, <1>4

LEMMA ClientsTypedStep ==
  ASSUME TypeOK, BatchesOK, [Next]_vars
  PROVE  ClientsTyped'
<1>. USE DEF ClientsTyped
<1>0. WritersTyped /\ ClientsTyped
  BY DEF TypeOK
<1>1. ASSUME NEW m \in Minters, Mint(m) PROVE ClientsTyped'
  BY <1>0, <1>1 DEF Mint, Load, Exchange, LoadAgain, conn, held
<1>2. ASSUME NEW w \in Writers, BeginBatch(w) \/ CommitBatch(w) \/ GiveUp(w) PROVE ClientsTyped'
  BY <1>0, <1>2 DEF BeginBatch, CommitBatch, GiveUp, conn, held
<1>3. ASSUME NEW w \in Writers, ReadBack(w) PROVE ClientsTyped'
  <2>1. skipped' \in [Clients -> SUBSET Nat]
    BY <1>0, <1>3, WaitingIds DEF ReadBack, Lost
  <2>. QED BY <1>0, <1>3, <2>1 DEF ReadBack, conn, held
<1>4. ASSUME NEW w \in Writers, Publish(w) PROVE ClientsTyped'
  <2>1. Head(batch[w]) \in Nat
    <3>1. batch[w] \in Seq(Nat) /\ batch[w] # <<>>
      BY <1>0, <1>4 DEF Publish, BatchesOK, BatchOK, WritersTyped
    <3>. QED BY <3>1, TailElements
  <2>2. queue' \in [Clients -> Seq(Nat)]
    BY <1>0, <1>4, <2>1 DEF Publish
  <2>3. skipped' \in [Clients -> SUBSET Nat]
    BY <1>0, <1>4, WaitingIds DEF Publish, Passed
  <2>. QED BY <1>0, <1>4, <2>2, <2>3 DEF Publish, held
<1>5. ASSUME NEW c \in Clients, Subscribe(c) PROVE ClientsTyped'
  <2>1. Len(table) \in Nat
    BY <1>0 DEF WritersTyped
  <2>2. joined' \in [Clients -> Nat \cup {None}]
    BY <1>0, <1>5, <2>1 DEF Subscribe
  <2>. QED BY <1>0, <1>5, <2>2 DEF Subscribe
<1>6. ASSUME NEW c \in Clients, ReadReplay(c) PROVE ClientsTyped'
  <2>1. replay' \in [Clients -> SUBSET Nat]
    BY <1>0, <1>6, ReplayedIds DEF ReadReplay
  <2>2. through' \in [Clients -> Nat \cup {None}]
    BY <1>0, <1>6, ReplayedIds DEF ReadReplay
  <2>3. skipped' \in [Clients -> SUBSET Nat]
    BY <1>0, <1>6, ReplayedIds DEF ReadReplay
  <2>. QED BY <1>0, <1>6, <2>1, <2>2, <2>3 DEF ReadReplay, held
<1>7. ASSUME NEW c \in Clients, NEW id \in Nat, Deliver(c, id)
      PROVE  /\ got' \in [Clients -> SUBSET Nat] /\ here' \in [Clients -> Seq(Nat)]
             /\ lastId' \in [Clients -> Nat \cup {None}]
  BY <1>0, <1>7 DEF Deliver
<1>8. ASSUME NEW c \in Clients, DeliverReplay(c) PROVE ClientsTyped'
  <2>1. Min(replay[c]) \in Nat
    BY <1>0, <1>8, MinIsLeast DEF DeliverReplay
  <2>2. replay' \in [Clients -> SUBSET Nat]
    BY <1>0, <1>8 DEF DeliverReplay
  <2>. QED BY <1>0, <1>7, <1>8, <2>1, <2>2 DEF DeliverReplay
<1>9. ASSUME NEW c \in Clients, DeliverLive(c) PROVE ClientsTyped'
  <2>1. queue[c] \in Seq(Nat) /\ queue[c] # <<>>
    BY <1>0, <1>9 DEF DeliverLive
  <2>2. Head(queue[c]) \in Nat /\ Tail(queue[c]) \in Seq(Nat)
    BY <2>1, TailElements
  <2>3. queue' \in [Clients -> Seq(Nat)]
    BY <1>0, <1>9, <2>2 DEF DeliverLive
  <2>4. Deliver(c, Head(queue[c])) \/ UNCHANGED <<got, here, lastId>>
    BY <1>9 DEF DeliverLive
  <2>5. /\ got' \in [Clients -> SUBSET Nat] /\ here' \in [Clients -> Seq(Nat)]
        /\ lastId' \in [Clients -> Nat \cup {None}]
    BY <1>0, <1>7, <2>2, <2>4
  <2>. QED BY <1>0, <1>9, <2>3, <2>5 DEF DeliverLive
<1>10. ASSUME NEW c \in Clients, EndLagged(c) \/ Break(c) PROVE ClientsTyped'
  <2>1. Disconnected(c) /\ UNCHANGED held /\ skipped' = skipped
    BY <1>10 DEF EndLagged, Break
  <2>2. client' \in [Clients -> {"off", "subscribed", "live"}]
    BY <1>0, <2>1 DEF Disconnected
  <2>3. through' \in [Clients -> Nat \cup {None}] /\ replay' \in [Clients -> SUBSET Nat]
    BY <1>0, <2>1 DEF Disconnected
  <2>4. queue' \in [Clients -> Seq(Nat)] /\ here' \in [Clients -> Seq(Nat)]
    BY <1>0, <2>1 DEF Disconnected
  <2>. QED BY <1>0, <2>1, <2>2, <2>3, <2>4 DEF held
<1>11. CASE Tick \/ StepBack
  BY <1>0, <1>11 DEF Tick, StepBack, conn, held
<1>12. CASE Restart
  BY <1>0, <1>12 DEF Restart, held
<1>13. CASE UNCHANGED vars
  BY <1>0, <1>13 DEF vars, conn, held
<1>. QED BY <1>1, <1>2, <1>3, <1>4, <1>5, <1>6, <1>8, <1>9, <1>10, <1>11, <1>12, <1>13
         DEF Next, Batch, Stream

\* A step that only stops minting, or gives an id out to another, leaves batches as they are.
LEMMA BatchesStay ==
  ASSUME BatchesOK, WritersTyped, state \in Nat, state' \in Nat, state <= state',
         pc' = pc, lock' = lock, batch' = batch, table' = table,
         \A w \in Writers : minting'[w] => minting[w] \/ pc[w] = "writing"
  PROVE  BatchesOK'
<1>1. \A w \in Writers : Left(w)' = Left(w)
  BY DEF Left
<1>2. ASSUME NEW w \in Writers PROVE BatchOK(w)'
  <2>1. BatchOK(w) /\ batch[w] \in Seq(Nat)
    BY DEF BatchesOK, WritersTyped
  <2>2. pc[w] = "writing" => \A i \in 1 .. Len(batch[w]) : batch[w][i] <= state'
    <3>. SUFFICES ASSUME pc[w] = "writing", NEW i \in 1 .. Len(batch[w])
                  PROVE  batch[w][i] <= state'
      OBVIOUS
    <3>1. batch[w][i] \in Nat /\ batch[w][i] <= state
      BY <2>1 DEF BatchOK
    <3>. QED BY <3>1
  <2>. QED BY <1>1, <2>1, <2>2 DEF BatchOK
<1>. QED BY <1>1, <1>2 DEF BatchesOK

\* A batch that is begun, stored, read back or sent touches no other.
LEMMA BatchMoves ==
  ASSUME BatchesOK, WritersTyped, NEW w \in Writers,
         state' = state, minting' = minting,
         \A v \in Writers \ {w} : pc'[v] = pc[v] /\ batch'[v] = batch[v],
         \A v \in Writers \ {w} : pc[v] = "writing" => lock' = lock,
         ToSet(table) \subseteq ToSet(table)',
         BatchOK(w)', Left(w)' \subseteq Left(w) \/ Left(w)' \cap ToSet(table) = {}
  PROVE  BatchesOK'
<1>1. ASSUME NEW v \in Writers \ {w} PROVE Left(v)' = Left(v) /\ BatchOK(v) /\ BatchOK(v)'
  <2>1. Left(v)' = Left(v)
    BY <1>1 DEF Left
  <2>2. BatchOK(v)
    BY DEF BatchesOK
  <2>. QED BY <2>1, <2>2 DEF BatchOK
<1>2. \A v \in Writers : BatchOK(v)'
  BY <1>1
<1>3. \A v \in Writers \ {w} : Left(v) \subseteq ToSet(table) /\ Left(v) \cap Left(w) = {}
  BY <1>1 DEF BatchesOK, BatchOK
<1>4. \A u, v \in Writers \ {w} : u # v => Left(u)' \cap Left(v)' = {}
  BY <1>1 DEF BatchesOK
<1>5. \A v \in Writers \ {w} : Left(v)' \cap Left(w)' = {}
  BY <1>1, <1>3
<1>. QED BY <1>2, <1>4, <1>5 DEF BatchesOK

LEMMA BatchesStep ==
  ASSUME TypeOK, IdsInv, BatchesOK, [Next]_vars
  PROVE  BatchesOK'
<1>0. GeneratorOK /\ WritersTyped /\ state \in Nat
  BY DEF TypeOK, GeneratorOK
<1>. DEFINE Same == /\ state' = state /\ pc' = pc /\ lock' = lock /\ batch' = batch
                    /\ table' = table
<1>1. ASSUME NEW m \in Minters, Load(m) PROVE BatchesOK'
  <2>1. Same
    BY <1>1 DEF Load, ingest
  <2>2. \A w \in Writers : minting'[w] => minting[w] \/ pc[w] = "writing"
    BY <1>0, <1>1, StreamAssumption DEF Load, MayMint, WritersTyped, Minters
  <2>. QED BY <1>0, <2>1, <2>2, BatchesStay
<1>2. ASSUME NEW m \in Minters, LoadAgain(m) PROVE BatchesOK'
  <2>1. Same
    BY <1>2 DEF LoadAgain, ingest
  <2>2. \A w \in Writers : minting'[w] => minting[w]
    BY <1>0, <1>2 DEF LoadAgain, WritersTyped, Minters
  <2>. QED BY <1>0, <2>1, <2>2, BatchesStay
<1>3. ASSUME NEW m \in Minters, Exchange(m) PROVE BatchesOK'
  <2>1. /\ NextId(m) \in Nat /\ NextId(m) > state /\ state' = NextId(m)
        /\ pc' = pc /\ lock' = lock /\ table' = table
        /\ batch' = IF m \in Writers THEN [batch EXCEPT ![m] = Append(@, NextId(m))] ELSE batch
    BY <1>0, <1>3, GivenIsAbove DEF Exchange, Given
  <2>2. \A w \in Writers : minting'[w] => minting[w]
    BY <1>0, <1>3 DEF Exchange, Given, WritersTyped, Minters
  <2>3. CASE m \notin Writers
    BY <1>0, <2>1, <2>2, <2>3, BatchesStay
  <2>4. CASE m \in Writers
    <3>. DEFINE id == NextId(m)
    <3>1. pc[m] = "writing" /\ BatchOK(m) /\ batch[m] \in Seq(Nat)
      BY <1>0, <1>3, <2>4 DEF Exchange, BatchesOK, BatchOK, WritersTyped
    <3>2. \A v \in Writers \ {m} : pc[v] # "writing" /\ batch'[v] = batch[v] /\ BatchOK(v)
      BY <1>0, <2>1, <2>4, <3>1 DEF BatchesOK, BatchOK, WritersTyped
    <3>3. batch'[m] = Append(batch[m], id) /\ id \in Nat
      BY <1>0, <2>1, <2>4 DEF WritersTyped
    <3>. HIDE DEF id
    <3>4. /\ Len(batch'[m]) = Len(batch[m]) + 1 /\ Len(batch[m]) \in Nat
          /\ \A i \in 1 .. Len(batch[m]) : batch'[m][i] = batch[m][i]
          /\ batch'[m][Len(batch[m]) + 1] = id
      BY <3>1, <3>3
    <3>5. \A i \in 1 .. Len(batch[m]) : batch[m][i] < id
      <4>. SUFFICES ASSUME NEW i \in 1 .. Len(batch[m]) PROVE batch[m][i] < id
        OBVIOUS
      <4>1. batch[m][i] \in Nat /\ batch[m][i] <= state
        BY <3>1 DEF BatchOK
      <4>. QED BY <1>0, <2>1, <4>1 DEF id
    <3>6. Rises(batch'[m])
      BY <3>1, <3>3, <3>5, RisesAppend DEF BatchOK
    <3>7. \A i \in 1 .. Len(batch'[m]) : batch'[m][i] <= state'
      <4>. SUFFICES ASSUME NEW i \in 1 .. Len(batch'[m]) PROVE batch'[m][i] <= state'
        OBVIOUS
      <4>1. CASE i = Len(batch[m]) + 1
        BY <2>1, <3>3, <3>4, <4>1 DEF id
      <4>2. CASE i # Len(batch[m]) + 1
        <5>1. i \in 1 .. Len(batch[m]) /\ batch[m][i] \in Nat
          BY <3>1, <3>4, <4>2
        <5>. QED BY <2>1, <3>3, <3>4, <3>5, <5>1 DEF id
      <4>. QED BY <4>1, <4>2
    <3>8. \A v \in Writers : Left(v)' = Left(v)
      BY <2>1, <3>1, <3>2 DEF Left
    <3>9. BatchOK(m)'
      <4>1. pc'[m] = "writing" /\ lock' = m /\ Left(m)' \subseteq ToSet(table)'
        BY <2>1, <2>4, <3>1, <3>8 DEF BatchOK
      <4>. QED BY <2>4, <3>6, <3>7, <4>1 DEF BatchOK
    <3>10. \A v \in Writers \ {m} : BatchOK(v)'
      BY <2>1, <2>2, <3>2, <3>8 DEF BatchOK
    <3>. QED BY <3>8, <3>9, <3>10 DEF BatchesOK
  <2>. QED BY <2>3, <2>4
<1>4. ASSUME NEW w \in Writers, BeginBatch(w) PROVE BatchesOK'
  <2>1. /\ state' = state /\ minting' = minting /\ table' = table /\ lock = None /\ lock' = w
        /\ pc'[w] = "writing" /\ batch'[w] = <<>> /\ pc[w] = "idle"
        /\ \A v \in Writers \ {w} : pc'[v] = pc[v] /\ batch'[v] = batch[v]
    BY <1>0, <1>4 DEF BeginBatch, mint, WritersTyped
  <2>2. \A v \in Writers : pc[v] # "writing"
    BY <2>1, StreamAssumption DEF BatchesOK, BatchOK
  <2>3. Rises(<<>>) /\ Left(w)' = {}
    BY <2>1 DEF Rises, Left
  <2>4. BatchOK(w)'
    BY <2>1, <2>3 DEF BatchOK
  <2>. QED BY <1>0, <2>1, <2>2, <2>3, <2>4, BatchMoves
<1>5. ASSUME NEW w \in Writers, CommitBatch(w) PROVE BatchesOK'
  <2>1. /\ state' = state /\ minting' = minting /\ batch' = batch
        /\ pc[w] = "writing" /\ ~minting[w] /\ batch[w] # <<>>
        /\ \A v \in Writers \ {w} : pc'[v] = pc[v]
    BY <1>0, <1>5 DEF CommitBatch, mint, WritersTyped
  <2>2. BatchOK(w) /\ lock = w /\ batch[w] \in Seq(Nat) /\ table \in Seq(Nat)
    BY <1>0, <2>1 DEF BatchesOK, BatchOK, WritersTyped
  <2>3. \A v \in Writers \ {w} : pc[v] # "writing"
    BY <2>2 DEF BatchesOK, BatchOK
  <2>4. CASE ToSet(batch[w]) \cap ToSet(table) = {}
    <3>1. pc'[w] = "committed" /\ table' = table \o batch[w]
      BY <1>0, <1>5, <2>4 DEF CommitBatch, WritersTyped
    <3>2. ToSet(table)' = ToSet(table) \cup ToSet(batch[w])
      BY <2>2, <3>1, ConcatElements
    <3>3. Left(w)' = ToSet(batch[w])
      BY <2>1, <3>1 DEF Left
    <3>4. BatchOK(w)'
      BY <2>1, <2>2, <3>1, <3>2, <3>3 DEF BatchOK
    <3>. QED BY <1>0, <2>1, <2>3, <2>4, <3>2, <3>3, <3>4, BatchMoves
  <2>5. CASE ToSet(batch[w]) \cap ToSet(table) # {}
    <3>1. pc'[w] = "idle" /\ table' = table
      BY <1>0, <1>5, <2>5 DEF CommitBatch, WritersTyped
    <3>2. Left(w)' = {}
      BY <3>1 DEF Left
    <3>3. BatchOK(w)'
      BY <2>1, <2>2, <3>1, <3>2 DEF BatchOK
    <3>. QED BY <1>0, <2>1, <2>3, <3>1, <3>2, <3>3, BatchMoves
  <2>. QED BY <2>4, <2>5
<1>6. ASSUME NEW w \in Writers, ReadBack(w) \/ GiveUp(w) PROVE BatchesOK'
  <2>1. /\ state' = state /\ minting' = minting /\ batch' = batch /\ table' = table
        /\ lock' = lock /\ pc[w] \in {"committed", "publishing"}
        /\ pc'[w] \in {"publishing", "idle"} /\ \A v \in Writers \ {w} : pc'[v] = pc[v]
    BY <1>0, <1>6 DEF ReadBack, GiveUp, mint, WritersTyped
  <2>2. BatchOK(w)
    BY DEF BatchesOK
  <2>3. Left(w)' \subseteq Left(w)
    BY <2>1 DEF Left
  <2>4. BatchOK(w)'
    BY <2>1, <2>2, <2>3 DEF BatchOK
  <2>. QED BY <1>0, <2>1, <2>3, <2>4, BatchMoves
<1>7. ASSUME NEW w \in Writers, Publish(w) PROVE BatchesOK'
  <2>1. /\ state' = state /\ minting' = minting /\ table' = table /\ lock' = lock
        /\ pc[w] = "publishing" /\ pc'[w] = (IF Len(batch[w]) = 1 THEN "idle" ELSE "publishing")
        /\ batch'[w] = Tail(batch[w])
        /\ \A v \in Writers \ {w} : pc'[v] = pc[v] /\ batch'[v] = batch[v]
    BY <1>0, <1>7 DEF Publish, mint, WritersTyped
  <2>2. BatchOK(w) /\ batch[w] \in Seq(Nat) /\ batch[w] # <<>> /\ Rises(batch[w])
    BY <1>0, <2>1 DEF BatchesOK, BatchOK, WritersTyped
  <2>3. /\ Rises(Tail(batch[w])) /\ ToSet(Tail(batch[w])) \subseteq ToSet(batch[w])
        /\ Len(Tail(batch[w])) = Len(batch[w]) - 1 /\ Len(batch[w]) \in Nat \ {0}
    BY <2>2, RisesTail, TailElements
  <2>4. Left(w)' \subseteq Left(w)
    BY <2>1, <2>3 DEF Left
  <2>5. pc'[w] = "publishing" => batch'[w] # <<>>
    <3>1. pc'[w] = "publishing" => Len(batch'[w]) # 0
      BY <2>1, <2>3
    <3>. QED BY <3>1
  <2>6. BatchOK(w)'
    BY <2>1, <2>2, <2>3, <2>4, <2>5 DEF BatchOK
  <2>. QED BY <1>0, <2>1, <2>4, <2>6, BatchMoves
<1>8. ASSUME NEW c \in Clients, Stream(c) \/ Break(c) PROVE Same /\ minting' = minting
  BY <1>8 DEF Stream, Subscribe, ReadReplay, DeliverReplay, DeliverLive, EndLagged, Break,
              mint, ingest
<1>9. CASE Tick \/ StepBack \/ UNCHANGED vars
  <2>1. Same /\ minting' = minting
    BY <1>9 DEF Tick, StepBack, vars, mint, ingest
  <2>. QED BY <1>0, <2>1, BatchesStay
<1>10. ASSUME Same /\ minting' = minting PROVE BatchesOK'
  BY <1>0, <1>10, BatchesStay
<1>11. CASE Restart
  <2>1. \A w \in Writers : pc'[w] = "idle" /\ ~minting'[w] /\ Left(w)' = {}
    BY <1>11 DEF Restart, Left, Minters
  <2>. QED BY <2>1 DEF BatchesOK, BatchOK
<1>. QED BY <1>1, <1>2, <1>3, <1>4, <1>5, <1>6, <1>7, <1>8, <1>9, <1>10, <1>11
         DEF Next, Mint, Batch

\* The writers' invariant: types, the ids' order, and batches.
THEOREM WritersInvCorrect == Spec => []WritersInv
<1>1. Init => WritersInv
  <2>. SUFFICES ASSUME Init PROVE WritersInv
    OBVIOUS
  <2>1. GeneratorOK /\ IdsRise /\ StateCovers
    BY DEF Init, GeneratorOK, IdsRise, StateCovers, Unloaded
  <2>2. WritersTyped
    <3>1. /\ minting \in [Minters -> BOOLEAN] /\ behind \in BOOLEAN
          /\ pc \in [Writers -> {"idle", "writing", "committed", "publishing"}]
      BY DEF Init
    <3>2. /\ lock \in Writers \cup {None} /\ batch \in [Writers -> Seq(Nat)]
          /\ table \in Seq(Nat) /\ faults \in Nat /\ boot \in Nat
      BY DEF Init
    <3>. QED BY <3>1, <3>2 DEF WritersTyped
  <2>3. ClientsTyped
    BY DEF Init, ClientsTyped
  <2>4. BatchesOK
    BY DEF Init, BatchesOK, BatchOK, Left, Minters
  <2>. QED BY <2>1, <2>2, <2>3, <2>4 DEF WritersInv, TypeOK
<1>2. WritersInv /\ [Next]_vars => WritersInv'
  <2>. SUFFICES ASSUME WritersInv, [Next]_vars PROVE WritersInv'
    OBVIOUS
  <2>1. TypeOK /\ BatchesOK /\ IdsInv
    BY DEF WritersInv, TypeOK, IdsInv
  <2>2. IdsInv'
    BY <2>1, IdsStep
  <2>3. WritersTyped' /\ ClientsTyped' /\ BatchesOK'
    BY <2>1, WritersTypedStep, ClientsTypedStep, BatchesStep
  <2>. QED BY <2>2, <2>3 DEF WritersInv, TypeOK, IdsInv
<1>. QED BY <1>1, <1>2, PTL DEF Spec

-----------------------------------------------------------------------------
(* What waits to be published, over each step of the writers. *)

LEMMA MintWaiting ==
  ASSUME WritersInv, NEW m \in Minters, Mint(m)
  PROVE  Waiting' = Waiting /\ table' = table
<1>1. \A w \in Writers : Left(w)' = Left(w)
  <2>1. CASE Load(m) \/ LoadAgain(m)
    BY <2>1 DEF Load, LoadAgain, ingest, Left
  <2>2. CASE Exchange(m)
    <3>1. pc' = pc /\ \A w \in Writers : w # m => batch'[w] = batch[w]
      BY <2>2 DEF Exchange, Given, WritersInv, TypeOK, WritersTyped
    <3>2. m \in Writers => pc[m] = "writing"
      BY <2>2 DEF Exchange, WritersInv, BatchesOK, BatchOK
    <3>. QED BY <3>1, <3>2 DEF Left
  <2>. QED BY <2>1, <2>2 DEF Mint
<1>2. table' = table
  BY DEF Mint, Load, LoadAgain, Exchange, ingest
<1>. QED BY <1>1, <1>2 DEF Waiting

LEMMA BeginWaiting ==
  ASSUME WritersInv, NEW w \in Writers, BeginBatch(w)
  PROVE  Waiting' = Waiting /\ table' = table
<1>1. \A v \in Writers : Left(v)' = Left(v)
  BY DEF BeginBatch, Left, WritersInv, TypeOK, WritersTyped
<1>. QED BY <1>1 DEF Waiting, BeginBatch

LEMMA CommitWaiting ==
  ASSUME WritersInv, NEW w \in Writers, CommitBatch(w)
  PROVE  \/ Waiting' = Waiting /\ table' = table
         \/ /\ Waiting' = Waiting \cup ToSet(batch[w])
            /\ table' = table \o batch[w] /\ batch[w] \in Seq(Nat) /\ table \in Seq(Nat)
            /\ ToSet(table)' = ToSet(table) \cup ToSet(batch[w])
            /\ ToSet(batch[w]) \cap ToSet(table) = {}
<1>1. /\ pc[w] = "writing" /\ batch' = batch /\ \A v \in Writers \ {w} : pc'[v] = pc[v]
      /\ batch[w] \in Seq(Nat) /\ table \in Seq(Nat)
  BY DEF CommitBatch, WritersInv, TypeOK, WritersTyped
<1>2. Left(w) = {} /\ \A v \in Writers \ {w} : Left(v)' = Left(v)
  BY <1>1 DEF Left
<1>3. CASE ToSet(batch[w]) \cap ToSet(table) = {}
  <2>1. table' = table \o batch[w] /\ pc'[w] = "committed"
    BY <1>3 DEF CommitBatch, WritersInv, TypeOK, WritersTyped
  <2>2. Left(w)' = ToSet(batch[w])
    BY <1>1, <2>1 DEF Left
  <2>3. ToSet(table)' = ToSet(table) \cup ToSet(batch[w])
    BY <1>1, <2>1, ConcatElements
  <2>4. Waiting' = Waiting \cup ToSet(batch[w])
    BY <1>2, <2>2 DEF Waiting
  <2>. QED BY <1>1, <1>3, <2>1, <2>3, <2>4
<1>4. CASE ToSet(batch[w]) \cap ToSet(table) # {}
  <2>1. table' = table /\ pc'[w] = "idle"
    BY <1>4 DEF CommitBatch, WritersInv, TypeOK, WritersTyped
  <2>2. Left(w)' = {}
    BY <2>1 DEF Left
  <2>3. Waiting' = Waiting
    BY <1>2, <2>2 DEF Waiting
  <2>. QED BY <2>1, <2>3
<1>. QED BY <1>3, <1>4

LEMMA ReadBackWaiting ==
  ASSUME WritersInv, NEW w \in Writers, ReadBack(w) \/ GiveUp(w)
  PROVE  /\ table' = table /\ Waiting' \subseteq Waiting
         /\ Waiting \subseteq Waiting' \cup Left(w)
         /\ pc'[w] = "publishing" => Waiting' = Waiting
<1>1. /\ table' = table /\ batch' = batch /\ pc[w] \in {"committed", "publishing"}
      /\ pc'[w] \in {"publishing", "idle"} /\ \A v \in Writers \ {w} : pc'[v] = pc[v]
  BY DEF ReadBack, GiveUp, WritersInv, TypeOK, WritersTyped
<1>2. /\ Left(w)' \subseteq Left(w)
      /\ pc'[w] = "publishing" => Left(w)' = Left(w)
      /\ \A v \in Writers \ {w} : Left(v)' = Left(v)
  BY <1>1 DEF Left
<1>3. Waiting' \subseteq Waiting /\ Waiting \subseteq Waiting' \cup Left(w)
  BY <1>2 DEF Waiting
<1>4. ASSUME pc'[w] = "publishing" PROVE Waiting' = Waiting
  <2>1. \A v \in Writers : Left(v)' = Left(v)
    BY <1>2, <1>4
  <2>. QED BY <2>1 DEF Waiting
<1>. QED BY <1>1, <1>3, <1>4

LEMMA PublishWaiting ==
  ASSUME WritersInv, NEW w \in Writers, Publish(w)
  PROVE  /\ table' = table /\ Waiting' = Waiting \ {Head(batch[w])}
         /\ Head(batch[w]) \in Waiting /\ Head(batch[w]) \in Nat
         /\ Head(batch[w]) \in ToSet(table)
<1>. DEFINE e == Head(batch[w])
<1>1. /\ table' = table /\ batch'[w] = Tail(batch[w]) /\ pc[w] = "publishing"
      /\ pc'[w] = (IF Len(batch[w]) = 1 THEN "idle" ELSE "publishing")
      /\ \A v \in Writers \ {w} : pc'[v] = pc[v] /\ batch'[v] = batch[v]
      /\ batch[w] \in Seq(Nat)
  BY DEF Publish, WritersInv, TypeOK, WritersTyped
<1>2. batch[w] # <<>> /\ Rises(batch[w]) /\ Left(w) \subseteq ToSet(table)
  BY <1>1 DEF WritersInv, BatchesOK, BatchOK
<1>3. /\ e \in Nat /\ ToSet(batch[w]) = ToSet(Tail(batch[w])) \cup {e}
      /\ Len(Tail(batch[w])) = Len(batch[w]) - 1 /\ Tail(batch[w]) \in Seq(Nat)
      /\ Len(batch[w]) \in Nat \ {0} /\ e \notin ToSet(Tail(batch[w]))
  BY <1>1, <1>2, TailElements, RisesTail, InjectiveTail
<1>. HIDE DEF e
<1>4. Left(w) = ToSet(batch[w])
  BY <1>1 DEF Left
<1>5. Left(w)' = ToSet(Tail(batch[w]))
  <2>1. CASE Len(batch[w]) = 1
    <3>1. ToSet(Tail(batch[w])) = {}
      BY <1>3, <2>1, Elements
    <3>. QED BY <1>1, <2>1, <3>1 DEF Left
  <2>2. CASE Len(batch[w]) # 1
    BY <1>1, <2>2 DEF Left
  <2>. QED BY <2>1, <2>2
<1>6. \A v \in Writers \ {w} : Left(v)' = Left(v) /\ Left(v) \cap Left(w) = {}
  BY <1>1 DEF Left, WritersInv, BatchesOK
<1>7. Waiting' = Waiting \ {e}
  BY <1>3, <1>4, <1>5, <1>6 DEF Waiting
<1>8. e \in Waiting /\ e \in ToSet(table)
  BY <1>2, <1>3, <1>4 DEF Waiting
<1>. QED BY <1>1, <1>3, <1>7, <1>8 DEF e

\* All that waits is stored.
LEMMA WaitingStored ==
  ASSUME WritersInv
  PROVE  Waiting \subseteq ToSet(table) /\ ToSet(table) \subseteq Nat
BY Elements DEF Waiting, WritersInv, BatchesOK, BatchOK, TypeOK, WritersTyped

-----------------------------------------------------------------------------
(* One connection: no event twice. *)

\* A client another's step, or a writer's, leaves alone.
LEMMA ConnectionStays ==
  ASSUME NEW d \in Clients, ConnectionOK(d),
         client'[d] = client[d], through'[d] = through[d], replay'[d] = replay[d],
         queue'[d] = queue[d], here'[d] = here[d],
         ToSet(table) \subseteq ToSet(table)', Waiting' \cap ToSet(table) \subseteq Waiting
  PROVE  ConnectionOK(d)'
<1>1. \A e : Seen(d, e)' <=> Seen(d, e)
  BY DEF Seen
<1>2. /\ ToSet(queue[d])' = ToSet(queue[d]) /\ ToSet(here[d])' = ToSet(here[d])
      /\ IsInjective(queue[d])' <=> IsInjective(queue[d])
      /\ IsInjective(here[d])' <=> IsInjective(here[d])
  OBVIOUS
<1>3. ToSet(queue[d]) \cap Waiting' = {}
  BY DEF ConnectionOK
<1>4. \A e \in ToSet(here[d]) \cap (ToSet(queue[d]) \cup Waiting') : Seen(d, e)
  BY DEF ConnectionOK
<1>. QED BY <1>1, <1>2, <1>3, <1>4 DEF ConnectionOK

\* A connection that ended holds nothing.
LEMMA ConnectionOff ==
  ASSUME NEW d \in Clients, client'[d] = "off", through'[d] = None, replay'[d] = {},
         queue'[d] = <<>>, here'[d] = <<>>
  PROVE  ConnectionOK(d)'
BY DEF ConnectionOK, IsInjective, ToSet

LEMMA ConnectionsStep ==
  ASSUME WritersInv, WritersInv', ConnectionsInv, [Next]_vars
  PROVE  ConnectionsInv'
<1>. DEFINE Same(d) == /\ client'[d] = client[d] /\ through'[d] = through[d]
                       /\ replay'[d] = replay[d] /\ queue'[d] = queue[d]
                       /\ here'[d] = here[d]
            WaitsLess == /\ ToSet(table) \subseteq ToSet(table)'
                         /\ Waiting' \cap ToSet(table) \subseteq Waiting
<1>0. /\ ClientsTyped /\ \A c \in Clients : ConnectionOK(c)
  BY DEF WritersInv, TypeOK, ConnectionsInv
<1>1. ASSUME WaitsLess, conn' = conn PROVE ConnectionsInv'
  BY <1>0, <1>1, ConnectionStays DEF ConnectionsInv, conn
<1>2. ASSUME NEW m \in Minters, Mint(m) PROVE ConnectionsInv'
  <2>1. conn' = conn
    BY <1>2 DEF Mint, Load, Exchange, LoadAgain
  <2>. QED BY <1>1, <1>2, <2>1, MintWaiting
<1>3. ASSUME NEW w \in Writers, BeginBatch(w) PROVE ConnectionsInv'
  <2>1. conn' = conn
    BY <1>3 DEF BeginBatch
  <2>. QED BY <1>1, <1>3, <2>1, BeginWaiting
<1>4. ASSUME NEW w \in Writers, CommitBatch(w) PROVE ConnectionsInv'
  <2>1. conn' = conn
    BY <1>4 DEF CommitBatch
  <2>2. WaitsLess
    BY <1>4, CommitWaiting
  <2>. QED BY <1>1, <2>1, <2>2
<1>5. ASSUME NEW w \in Writers, ReadBack(w) \/ GiveUp(w) PROVE ConnectionsInv'
  <2>1. conn' = conn
    BY <1>5 DEF ReadBack, GiveUp
  <2>. QED BY <1>1, <1>5, <2>1, ReadBackWaiting
<1>6. ASSUME NEW w \in Writers, Publish(w) PROVE ConnectionsInv'
  <2>. DEFINE e == Head(batch[w])
  <2>1. /\ table' = table /\ Waiting' = Waiting \ {e} /\ e \in Waiting /\ e \in Nat
        /\ e \in ToSet(table)
    BY <1>6, PublishWaiting
  <2>2. /\ client' = client /\ through' = through /\ replay' = replay /\ here' = here
        /\ queue' = [c \in Clients |-> IF Listening(c) THEN Append(queue[c], e) ELSE queue[c]]
    BY <1>6 DEF Publish
  <2>. HIDE DEF e
  <2>3. ASSUME NEW d \in Clients PROVE ConnectionOK(d)'
    <3>1. CASE ~Listening(d)
      BY <1>0, <2>1, <2>2, <3>1, ConnectionStays
    <3>2. CASE Listening(d)
      <4>1. queue'[d] = Append(queue[d], e) /\ queue[d] \in Seq(Nat) /\ ConnectionOK(d)
        BY <1>0, <2>2, <3>2 DEF ClientsTyped
      <4>2. ToSet(queue'[d]) = ToSet(queue[d]) \cup {e} /\ e \notin ToSet(queue[d])
        BY <2>1, <4>1, AppendElements DEF ConnectionOK
      <4>3. IsInjective(queue'[d])
        BY <2>1, <4>1, <4>2, InjectiveAppend DEF ConnectionOK
      <4>4. \A x : Seen(d, x)' <=> Seen(d, x)
        BY <2>2 DEF Seen
      <4>5. client'[d] # "off"
        BY <2>2, <3>2 DEF Listening
      <4>6. ToSet(queue'[d]) \cap Waiting' = {}
        BY <2>1, <4>1, <4>2 DEF ConnectionOK
      <4>7. \A x \in ToSet(here[d]) \cap (ToSet(queue'[d]) \cup Waiting') : Seen(d, x)
        BY <2>1, <4>1, <4>2 DEF ConnectionOK
      <4>. QED BY <2>1, <2>2, <4>1, <4>2, <4>3, <4>4, <4>5, <4>6, <4>7 DEF ConnectionOK
    <3>. QED BY <3>1, <3>2
  <2>. QED BY <2>3 DEF ConnectionsInv
<1>7. ASSUME NEW c \in Clients, Waiting' = Waiting, table' = table, ConnectionOK(c)',
             \A d \in Clients \ {c} : Same(d)
      PROVE  ConnectionsInv'
  BY <1>0, <1>7, ConnectionStays DEF ConnectionsInv
<1>8. ASSUME NEW c \in Clients, ingest' = ingest PROVE Waiting' = Waiting /\ table' = table
  BY <1>8 DEF ingest, Waiting, Left
<1>9. ASSUME NEW c \in Clients, Subscribe(c) PROVE ConnectionsInv'
  <2>1. /\ ingest' = ingest /\ client'[c] = "subscribed" /\ queue'[c] = <<>> /\ here'[c] = <<>>
        /\ through'[c] = None /\ replay'[c] = {}
        /\ \A d \in Clients \ {c} : Same(d)
    BY <1>0, <1>9 DEF Subscribe, ClientsTyped, ConnectionOK
  <2>2. ConnectionOK(c)'
    BY <2>1 DEF ConnectionOK, IsInjective, ToSet
  <2>. QED BY <1>7, <1>8, <2>1, <2>2
<1>10. ASSUME NEW c \in Clients, ReadReplay(c) PROVE ConnectionsInv'
  <2>1. /\ ingest' = ingest /\ client'[c] = "live" /\ queue' = queue /\ here' = here
        /\ replay'[c] = Replayed(c)
        /\ through'[c] = IF Replayed(c) = {} THEN None ELSE Max(Replayed(c))
        /\ \A d \in Clients \ {c} : Same(d)
    BY <1>0, <1>10 DEF ReadReplay, ClientsTyped
  <2>2. ConnectionOK(c) /\ here[c] = <<>>
    BY <1>0, <1>10 DEF ConnectionOK, ReadReplay
  <2>3. /\ Replayed(c) \subseteq ToSet(table)
        /\ Replayed(c) # {} => /\ Max(Replayed(c)) \in Nat
                              /\ \A e \in Replayed(c) : e <= Max(Replayed(c))
    BY ReplayedIds DEF WritersInv
  <2>4. \A e \in replay'[c] : through'[c] # None /\ e <= through'[c]
    BY <2>1, <2>3, StreamAssumption
  <2>5. Waiting' = Waiting /\ table' = table
    BY <1>8, <2>1
  <2>6. ConnectionOK(c)'
    <3>1. ToSet(here[c]) = {}
      BY <2>2 DEF ToSet
    <3>2. \A e \in replay'[c] : Seen(c, e)'
      BY <2>4 DEF Seen
    <3>3. replay'[c] \subseteq ToSet(table)
      BY <2>1, <2>3
    <3>. QED BY <2>1, <2>2, <2>5, <3>1, <3>2, <3>3 DEF ConnectionOK
  <2>. QED BY <1>7, <2>1, <2>5, <2>6
<1>11. ASSUME NEW c \in Clients, DeliverReplay(c) PROVE ConnectionsInv'
  <2>. DEFINE e == Min(replay[c])
  <2>1. /\ ingest' = ingest /\ client' = client /\ queue' = queue /\ through' = through
        /\ replay'[c] = replay[c] \ {e} /\ here'[c] = Append(here[c], e)
        /\ client[c] = "live" /\ \A d \in Clients \ {c} : Same(d)
    BY <1>0, <1>11 DEF DeliverReplay, Deliver, ClientsTyped
  <2>2. e \in replay[c] /\ e \in Nat /\ here[c] \in Seq(Nat) /\ ConnectionOK(c)
    BY <1>0, <1>11, MinIsLeast DEF DeliverReplay, ClientsTyped
  <2>. HIDE DEF e
  <2>3. e \in ToSet(table) /\ e \notin ToSet(here[c]) /\ Seen(c, e)
    BY <2>2 DEF ConnectionOK
  <2>4. ToSet(here'[c]) = ToSet(here[c]) \cup {e} /\ IsInjective(here'[c])
    BY <2>1, <2>2, <2>3, AppendElements, InjectiveAppend DEF ConnectionOK
  <2>5. Waiting' = Waiting /\ table' = table
    BY <1>8, <2>1
  <2>6. \A x : Seen(c, x)' <=> Seen(c, x)
    BY <2>1 DEF Seen
  <2>7. \A x \in ToSet(here'[c]) \cap (ToSet(queue[c]) \cup Waiting) : Seen(c, x)
    BY <2>2, <2>3, <2>4 DEF ConnectionOK
  <2>8. ConnectionOK(c)'
    BY <2>1, <2>2, <2>3, <2>4, <2>5, <2>6, <2>7 DEF ConnectionOK
  <2>. QED BY <1>7, <2>1, <2>5, <2>8
<1>12. ASSUME NEW c \in Clients, DeliverLive(c) PROVE ConnectionsInv'
  <2>0. PICK e : e = Head(queue[c])
    OBVIOUS
  <2>1. /\ ingest' = ingest /\ client' = client /\ replay' = replay /\ through' = through
        /\ queue'[c] = Tail(queue[c]) /\ client[c] = "live" /\ replay[c] = {}
        /\ Seen(c, e) => here'[c] = here[c]
        /\ ~Seen(c, e) => here'[c] = Append(here[c], e)
        /\ \A d \in Clients \ {c} : Same(d)
    BY <1>0, <1>12, <2>0 DEF DeliverLive, Deliver, ClientsTyped
  <2>2. queue[c] \in Seq(Nat) /\ queue[c] # <<>> /\ here[c] \in Seq(Nat) /\ ConnectionOK(c)
    BY <1>0, <1>12 DEF DeliverLive, ClientsTyped
  <2>3. /\ e \in Nat /\ ToSet(queue[c]) = ToSet(Tail(queue[c])) \cup {e}
        /\ e \notin ToSet(Tail(queue[c])) /\ IsInjective(Tail(queue[c]))
    BY <2>0, <2>2, TailElements, InjectiveTail DEF ConnectionOK
  <2>4. Waiting' = Waiting /\ table' = table
    BY <1>8, <2>1
  <2>5. \A x : Seen(c, x)' <=> Seen(c, x)
    BY <2>1 DEF Seen
  <2>6. ASSUME Seen(c, e) PROVE ConnectionOK(c)'
    BY <2>1, <2>2, <2>3, <2>4, <2>5, <2>6 DEF ConnectionOK
  <2>7. ASSUME ~Seen(c, e) PROVE ConnectionOK(c)'
    <3>1. e \notin ToSet(here[c]) /\ e \notin Waiting /\ e \in ToSet(table)
      BY <2>2, <2>3, <2>7 DEF ConnectionOK
    <3>2. ToSet(here'[c]) = ToSet(here[c]) \cup {e} /\ IsInjective(here'[c])
      <4>1. here'[c] = Append(here[c], e) /\ IsInjective(here[c])
        BY <2>1, <2>2, <2>7 DEF ConnectionOK
      <4>. QED BY <2>2, <2>3, <3>1, <4>1, AppendElements, InjectiveAppend
    <3>3. \A x \in ToSet(here'[c]) \cap (ToSet(queue'[c]) \cup Waiting) : Seen(c, x)
      BY <2>1, <2>2, <2>3, <3>1, <3>2 DEF ConnectionOK
    <3>4. ToSet(queue'[c]) \cap Waiting = {} /\ ToSet(queue'[c]) \subseteq ToSet(table)
      BY <2>1, <2>2, <2>3 DEF ConnectionOK
    <3>. QED BY <2>1, <2>2, <2>3, <2>4, <2>5, <3>1, <3>2, <3>3, <3>4 DEF ConnectionOK
  <2>8. ConnectionOK(c)'
    BY <2>6, <2>7
  <2>. QED BY <1>7, <2>1, <2>4, <2>8
<1>13. ASSUME NEW c \in Clients, EndLagged(c) \/ Break(c) PROVE ConnectionsInv'
  <2>1. Disconnected(c) /\ ingest' = ingest
    BY <1>13 DEF EndLagged, Break
  <2>2. /\ client'[c] = "off" /\ through'[c] = None /\ replay'[c] = {}
        /\ queue'[c] = <<>> /\ here'[c] = <<>> /\ \A d \in Clients \ {c} : Same(d)
    BY <1>0, <2>1 DEF Disconnected, ClientsTyped
  <2>. QED BY <1>7, <1>8, <2>1, <2>2, ConnectionOff
<1>14. CASE Tick \/ StepBack \/ UNCHANGED vars
  <2>1. ingest' = ingest /\ conn' = conn
    BY <1>14 DEF Tick, StepBack, vars
  <2>2. Waiting' = Waiting /\ table' = table
    BY <2>1 DEF ingest, Waiting, Left
  <2>. QED BY <1>1, <2>1, <2>2
<1>15. CASE Restart
  <2>1. \A d \in Clients : /\ client'[d] = "off" /\ through'[d] = None /\ replay'[d] = {}
                            /\ queue'[d] = <<>> /\ here'[d] = <<>>
    BY <1>15 DEF Restart
  <2>. QED BY <2>1, ConnectionOff DEF ConnectionsInv
<1>. QED BY <1>2, <1>3, <1>4, <1>5, <1>6, <1>9, <1>10, <1>11, <1>12, <1>13, <1>14, <1>15
         DEF Next, Batch, Stream

\* What a connection holds, in every state.
THEOREM ConnectionsInvCorrect == Spec => []ConnectionsInv
<1>1. Init => ConnectionsInv
  BY ConnectionOff DEF Init, ConnectionsInv, ConnectionOK, IsInjective, ToSet
<1>2. WritersInv /\ WritersInv' /\ ConnectionsInv /\ [Next]_vars => ConnectionsInv'
  BY ConnectionsStep
<1>. QED BY <1>1, <1>2, WritersInvCorrect, PTL DEF Spec

\* One connection delivers no event twice: what both the replay and the receiver hold is
\* dropped by live(), for any number of batches published meanwhile in any order.
THEOREM OncePerConnectionCorrect == Spec => []OncePerConnection
<1>1. ConnectionsInv => OncePerConnection
  BY DEF ConnectionsInv, ConnectionOK, OncePerConnection
<1>. QED BY <1>1, ConnectionsInvCorrect, PTL

-----------------------------------------------------------------------------
(* From one connection to the next: what is skipped, and nothing else. *)

\* What is being written stays above what is stored, until an id is given out that is not.
LEMMA NewestStep ==
  ASSUME WritersInv, NewestLast, ~behind', [Next]_vars
  PROVE  NewestLast'
<1>0. GeneratorOK /\ WritersTyped /\ BatchesOK /\ ToSet(table) \subseteq Nat
  BY WaitingStored DEF WritersInv, TypeOK
<1>1. ASSUME table' = table,
             \A w \in Writers : pc'[w] = "writing" => pc[w] = "writing" /\ batch'[w] = batch[w]
      PROVE  NewestLast'
  BY <1>1 DEF NewestLast
<1>2. ASSUME NEW m \in Minters, Load(m) \/ LoadAgain(m) PROVE NewestLast'
  BY <1>1, <1>2 DEF Load, LoadAgain, ingest
<1>3. ASSUME NEW m \in Minters, Exchange(m) PROVE NewestLast'
  <2>0. PICK id : id = NextId(m)
    OBVIOUS
  <2>1. /\ id \in Nat /\ pc' = pc /\ table' = table
        /\ batch' = (IF m \in Writers THEN [batch EXCEPT ![m] = Append(@, id)] ELSE batch)
        /\ \A e \in ToSet(table) : ~ (id <= e)
    BY <1>0, <1>3, <2>0, GivenIsAbove DEF Exchange, Given
  <2>2. \A e \in ToSet(table) : e < id
    BY <1>0, <2>1
  <2>. SUFFICES ASSUME NEW w \in Writers, pc[w] = "writing",
                       NEW i \in 1 .. Len(batch'[w]), NEW e \in ToSet(table)
                PROVE  e < batch'[w][i]
    BY <2>1 DEF NewestLast
  <2>3. CASE w # m
    BY <1>0, <2>1, <2>3 DEF NewestLast, WritersTyped
  <2>4. CASE w = m
    <3>1. batch'[w] = Append(batch[w], id) /\ batch[w] \in Seq(Nat)
      BY <1>0, <2>1, <2>4 DEF WritersTyped
    <3>2. /\ Len(batch'[w]) = Len(batch[w]) + 1 /\ Len(batch[w]) \in Nat
          /\ batch'[w][Len(batch[w]) + 1] = id
          /\ \A j \in 1 .. Len(batch[w]) : batch'[w][j] = batch[w][j]
      BY <2>1, <3>1
    <3>3. CASE i = Len(batch[w]) + 1
      BY <2>2, <3>2, <3>3
    <3>4. CASE i # Len(batch[w]) + 1
      <4>1. i \in 1 .. Len(batch[w])
        BY <3>2, <3>4
      <4>. QED BY <3>2, <4>1 DEF NewestLast
    <3>. QED BY <3>3, <3>4
  <2>. QED BY <2>3, <2>4
<1>4. ASSUME NEW w \in Writers, BeginBatch(w) PROVE NewestLast'
  <2>1. /\ table' = table /\ batch'[w] = <<>>
        /\ \A v \in Writers \ {w} : pc'[v] = pc[v] /\ batch'[v] = batch[v]
    BY <1>0, <1>4 DEF BeginBatch, WritersTyped
  <2>. QED BY <2>1 DEF NewestLast
<1>5. ASSUME NEW w \in Writers, CommitBatch(w) PROVE NewestLast'
  <2>1. pc[w] = "writing" /\ pc'[w] # "writing" /\ \A v \in Writers \ {w} : pc'[v] = pc[v]
    BY <1>0, <1>5 DEF CommitBatch, WritersTyped
  <2>2. \A v \in Writers : pc'[v] # "writing"
    BY <1>0, <2>1 DEF BatchesOK, BatchOK
  <2>. QED BY <2>2 DEF NewestLast
<1>6. ASSUME NEW w \in Writers, ReadBack(w) \/ GiveUp(w) \/ Publish(w) PROVE NewestLast'
  <2>1. /\ table' = table /\ pc'[w] # "writing"
        /\ \A v \in Writers \ {w} : pc'[v] = pc[v] /\ batch'[v] = batch[v]
    BY <1>0, <1>6 DEF ReadBack, GiveUp, Publish, WritersTyped
  <2>. QED BY <1>1, <2>1
<1>7. ASSUME NEW c \in Clients, Stream(c) \/ Break(c) PROVE NewestLast'
  BY <1>1, <1>7 DEF Stream, Subscribe, ReadReplay, DeliverReplay, DeliverLive, EndLagged,
                    Break, ingest
<1>8. CASE Tick \/ StepBack \/ UNCHANGED vars
  BY <1>1, <1>8 DEF Tick, StepBack, vars, ingest
<1>9. CASE Restart
  BY <1>9 DEF Restart, NewestLast
<1>. QED BY <1>2, <1>3, <1>4, <1>5, <1>6, <1>7, <1>8, <1>9 DEF Next, Mint, Batch

\* What was committed since a client joined is stored.
LEMMA SinceStored ==
  ASSUME WritersInv, NEW d \in Clients
  PROVE  Since(d) \subseteq ToSet(table) /\ Since(d) \subseteq Nat /\ Open(d) \subseteq Since(d)
<1>1. table \in Seq(Nat) /\ joined[d] \in Nat \cup {None}
  BY DEF WritersInv, TypeOK, WritersTyped, ClientsTyped
<1>2. Since(d) \subseteq ToSet(table)
  BY <1>1 DEF Since, ToSet
<1>. QED BY <1>1, <1>2, Elements DEF Open

\* A client left alone, while less may wait and more be skipped.
LEMMA StreamStays ==
  ASSUME NEW d \in Clients, StreamOK(d), table' = table, Waiting' \subseteq Waiting,
         client'[d] = client[d], through'[d] = through[d], replay'[d] = replay[d],
         queue'[d] = queue[d], lastId'[d] = lastId[d], got'[d] = got[d], joined'[d] = joined[d],
         skipped[d] \subseteq skipped'[d],
         Listening(d) => Waiting \subseteq Waiting' \cup got[d] \cup replay[d] \cup skipped'[d]
  PROVE  StreamOK(d)'
<1>1. /\ Seen(d, 0)' = Seen(d, 0) /\ Rereads(d)' = Rereads(d) /\ Listening(d)' = Listening(d)
      /\ Since(d)' = Since(d) /\ ToSet(queue[d])' = ToSet(queue[d])
  BY DEF Seen, Rereads, Listening, Since
<1>2. \A e : Seen(d, e)' <=> Seen(d, e)
  BY DEF Seen
<1>3. Open(d)' \subseteq Open(d) /\ Open(d)' \cap (got[d] \cup skipped'[d]) = {}
  BY <1>1 DEF Open
<1>4. Listening(d) /\ ~Rereads(d) =>
        Open(d)' \subseteq replay[d] \cup ToSet(queue[d]) \cup Waiting'
  BY <1>3 DEF StreamOK
<1>5. \A k \in 1 .. Len(queue[d]), e \in Open(d)' : e < queue[d][k] =>
        \/ e \in replay[d] \/ \E j \in 1 .. k - 1 : queue[d][j] = e
        \/ Rereads(d) /\ e \notin ToSet(queue[d]) \cup Waiting'
  BY <1>3 DEF StreamOK
<1>. QED BY <1>1, <1>2, <1>3, <1>4, <1>5 DEF StreamOK

\* A stream that ended: what is open is still above the id the client holds.
LEMMA StreamOff ==
  ASSUME NEW d \in Clients, StreamOK(d), table' = table, client'[d] = "off",
         through'[d] = None, queue'[d] = <<>>, lastId'[d] = lastId[d], got'[d] = got[d],
         joined'[d] = joined[d], skipped'[d] = skipped[d]
  PROVE  StreamOK(d)'
<1>1. Since(d)' = Since(d) /\ Open(d)' = Open(d) /\ ~Listening(d)' /\ \A e : ~Seen(d, e)'
  BY DEF Since, Open, Listening, Seen
<1>. QED BY <1>1 DEF StreamOK

\* A commit: the new events are above all that is stored, and wait.
LEMMA StreamCommit ==
  ASSUME WritersInv, NEW d \in Clients, StreamOK(d), ConnectionOK(d),
         NEW b \in Seq(Nat), table' = table \o b, ToSet(table)' = ToSet(table) \cup ToSet(b),
         \A x \in ToSet(b), e \in ToSet(table) : e < x, Waiting' = Waiting \cup ToSet(b),
         client'[d] = client[d], through'[d] = through[d], replay'[d] = replay[d],
         queue'[d] = queue[d], lastId'[d] = lastId[d], got'[d] = got[d], joined'[d] = joined[d],
         skipped'[d] = skipped[d]
  PROVE  StreamOK(d)'
<1>1. /\ Rereads(d)' = Rereads(d) /\ Listening(d)' = Listening(d)
      /\ ToSet(queue[d])' = ToSet(queue[d]) /\ \A e : Seen(d, e)' <=> Seen(d, e)
  BY DEF Seen, Rereads, Listening
<1>2. /\ table \in Seq(Nat) /\ joined[d] \in Nat \cup {None} /\ queue[d] \in Seq(Nat)
      /\ ToSet(b) \subseteq Nat /\ ToSet(table) \subseteq Nat /\ replay[d] \subseteq Nat
      /\ through[d] \in Nat \cup {None} /\ lastId[d] \in Nat \cup {None}
  BY Elements DEF WritersInv, TypeOK, WritersTyped, ClientsTyped
<1>3. Since(d)' \subseteq Since(d) \cup ToSet(b)
  <2>. SUFFICES ASSUME joined[d] # None, NEW i \in joined[d] + 1 .. Len(table \o b)
                PROVE  (table \o b)[i] \in Since(d) \cup ToSet(b)
    BY DEF Since
  <2>1. /\ Len(table \o b) = Len(table) + Len(b) /\ Len(table) \in Nat /\ Len(b) \in Nat
        /\ \A j \in 1 .. Len(table) : (table \o b)[j] = table[j]
        /\ \A j \in 1 .. Len(b) : (table \o b)[Len(table) + j] = b[j]
    BY <1>2, ConcatElements
  <2>2. CASE i <= Len(table)
    <3>1. i \in joined[d] + 1 .. Len(table) /\ i \in 1 .. Len(table)
      BY <1>2, <2>1, <2>2
    <3>. QED BY <2>1, <3>1 DEF Since
  <2>3. CASE i > Len(table)
    <3>1. i - Len(table) \in 1 .. Len(b) /\ Len(table) + (i - Len(table)) = i
      BY <1>2, <2>1, <2>3
    <3>. QED BY <2>1, <3>1, Elements
  <2>. QED BY <1>2, <2>1, <2>2, <2>3
<1>4. Open(d)' \subseteq Open(d) \cup ToSet(b)
  BY <1>3 DEF Open
<1>5. \A e \in ToSet(b) : ~Seen(d, e) /\ (lastId[d] # None => lastId[d] < e)
  BY <1>2 DEF StreamOK, Seen
<1>6. \A k \in 1 .. Len(queue[d]), e \in ToSet(b) : ~ (e < queue[d][k])
  <2>. TAKE k \in 1 .. Len(queue[d]), e \in ToSet(b)
  <2>1. queue[d][k] \in ToSet(table)
    <3>1. queue[d][k] \in ToSet(queue[d])
      BY <1>2, Elements
    <3>. QED BY <3>1 DEF ConnectionOK
  <2>2. queue[d][k] < e /\ queue[d][k] \in Nat /\ e \in Nat
    BY <1>2, <2>1
  <2>. QED BY <2>2
<1>7. Open(d) \cap ToSet(b) = {}
  <2>1. Open(d) \subseteq ToSet(table)
    BY SinceStored
  <2>. QED BY <1>2, <2>1
<1>8. \A k \in 1 .. Len(queue[d]), e \in Open(d)' : e < queue[d][k] =>
        \/ e \in replay[d] \/ \E j \in 1 .. k - 1 : queue[d][j] = e
        \/ Rereads(d) /\ e \notin ToSet(queue[d]) \cup Waiting'
  <2>. SUFFICES ASSUME NEW k \in 1 .. Len(queue[d]), NEW e \in Open(d)', e < queue[d][k]
                PROVE  \/ e \in replay[d] \/ \E j \in 1 .. k - 1 : queue[d][j] = e
                       \/ Rereads(d) /\ e \notin ToSet(queue[d]) \cup Waiting'
    OBVIOUS
  <2>1. e \in Open(d) /\ e \notin ToSet(b)
    BY <1>4, <1>6
  <2>. QED BY <2>1 DEF StreamOK
<1>9. {lastId[d], through[d]} \subseteq ToSet(table)' \cup {None}
  BY DEF StreamOK
<1>10. lastId[d] # None => \A e \in Open(d)' : lastId[d] < e
  BY <1>4, <1>5 DEF StreamOK
<1>11. \A e \in Open(d)' : Seen(d, e) => e \in replay[d]
  BY <1>4, <1>5 DEF StreamOK
<1>12. Listening(d) /\ ~Rereads(d) =>
         Open(d)' \subseteq replay[d] \cup ToSet(queue[d]) \cup Waiting'
  BY <1>4 DEF StreamOK
<1>13. Listening(d) \/ lastId[d] # None => joined[d] # None
  BY DEF StreamOK
<1>. QED BY <1>1, <1>8, <1>9, <1>10, <1>11, <1>12, <1>13 DEF StreamOK

\* An event sent: what waits below it is skipped, so nothing open is behind it.
LEMMA StreamPublish ==
  ASSUME WritersInv, NEW d \in Clients, StreamOK(d), ConnectionOK(d), Listening(d),
         NEW x \in Nat, x \in Waiting, table' = table, Waiting' = Waiting \ {x},
         client'[d] = client[d], through'[d] = through[d], replay'[d] = replay[d],
         lastId'[d] = lastId[d], got'[d] = got[d], joined'[d] = joined[d],
         queue'[d] = Append(queue[d], x), skipped'[d] = skipped[d] \cup Passed(d, x)
  PROVE  StreamOK(d)'
<1>1. /\ Rereads(d)' = Rereads(d) /\ Listening(d)' = Listening(d)
      /\ Since(d)' = Since(d) /\ \A e : Seen(d, e)' <=> Seen(d, e)
  BY DEF Seen, Rereads, Listening, Since
<1>2. queue[d] \in Seq(Nat) /\ Len(queue[d]) \in Nat /\ Open(d) \subseteq Nat
  BY SinceStored DEF WritersInv, TypeOK, ClientsTyped
<1>3. /\ ToSet(queue'[d]) = ToSet(queue[d]) \cup {x} /\ Len(queue'[d]) = Len(queue[d]) + 1
      /\ queue'[d][Len(queue[d]) + 1] = x
      /\ \A j \in 1 .. Len(queue[d]) : queue'[d][j] = queue[d][j]
  BY <1>2, AppendElements
<1>4. Open(d)' \subseteq Open(d) /\ Open(d)' \cap Passed(d, x) = {}
  BY <1>1 DEF Open
<1>5. \A e \in Open(d)' : e \in Waiting /\ e < x => e \in replay[d]
  BY <1>4 DEF Passed, Open
<1>6. Listening(d) /\ ~Rereads(d) =>
        Open(d)' \subseteq replay[d] \cup ToSet(queue'[d]) \cup Waiting'
  BY <1>3, <1>4 DEF StreamOK
<1>7. \A k \in 1 .. Len(queue'[d]), e \in Open(d)' : e < queue'[d][k] =>
        \/ e \in replay[d] \/ \E j \in 1 .. k - 1 : queue'[d][j] = e
        \/ Rereads(d) /\ e \notin ToSet(queue'[d]) \cup Waiting'
  <2>. SUFFICES ASSUME NEW k \in 1 .. Len(queue[d]) + 1, NEW e \in Open(d)',
                       e < queue'[d][k]
                PROVE  \/ e \in replay[d] \/ \E j \in 1 .. k - 1 : queue'[d][j] = e
                       \/ Rereads(d) /\ e \notin ToSet(queue'[d]) \cup Waiting'
    BY <1>3
  <2>0. e \in Open(d)
    BY <1>4
  <2>1. CASE k # Len(queue[d]) + 1
    <3>1. k \in 1 .. Len(queue[d]) /\ queue'[d][k] = queue[d][k]
      BY <1>2, <1>3, <2>1
    <3>2. \/ e \in replay[d] \/ \E j \in 1 .. k - 1 : queue[d][j] = e
          \/ Rereads(d) /\ e \notin ToSet(queue[d]) \cup Waiting
      BY <2>0, <3>1 DEF StreamOK
    <3>3. \A j \in 1 .. k - 1 : queue'[d][j] = queue[d][j]
      BY <1>2, <1>3, <3>1
    <3>. QED BY <1>3, <3>2, <3>3
  <2>2. CASE k = Len(queue[d]) + 1
    <3>1. e < x /\ e # x
      BY <1>2, <1>3, <2>0, <2>2
    <3>2. CASE e \in Waiting
      BY <1>5, <3>1, <3>2
    <3>3. CASE e \in ToSet(queue[d])
      <4>1. PICK j \in 1 .. Len(queue[d]) : queue[d][j] = e
        BY <1>2, <3>3, Elements
      <4>2. j \in 1 .. k - 1 /\ queue'[d][j] = e
        BY <1>2, <1>3, <2>2, <4>1
      <4>. QED BY <4>2
    <3>4. CASE e \notin Waiting /\ e \notin ToSet(queue[d])
      BY <1>3, <2>0, <3>1, <3>4 DEF StreamOK
    <3>. QED BY <3>2, <3>3, <3>4
  <2>. QED BY <2>1, <2>2
<1>. QED BY <1>1, <1>4, <1>6, <1>7 DEF StreamOK

\* A subscription: what was committed before a client's first brought anything is not its own.
LEMMA StreamSubscribe ==
  ASSUME WritersInv, NEW d \in Clients, StreamOK(d), ConnectionOK(d), Subscribe(d)
  PROVE  StreamOK(d)'
<1>1. /\ client'[d] = "subscribed" /\ queue'[d] = <<>> /\ table' = table
      /\ through'[d] = None /\ lastId' = lastId /\ got' = got /\ skipped' = skipped
      /\ joined'[d] = IF lastId[d] = None THEN Len(table) ELSE joined[d]
  BY DEF Subscribe, ingest, ConnectionOK, WritersInv, TypeOK, ClientsTyped
<1>2. Len(table) \in Nat /\ Len(table) # None
  BY StreamAssumption DEF WritersInv, TypeOK, WritersTyped
<1>3. \A e : ~Seen(d, e)'
  BY <1>1 DEF Seen
<1>4. CASE lastId[d] = None
  <2>1. Open(d)' = {}
    BY <1>1, <1>2, <1>4 DEF Open, Since
  <2>. QED BY <1>1, <1>2, <1>4, <2>1 DEF StreamOK
<1>5. CASE lastId[d] # None
  <2>1. Open(d)' = Open(d) /\ Rereads(d)'
    BY <1>1, <1>5 DEF Open, Since, Rereads
  <2>. QED BY <1>1, <1>3, <1>5, <2>1 DEF StreamOK
<1>. QED BY <1>4, <1>5

\* The replay: what is open is in its page, or on its way, or cut off.
LEMMA StreamReadReplay ==
  ASSUME WritersInv, NEW d \in Clients, StreamOK(d), ConnectionOK(d), ReadReplay(d)
  PROVE  StreamOK(d)'
<1>. DEFINE R == Replayed(d)
<1>1. /\ client[d] = "subscribed" /\ client'[d] = "live" /\ queue' = queue /\ table' = table
      /\ replay'[d] = R /\ through'[d] = (IF R = {} THEN None ELSE Max(R))
      /\ lastId' = lastId /\ got' = got /\ joined' = joined
      /\ skipped'[d] = skipped[d] \cup CutOff(d) /\ pc' = pc /\ batch' = batch
  BY DEF ReadReplay, ingest, held, WritersInv, TypeOK, ClientsTyped
<1>2. /\ R \subseteq ToSet(table) /\ R \subseteq Nat
      /\ R # {} => Max(R) \in R /\ Max(R) \in Nat /\ \A e \in R : e <= Max(R)
  BY ReplayedIds DEF WritersInv
<1>3. /\ Open(d) \subseteq ToSet(table) /\ Open(d) \subseteq Nat /\ table \in Seq(Nat)
      /\ lastId[d] \in Nat \cup {None}
  BY SinceStored DEF WritersInv, TypeOK, WritersTyped, ClientsTyped
<1>4. /\ Since(d)' = Since(d) /\ Waiting' = Waiting /\ ~Rereads(d)' /\ replay[d] = {}
      /\ Open(d)' \subseteq Open(d) /\ Open(d)' \cap CutOff(d) = {}
  BY <1>1 DEF Since, Waiting, Left, Rereads, Open, ConnectionOK
<1>5. \A e \in Open(d)' : e \in R \/ (Rereads(d) => e \in ToSet(queue[d]) \cup Waiting)
  <2>. SUFFICES ASSUME NEW e \in Open(d)', e \notin R, Rereads(d)
                PROVE  e \in ToSet(queue[d]) \cup Waiting
    OBVIOUS
  <2>1. e \in Open(d) /\ lastId[d] \in Nat /\ lastId[d] < e /\ R = Page(lastId[d])
    BY <1>3, <1>4 DEF Rereads, StreamOK, Replayed
  <2>2. R # {}
    BY <1>3, <2>1, PageIsPrefix
  <2>3. ~ (e <= Max(R))
    BY <1>2, <1>3, <2>1, <2>2, PageIsPrefix
  <2>4. e > Max(R)
    BY <1>2, <1>3, <2>1, <2>2, <2>3
  <2>. QED BY <1>3, <1>4, <2>1, <2>2, <2>4 DEF CutOff
<1>6. \A e \in Open(d)' : R # {} /\ e <= Max(R) => e \in R
  <2>. SUFFICES ASSUME NEW e \in Open(d)', R # {}, e <= Max(R) PROVE e \in R
    OBVIOUS
  <2>1. lastId[d] \in Nat /\ R = Page(lastId[d])
    BY <1>3 DEF Replayed
  <2>2. e \in Open(d) /\ lastId[d] < e
    BY <1>4, <2>1, StreamAssumption DEF StreamOK
  <2>. QED BY <1>2, <1>3, <2>1, <2>2, PageIsPrefix
<1>7. \A e \in Open(d)' : e \in R \/ e \in ToSet(queue[d]) \cup Waiting
  BY <1>1, <1>4, <1>5 DEF StreamOK, Listening
<1>8. \A k \in 1 .. Len(queue[d]), e \in Open(d)' : e < queue[d][k] =>
        e \in R \/ \E j \in 1 .. k - 1 : queue[d][j] = e
  <2>. SUFFICES ASSUME NEW k \in 1 .. Len(queue[d]), NEW e \in Open(d)', e < queue[d][k],
                       e \notin R
                PROVE  \E j \in 1 .. k - 1 : queue[d][j] = e
    OBVIOUS
  <2>1. e \in Open(d) /\ e \notin replay[d]
    BY <1>4
  <2>. QED BY <1>7, <2>1 DEF StreamOK
<1>9. \A e \in Open(d)' : Seen(d, e)' => e \in R
  BY <1>1, <1>6 DEF Seen
<1>10. {lastId[d], through'[d]} \subseteq ToSet(table) \cup {None}
  BY <1>1, <1>2 DEF StreamOK
<1>11. joined[d] # None /\ (lastId[d] # None => \A e \in Open(d)' : lastId[d] < e)
  BY <1>1, <1>4 DEF StreamOK, Listening
<1>. QED BY <1>1, <1>4, <1>7, <1>8, <1>9, <1>10, <1>11 DEF StreamOK

\* The least of the replay is delivered: what is open is in the rest of it, or newer.
LEMMA StreamDeliverReplay ==
  ASSUME WritersInv, NEW d \in Clients, StreamOK(d), ConnectionOK(d), DeliverReplay(d)
  PROVE  StreamOK(d)'
<1>0. PICK m : m = Min(replay[d])
  OBVIOUS
<1>1. /\ client[d] = "live" /\ client' = client /\ queue' = queue /\ through' = through
      /\ table' = table /\ pc' = pc /\ batch' = batch /\ joined' = joined
      /\ skipped' = skipped /\ replay'[d] = replay[d] \ {m}
      /\ got'[d] = got[d] \cup {m} /\ lastId'[d] = m
  BY <1>0 DEF DeliverReplay, Deliver, ingest, WritersInv, TypeOK, ClientsTyped
<1>2. replay[d] \subseteq Nat /\ m \in replay[d] /\ \A e \in replay[d] : m <= e
  BY <1>0, MinIsLeast DEF DeliverReplay, WritersInv, TypeOK, ClientsTyped
<1>3. /\ m \in Nat /\ m \in ToSet(table) /\ through[d] \in Nat /\ m <= through[d]
  BY <1>2, StreamAssumption DEF ConnectionOK, Seen, WritersInv, TypeOK, ClientsTyped
<1>4. /\ Since(d)' = Since(d) /\ Waiting' = Waiting /\ ~Rereads(d) /\ ~Rereads(d)'
      /\ Listening(d) /\ joined[d] # None
  BY <1>1 DEF Since, Waiting, Left, Rereads, Listening, StreamOK
<1>5. Open(d)' \subseteq Open(d) /\ m \notin Open(d)' /\ Open(d) \subseteq Nat
  BY <1>1, <1>4, SinceStored DEF Open
<1>6. \A e \in Open(d)' : m < e
  <2>. SUFFICES ASSUME NEW e \in Open(d)' PROVE m < e
    OBVIOUS
  <2>1. e \in Nat /\ e # m /\ e \in Open(d)
    BY <1>5
  <2>2. CASE e \in replay[d]
    BY <1>2, <1>3, <2>1, <2>2
  <2>3. CASE e \notin replay[d]
    <3>1. ~ (e <= through[d])
      BY <1>3, <2>1, <2>3, StreamAssumption DEF StreamOK, Seen
    <3>. QED BY <1>3, <2>1, <3>1
  <2>. QED BY <2>2, <2>3
<1>7. \A e : Seen(d, e)' <=> Seen(d, e)
  BY <1>1 DEF Seen
<1>8. Open(d)' \subseteq replay'[d] \cup ToSet(queue[d]) \cup Waiting
  BY <1>1, <1>4, <1>5 DEF StreamOK
<1>9. \A k \in 1 .. Len(queue[d]), e \in Open(d)' : e < queue[d][k] =>
        e \in replay'[d] \/ \E j \in 1 .. k - 1 : queue[d][j] = e
  BY <1>1, <1>4, <1>5 DEF StreamOK
<1>10. \A e \in Open(d)' : Seen(d, e) => e \in replay'[d]
  BY <1>1, <1>5 DEF StreamOK
<1>11. {lastId'[d], through'[d]} \subseteq ToSet(table) \cup {None}
  BY <1>1, <1>3 DEF StreamOK
<1>. QED BY <1>1, <1>4, <1>6, <1>7, <1>8, <1>9, <1>10, <1>11 DEF StreamOK

\* The receiver's first event, delivered or dropped as seen: nothing open is behind it.
LEMMA StreamDeliverLive ==
  ASSUME WritersInv, NEW d \in Clients, StreamOK(d), ConnectionOK(d), DeliverLive(d)
  PROVE  StreamOK(d)'
<1>0. PICK x : x = Head(queue[d])
  OBVIOUS
<1>1. /\ client[d] = "live" /\ client' = client /\ replay' = replay /\ replay[d] = {}
      /\ through' = through /\ table' = table /\ pc' = pc /\ batch' = batch
      /\ joined' = joined /\ skipped' = skipped /\ queue'[d] = Tail(queue[d])
      /\ Seen(d, x) => lastId'[d] = lastId[d] /\ got'[d] = got[d]
      /\ ~Seen(d, x) => lastId'[d] = x /\ got'[d] = got[d] \cup {x}
  BY <1>0 DEF DeliverLive, Deliver, ingest, WritersInv, TypeOK, ClientsTyped
<1>2. queue[d] \in Seq(Nat) /\ queue[d] # <<>>
  BY DEF DeliverLive, WritersInv, TypeOK, ClientsTyped
<1>3. /\ x \in ToSet(queue[d]) /\ x \in Nat /\ x = queue[d][1] /\ Len(queue[d]) \in Nat \ {0}
      /\ ToSet(queue[d]) = ToSet(Tail(queue[d])) \cup {x}
      /\ Len(Tail(queue[d])) = Len(queue[d]) - 1
      /\ \A i \in 1 .. Len(queue[d]) - 1 : Tail(queue[d])[i] = queue[d][i + 1]
  BY <1>0, <1>2, TailElements
<1>4. /\ Since(d)' = Since(d) /\ Waiting' = Waiting /\ ~Rereads(d) /\ ~Rereads(d)'
      /\ Listening(d) /\ joined[d] # None /\ \A e : Seen(d, e)' <=> Seen(d, e)
  BY <1>1 DEF Since, Waiting, Left, Rereads, Listening, Seen, StreamOK
<1>5. Open(d)' \subseteq Open(d) /\ x \notin Open(d)' /\ Open(d) \subseteq Nat
  <2>1. Seen(d, x) => x \notin Open(d)
    BY <1>1 DEF StreamOK
  <2>. QED BY <1>1, <1>4, <2>1, SinceStored DEF Open
<1>6. \A k \in 1 .. Len(queue[d]), e \in Open(d)' : e < queue[d][k] =>
        \E j \in 1 .. k - 1 : queue[d][j] = e
  BY <1>1, <1>4, <1>5 DEF StreamOK
<1>7. \A e \in Open(d)' : x < e
  <2>. SUFFICES ASSUME NEW e \in Open(d)' PROVE x < e
    OBVIOUS
  <2>1. ~ (e < queue[d][1])
    BY <1>3, <1>6
  <2>. QED BY <1>3, <1>5, <2>1
<1>8. lastId'[d] # None => \A e \in Open(d)' : lastId'[d] < e
  BY <1>1, <1>5, <1>7 DEF StreamOK
<1>9. Open(d)' \subseteq replay[d] \cup ToSet(queue'[d]) \cup Waiting
  BY <1>1, <1>3, <1>4, <1>5 DEF StreamOK
<1>10. \A k \in 1 .. Len(queue'[d]), e \in Open(d)' : e < queue'[d][k] =>
         \E j \in 1 .. k - 1 : queue'[d][j] = e
  <2>. SUFFICES ASSUME NEW k \in 1 .. Len(queue[d]) - 1, NEW e \in Open(d)',
                       e < queue[d][k + 1]
                PROVE  \E j \in 1 .. k - 1 : queue'[d][j] = e
    BY <1>1, <1>3
  <2>1. PICK j \in 1 .. k : queue[d][j] = e
    <3>1. k + 1 \in 1 .. Len(queue[d]) /\ (k + 1) - 1 = k
      BY <1>3
    <3>. QED BY <1>6, <3>1
  <2>2. j # 1
    BY <1>3, <1>5, <2>1
  <2>3. j - 1 \in 1 .. k - 1 /\ j - 1 \in 1 .. Len(queue[d]) - 1 /\ (j - 1) + 1 = j
    BY <1>3, <2>2
  <2>4. queue'[d][j - 1] = e
    BY <1>1, <1>3, <2>1, <2>3
  <2>. QED BY <2>3, <2>4
<1>11. \A e \in Open(d)' : ~Seen(d, e)
  BY <1>1, <1>5 DEF StreamOK
<1>12. {lastId'[d], through'[d]} \subseteq ToSet(table) \cup {None}
  <2>1. x \in ToSet(table)
    BY <1>3 DEF ConnectionOK
  <2>. QED BY <1>1, <2>1 DEF StreamOK
<1>. QED BY <1>1, <1>4, <1>8, <1>9, <1>10, <1>11, <1>12 DEF StreamOK

LEMMA StreamsStep ==
  ASSUME WritersInv, ConnectionsInv, StreamsInv, [Next]_vars
  PROVE  StreamsInv'
<1>. SUFFICES ASSUME ~behind' PROVE NewestLast' /\ \A d \in Clients : StreamOK(d)'
  BY DEF StreamsInv
<1>1. ~behind
  BY DEF Next, Mint, Load, Exchange, LoadAgain, Given, Batch, BeginBatch, CommitBatch, ReadBack,
         Publish, GiveUp, Stream, Subscribe, ReadReplay, DeliverReplay, DeliverLive, EndLagged,
         Break, Tick, StepBack, Restart, vars
<1>2. NewestLast /\ \A d \in Clients : StreamOK(d) /\ ConnectionOK(d)
  BY <1>1 DEF StreamsInv, ConnectionsInv
<1>3. NewestLast'
  BY <1>2, NewestStep
<1>4. ClientsTyped
  BY DEF WritersInv, TypeOK
<1>. DEFINE Same(d) == /\ client'[d] = client[d] /\ through'[d] = through[d]
                       /\ replay'[d] = replay[d] /\ queue'[d] = queue[d]
                       /\ lastId'[d] = lastId[d] /\ got'[d] = got[d] /\ joined'[d] = joined[d]
                       /\ skipped'[d] = skipped[d]
<1>. SUFFICES ASSUME NEW d \in Clients PROVE StreamOK(d)'
  BY <1>3
<1>5. ASSUME Same(d), table' = table, Waiting' = Waiting PROVE StreamOK(d)'
  BY <1>2, <1>5, StreamStays
<1>6. ASSUME conn' = conn, held' = held, skipped' = skipped PROVE Same(d)
  BY <1>6 DEF conn, held
<1>7. ASSUME NEW m \in Minters, Mint(m) PROVE StreamOK(d)'
  <2>1. conn' = conn /\ held' = held /\ skipped' = skipped
    BY <1>7 DEF Mint, Load, Exchange, LoadAgain
  <2>. QED BY <1>5, <1>6, <1>7, <2>1, MintWaiting
<1>8. ASSUME NEW w \in Writers, BeginBatch(w) PROVE StreamOK(d)'
  <2>1. conn' = conn /\ held' = held /\ skipped' = skipped
    BY <1>8 DEF BeginBatch
  <2>. QED BY <1>5, <1>6, <1>8, <2>1, BeginWaiting
<1>9. ASSUME NEW w \in Writers, CommitBatch(w) PROVE StreamOK(d)'
  <2>1. Same(d)
    BY <1>6, <1>9 DEF CommitBatch
  <2>2. CASE Waiting' = Waiting /\ table' = table
    BY <1>5, <2>1, <2>2
  <2>3. CASE /\ Waiting' = Waiting \cup ToSet(batch[w])
             /\ table' = table \o batch[w] /\ batch[w] \in Seq(Nat)
             /\ ToSet(table)' = ToSet(table) \cup ToSet(batch[w])
    <3>1. \A x \in ToSet(batch[w]), e \in ToSet(table) : e < x
      <4>1. pc[w] = "writing"
        BY <1>9 DEF CommitBatch
      <4>. QED BY <1>2, <2>3, <4>1, Elements DEF NewestLast
    <3>. QED BY <1>2, <2>1, <2>3, <3>1, StreamCommit
  <2>. QED BY <1>9, <2>2, <2>3, CommitWaiting
<1>10. ASSUME NEW w \in Writers, ReadBack(w) PROVE StreamOK(d)'
  <2>1. conn' = conn /\ held' = held
    BY <1>10 DEF ReadBack
  <2>2. table' = table /\ Waiting' \subseteq Waiting /\ Waiting \subseteq Waiting' \cup Left(w)
    BY <1>10, ReadBackWaiting
  <2>3. skipped[d] \subseteq skipped'[d]
    BY <1>4, <1>10 DEF ReadBack, ClientsTyped
  <2>4. Listening(d) => Waiting \subseteq Waiting' \cup got[d] \cup replay[d] \cup skipped'[d]
    <3>. SUFFICES ASSUME Listening(d)
                  PROVE  Waiting \subseteq Waiting' \cup got[d] \cup replay[d] \cup skipped'[d]
      OBVIOUS
    <3>1. CASE pc' = [pc EXCEPT ![w] = IF Heard THEN "publishing" ELSE "idle"]
      <4>1. pc'[w] = "publishing"
        BY <3>1 DEF Heard, WritersInv, TypeOK, WritersTyped
      <4>. QED BY <1>10, <4>1, ReadBackWaiting
    <3>2. CASE skipped' = [c \in Clients |-> skipped[c] \cup Lost(c, w)]
      BY <2>2, <3>2 DEF Lost
    <3>. QED BY <1>10, <3>1, <3>2 DEF ReadBack
  <2>. QED BY <1>2, <2>1, <2>2, <2>3, <2>4, StreamStays DEF conn, held
<1>11. ASSUME NEW w \in Writers, GiveUp(w) PROVE StreamOK(d)'
  <2>1. conn' = conn /\ held' = held /\ skipped' = skipped /\ ~Listening(d)
    BY <1>11 DEF GiveUp, Heard
  <2>2. table' = table /\ Waiting' \subseteq Waiting
    BY <1>11, ReadBackWaiting
  <2>. QED BY <1>2, <1>6, <2>1, <2>2, StreamStays
<1>12. ASSUME NEW w \in Writers, Publish(w) PROVE StreamOK(d)'
  <2>0. PICK x : x = Head(batch[w])
    OBVIOUS
  <2>1. table' = table /\ Waiting' = Waiting \ {x} /\ x \in Waiting /\ x \in Nat
    BY <1>12, <2>0, PublishWaiting
  <2>2. /\ client' = client /\ through' = through /\ replay' = replay /\ held' = held
        /\ queue'[d] = IF Listening(d) THEN Append(queue[d], x) ELSE queue[d]
        /\ skipped'[d] = skipped[d] \cup Passed(d, x)
    BY <1>12, <2>0 DEF Publish
  <2>3. CASE Listening(d)
    BY <1>2, <2>1, <2>2, <2>3, StreamPublish DEF held
  <2>4. CASE ~Listening(d)
    BY <1>2, <2>1, <2>2, <2>4, StreamStays DEF held
  <2>. QED BY <2>3, <2>4
<1>13. ASSUME ingest' = ingest PROVE table' = table /\ Waiting' = Waiting
  BY <1>13 DEF ingest, Waiting, Left
<1>14. ASSUME NEW c \in Clients, Stream(c) \/ Break(c), c # d PROVE StreamOK(d)'
  <2>1. ingest' = ingest
    BY <1>14 DEF Stream, Subscribe, ReadReplay, DeliverReplay, DeliverLive, EndLagged, Break
  <2>2. Same(d)
    <3>1. CASE Subscribe(c) \/ ReadReplay(c)
      BY <1>4, <1>14, <3>1 DEF Subscribe, ReadReplay, held, ClientsTyped
    <3>2. CASE DeliverReplay(c)
      BY <1>4, <1>14, <3>2 DEF DeliverReplay, Deliver, ClientsTyped
    <3>3. CASE DeliverLive(c)
      BY <1>4, <1>14, <3>3 DEF DeliverLive, Deliver, ClientsTyped
    <3>4. CASE EndLagged(c) \/ Break(c)
      BY <1>4, <1>14, <3>4 DEF EndLagged, Break, Disconnected, held, ClientsTyped
    <3>. QED BY <1>14, <3>1, <3>2, <3>3, <3>4 DEF Stream
  <2>. QED BY <1>5, <1>13, <2>1, <2>2
<1>15. CASE EndLagged(d) \/ Break(d)
  <2>1. /\ table' = table /\ client'[d] = "off" /\ through'[d] = None /\ queue'[d] = <<>>
        /\ held' = held /\ skipped' = skipped
    BY <1>4, <1>15 DEF EndLagged, Break, Disconnected, ingest, ClientsTyped
  <2>. QED BY <1>2, <2>1, StreamOff DEF held
<1>16. CASE Stream(d)
  BY <1>2, <1>15, <1>16, StreamSubscribe, StreamReadReplay, StreamDeliverReplay,
     StreamDeliverLive DEF Stream
<1>17. CASE Tick \/ StepBack \/ UNCHANGED vars
  <2>1. ingest' = ingest /\ conn' = conn /\ held' = held /\ skipped' = skipped
    BY <1>17 DEF Tick, StepBack, vars
  <2>. QED BY <1>5, <1>6, <1>13, <2>1
<1>18. CASE Restart
  <2>1. /\ table' = table /\ client'[d] = "off" /\ through'[d] = None /\ queue'[d] = <<>>
        /\ held' = held /\ skipped' = skipped
    BY <1>18 DEF Restart
  <2>. QED BY <1>2, <2>1, StreamOff DEF held
<1>. QED BY <1>7, <1>8, <1>9, <1>10, <1>11, <1>12, <1>14, <1>15, <1>16, <1>17, <1>18
         DEF Next, Batch

\* Whatever lags, breaks or restarts: what a client has not got and will not be replayed is
\* what a full page cut off, a failed read lost or a later batch overtook; for any number of
\* batches and clients, any page, any backlog.
THEOREM OnlySkippedMissedCorrect == Spec => []OnlySkippedMissed
<1>1. Init => StreamsInv
  <2>. SUFFICES ASSUME Init, NEW c \in Clients PROVE NewestLast /\ StreamOK(c)
    BY DEF StreamsInv, Init, NewestLast
  <2>1. NewestLast
    BY DEF Init, NewestLast
  <2>2. Open(c) = {} /\ ~Listening(c) /\ lastId[c] = None /\ through[c] = None
    BY DEF Init, Open, Since, Listening
  <2>. QED BY <2>1, <2>2 DEF StreamOK
<1>2. WritersInv /\ ConnectionsInv /\ StreamsInv /\ [Next]_vars => StreamsInv'
  BY StreamsStep
<1>3. WritersInv /\ StreamsInv => OnlySkippedMissed
  <2>. SUFFICES ASSUME WritersInv, StreamsInv, ~behind, NEW c \in Clients, NEW e \in Missed(c)
                PROVE  e \in skipped[c]
    BY DEF OnlySkippedMissed
  <2>1. /\ StreamOK(c) /\ Since(c) \subseteq Nat /\ lastId[c] \in Nat \cup {None}
    BY SinceStored DEF StreamsInv, WritersInv, TypeOK, ClientsTyped
  <2>2. e \in Since(c) \ got[c] /\ lastId[c] # None /\ e <= lastId[c]
    BY DEF Missed
  <2>3. ~ (lastId[c] < e)
    BY <2>1, <2>2
  <2>4. e \notin Open(c)
    BY <2>1, <2>2, <2>3 DEF StreamOK
  <2>. QED BY <2>2, <2>4 DEF Open
<1>. QED BY <1>1, <1>2, <1>3, WritersInvCorrect, ConnectionsInvCorrect, PTL DEF Spec

=============================================================================
