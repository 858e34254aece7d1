--------------------------- MODULE PricingProofs ---------------------------
(***************************************************************************)
(* What holds of prices and costs for every map, record, manual price and   *)
(* interleaving of fills, reprices and syncs: a priced event keeps the cost *)
(* of one row that was in force when it happened, each token a record       *)
(* states in a class is charged once, and a map's row costs what the maps   *)
(* recorded tell, in whatever order their syncs wrote.                      *)
(***************************************************************************)
EXTENDS Pricing, TLAPS, FiniteSetTheorems, WellFoundedInduction

---------------------------------------------------------------------------
(* The ranking has a first row *)

\* Integers below a bound have a greatest.
LEMMA Greatest ==
  ASSUME NEW S, S # {}, NEW key, NEW b \in Int,
         \A s \in S : key[s] \in Int /\ key[s] <= b
  PROVE  \E m \in S : \A s \in S : key[s] <= key[m]
<1>. DEFINE Below == {b - key[s] : s \in S}
<1>1. Below \subseteq Nat /\ Below # {}
  OBVIOUS
<1>2. PICK d \in Below : \A g \in Below : <<g, d>> \notin OpToRel(<, Nat)
  <2>. HIDE DEF Below
  <2>. QED BY <1>1, NatLessThanWellFounded, WFMin, Zenon
<1>3. \A g \in Below : ~ (g < d)
  BY <1>1, <1>2 DEF OpToRel
<1>4. PICK m \in S : d = b - key[m]
  OBVIOUS
<1>5. ASSUME NEW s \in S
      PROVE  key[s] <= key[m]
  <2>1. ~ (b - key[s] < b - key[m])
    BY <1>3, <1>4
  <2>. QED BY <2>1
<1>. QED BY <1>5

\* T are the rows of C that lead by their first k keys: they tie in these, and
\* every other row falls behind at one of them.
Lead(C, rank, k, T) ==
    /\ T # {} /\ T \subseteq C
    /\ \A s, t \in T : \A l \in 1 .. k : rank[s][l] = rank[t][l]
    /\ \A s \in T : \A t \in C \ T :
          \E l \in 1 .. k : /\ rank[s][l] > rank[t][l]
                            /\ \A m \in 1 .. (l - 1) : rank[s][m] = rank[t][m]

LEMMA LeadByOneMore ==
  ASSUME NEW C, NEW rank, NEW k \in Nat, NEW S, Lead(C, rank, k, S),
         NEW b \in Int, \A s \in S : rank[s][k + 1] \in Int /\ rank[s][k + 1] <= b
  PROVE  \E T \in SUBSET S : Lead(C, rank, k + 1, T)
<1>. DEFINE key == [s \in S |-> rank[s][k + 1]]
<1>1. PICK f \in S : \A s \in S : key[s] <= key[f]
  <2>1. \A s \in S : key[s] \in Int /\ key[s] <= b
    OBVIOUS
  <2>2. S # {}
    BY DEF Lead
  <2>. HIDE DEF key
  <2>. QED BY <2>1, <2>2, Greatest
<1>. DEFINE T == {s \in S : rank[s][k + 1] = rank[f][k + 1]}
<1>2. T # {} /\ T \subseteq S /\ T \subseteq C
  BY DEF Lead
<1>3. ASSUME NEW s \in T, NEW t \in T, NEW l \in 1 .. (k + 1)
      PROVE  rank[s][l] = rank[t][l]
  <2>1. CASE l \in 1 .. k
    BY <2>1 DEF Lead
  <2>2. CASE l = k + 1
    BY <2>2
  <2>. QED BY <2>1, <2>2
<1>4. ASSUME NEW s \in T, NEW t \in C \ T
      PROVE  \E l \in 1 .. (k + 1) : /\ rank[s][l] > rank[t][l]
                                     /\ \A m \in 1 .. (l - 1) : rank[s][m] = rank[t][m]
  <2>1. CASE t \notin S
    <3>1. \E l \in 1 .. k : /\ rank[s][l] > rank[t][l]
                            /\ \A m \in 1 .. (l - 1) : rank[s][m] = rank[t][m]
      BY <2>1 DEF Lead
    <3>. QED BY <3>1
  <2>2. CASE t \in S
    <3>1. rank[s][k + 1] > rank[t][k + 1]
      BY <1>1, <2>2
    <3>2. \A m \in 1 .. k : rank[s][m] = rank[t][m]
      BY <2>2 DEF Lead
    <3>. QED BY <3>1, <3>2
  <2>. QED BY <2>1, <2>2
<1>5. Lead(C, rank, k + 1, T)
  <2>. HIDE DEF T
  <2>. QED BY <1>2, <1>3, <1>4 DEF Lead
<1>. QED BY <1>2, <1>5

\* The row a fill chooses is one it may choose and ranks above every other: the keys
\* of the ranking are bounded, and its last one tells the rows of an origin apart.
LEMMA ChoiceIsFirst ==
  ASSUME PricesInv, NEW q, q.input \in Int, q.at \in Int, Candidates(q) # {}
  PROVE  /\ Choice(q) \in Candidates(q)
         /\ \A j \in Candidates(q) \ {Choice(q)} : Above(Rank(Choice(q), q), Rank(j, q))
<1>. DEFINE C == Candidates(q)
            rank == [i \in C |-> Rank(i, q)]
<1>1. \A i \in C : /\ i = <<i[1], i[2]>> /\ i[1] \in Origins /\ i[2] \in DOMAIN prices[i[1]]
                   /\ At(i).min <= q.input /\ At(i).from <= q.at
  BY DEF Candidates, Applies
<1>2. \A i \in C : /\ At(i).min \in Int /\ At(i).from \in Int
                   /\ i[2] \in Nat /\ i[2] <= Len(prices[i[1]]) /\ Len(prices[i[1]]) \in Nat
  <2>1. \A o \in Origins : DOMAIN prices[o] = 1 .. Len(prices[o]) /\ Len(prices[o]) \in Nat
    BY DEF PricesInv
  <2>2. \A i \in C : At(i).min \in Int /\ At(i).from \in Int
    BY <1>1 DEF At, PricesInv
  <2>. HIDE DEF C
  <2>. QED BY <1>1, <2>1, <2>2
<1>3. \A i \in C : /\ rank[i] = Rank(i, q) /\ DOMAIN rank[i] = 1 .. 7
                   /\ rank[i][1] \in 0 .. 1 /\ rank[i][2] \in 0 .. 1
                   /\ rank[i][3] = OriginRank(i[1]) /\ OriginRank(i[1]) \in 0 .. 2
                   /\ rank[i][4] = At(i).min /\ rank[i][5] \in 0 .. 1
                   /\ rank[i][6] = At(i).from /\ rank[i][7] = i[2]
  BY DEF Rank, Flag, OriginRank
<1>4. \A i, j \in C : OriginRank(i[1]) = OriginRank(j[1]) => i[1] = j[1]
  <2>1. Origins \subseteq {"public", "live", "manual"}
    BY PricingAssumption DEF Origins, Fetched
  <2>. QED BY <1>1, <2>1 DEF OriginRank
<1>. HIDE DEF C, rank
<1>10. Lead(C, rank, 0, C)
  BY DEF Lead, C
<1>11. PICK T1 \in SUBSET C : Lead(C, rank, 1, T1)
  <2>1. \A s \in C : rank[s][0 + 1] \in Int /\ rank[s][0 + 1] <= 1
    BY <1>3
  <2>2. \E T \in SUBSET C : Lead(C, rank, 0 + 1, T)
    BY <1>10, <2>1, LeadByOneMore, 0 \in Nat, 1 \in Int, Zenon
  <2>. QED BY <2>2
<1>12. PICK T2 \in SUBSET C : Lead(C, rank, 2, T2)
  <2>1. \A s \in T1 : rank[s][1 + 1] \in Int /\ rank[s][1 + 1] <= 1
    BY <1>3
  <2>2. \E T \in SUBSET T1 : Lead(C, rank, 1 + 1, T)
    BY <1>11, <2>1, LeadByOneMore, 1 \in Nat, 1 \in Int, Zenon
  <2>. QED BY <2>2
<1>13. PICK T3 \in SUBSET C : Lead(C, rank, 3, T3)
  <2>1. \A s \in T2 : rank[s][2 + 1] \in Int /\ rank[s][2 + 1] <= 2
    BY <1>3
  <2>2. \E T \in SUBSET T2 : Lead(C, rank, 2 + 1, T)
    BY <1>12, <2>1, LeadByOneMore, 2 \in Nat, 2 \in Int, Zenon
  <2>. QED BY <2>2
<1>14. PICK T4 \in SUBSET C : Lead(C, rank, 4, T4)
  <2>1. \A s \in T3 : rank[s][3 + 1] \in Int /\ rank[s][3 + 1] <= q.input
    BY <1>1, <1>2, <1>3
  <2>2. \E T \in SUBSET T3 : Lead(C, rank, 3 + 1, T)
    BY <1>13, <2>1, LeadByOneMore, 3 \in Nat, Zenon
  <2>. QED BY <2>2
<1>15. PICK T5 \in SUBSET C : Lead(C, rank, 5, T5)
  <2>1. \A s \in T4 : rank[s][4 + 1] \in Int /\ rank[s][4 + 1] <= 1
    BY <1>3
  <2>2. \E T \in SUBSET T4 : Lead(C, rank, 4 + 1, T)
    BY <1>14, <2>1, LeadByOneMore, 4 \in Nat, 1 \in Int, Zenon
  <2>. QED BY <2>2
<1>16. PICK T6 \in SUBSET C : Lead(C, rank, 6, T6)
  <2>1. \A s \in T5 : rank[s][5 + 1] \in Int /\ rank[s][5 + 1] <= q.at
    BY <1>1, <1>2, <1>3
  <2>2. \E T \in SUBSET T5 : Lead(C, rank, 5 + 1, T)
    BY <1>15, <2>1, LeadByOneMore, 5 \in Nat, Zenon
  <2>. QED BY <2>2
<1>17. PICK T7 \in SUBSET C : Lead(C, rank, 7, T7)
  <2>0. PICK u \in T6 : TRUE
    BY <1>16 DEF Lead
  <2>1. \A s \in T6 : rank[s][3] = rank[u][3]
    BY <1>16 DEF Lead
  <2>2. \A s \in T6 : s[1] = u[1]
    BY <1>3, <1>4, <2>1
  <2>3. \A s \in T6 : rank[s][6 + 1] \in Int /\ rank[s][6 + 1] <= Len(prices[u[1]])
    BY <1>2, <1>3, <2>2
  <2>4. Len(prices[u[1]]) \in Int
    BY <1>2
  <2>5. \E T \in SUBSET T6 : Lead(C, rank, 6 + 1, T)
    BY <1>16, <2>3, <2>4, LeadByOneMore, 6 \in Nat, Zenon
  <2>. QED BY <2>5
<1>5. PICK i \in T7 : TRUE
  BY <1>17 DEF Lead
<1>6. ASSUME NEW j \in C \ {i}
      PROVE  Above(Rank(i, q), Rank(j, q))
  <2>1. j \notin T7
    <3>1. SUFFICES ASSUME j \in T7 PROVE FALSE
      OBVIOUS
    <3>2. rank[i][3] = rank[j][3] /\ rank[i][7] = rank[j][7]
      BY <1>17, <3>1 DEF Lead
    <3>. QED BY <1>1, <1>3, <1>4, <3>2
  <2>2. \E l \in 1 .. 7 : /\ rank[i][l] > rank[j][l]
                          /\ \A m \in 1 .. (l - 1) : rank[i][m] = rank[j][m]
    BY <1>17, <2>1 DEF Lead
  <2>. QED BY <1>3, <2>2 DEF Above
<1>7. \E c \in Candidates(q) : \A j \in Candidates(q) \ {c} : Above(Rank(c, q), Rank(j, q))
  BY <1>6 DEF C
<1>. QED BY <1>7, Zenon DEF Choice

-----------------------------------------------------------------------------
(* What the readers keep of a record *)

\* A record of CLIProxy: what is kept are integers, and as many tokens of each class
\* as the record states.
LEMMA CliProxyCounts ==
  ASSUME NEW r \in Sent, r.kind = "cliproxy"
  PROVE  LET k == Kept(Parse(r))
             c == Classes(r)
         IN  /\ k.input \in Int /\ k.read \in Int /\ k.write \in Int /\ k.output \in Int
             /\ k.at \in Int /\ k.kind = "cliproxy" /\ k.spend = Nil
             /\ k.read = c.read /\ k.write = c.write /\ k.output = c.output
             /\ c.input \in Int
             /\ c.input >= 0 => c.input = (IF k.input - k.read - k.write > 0
                                           THEN k.input - k.read - k.write ELSE 0)
<1>. DEFINE k == Kept(Parse(r))
            c == Classes(r)
            n == CliProxyTokens(r)
<1>1. /\ Parse(r) = CliProxyRow(r) /\ Parse(r).read /\ r.time \in Int /\ r.version \in Int
  BY RecordsAssumption DEF Sent, Parse
<1>2. ReadableRecord(r)
  BY <1>1 DEF CliProxyRow, Rejected
<1>3. /\ k.input = n.input /\ k.read = n.cacheRead /\ k.write = n.cacheWrite
      /\ k.output = n.output /\ k.at = r.time /\ k.kind = "cliproxy" /\ k.spend = Nil
  BY <1>1, <1>2 DEF CliProxyRow, Kept
<1>4. CASE r.version >= 2
  <2>1. /\ r.breakdown.input \in Int /\ r.breakdown.output \in Int
        /\ r.breakdown.cacheRead \in Int /\ r.breakdown.cacheWrite \in Int
    BY <1>4, RecordsAssumption
  <2>. QED BY <1>1, <1>3, <1>4, <2>1 DEF CliProxyTokens, Broken, Classes
<1>5. CASE ~ (r.version >= 2)
  <2>. DEFINE semantics == Semantics(r.provider, r.executor)
  <2>1. /\ r.tokens.input \in Int /\ r.tokens.output \in Int /\ r.tokens.reasoning \in Int
        /\ r.tokens.cached \in Int /\ r.tokens.cacheRead \in Int /\ r.tokens.cacheWrite \in Int
    BY <1>5, RecordsAssumption
  <2>2. semantics \in {"subset", "independent", "separate", "unknown"}
    BY DEF Semantics
  <2>3. n = Flat(r.tokens, semantics)
    BY <1>5 DEF CliProxyTokens
  <2>. HIDE DEF semantics, n, k
  <2>4. CASE semantics = "unknown"
    <3>1. n.input = 0 /\ n.output = 0 /\ n.cacheRead = 0 /\ n.cacheWrite = 0
      BY <2>3, <2>4 DEF Flat
    <3>2. c.input = 0 /\ c.read = 0 /\ c.write = 0 /\ c.output = 0
      BY <1>5, <2>4 DEF Classes, semantics
    <3>. QED BY <1>1, <1>3, <3>1, <3>2 DEF k
  <2>5. CASE semantics = "independent"
    <3>1. /\ n.input = r.tokens.input + r.tokens.cacheRead + r.tokens.cacheWrite
          /\ n.output = r.tokens.output
          /\ n.cacheRead = r.tokens.cacheRead /\ n.cacheWrite = r.tokens.cacheWrite
      BY <2>3, <2>5 DEF Flat
    <3>2. /\ c.input = r.tokens.input /\ c.read = r.tokens.cacheRead
          /\ c.write = r.tokens.cacheWrite /\ c.output = r.tokens.output
      BY <1>5, <2>5 DEF Classes, semantics
    <3>. QED BY <1>1, <1>3, <2>1, <3>1, <3>2 DEF k
  <2>6. CASE semantics \in {"separate", "subset"}
    <3>. DEFINE cached == IF r.tokens.cacheRead > 0 THEN r.tokens.cacheRead ELSE r.tokens.cached
                output == IF semantics = "separate" THEN r.tokens.output + r.tokens.reasoning
                          ELSE r.tokens.output
    <3>1. /\ n.input = r.tokens.input /\ n.output = output
          /\ n.cacheRead = cached /\ n.cacheWrite = r.tokens.cacheWrite
      BY <2>3, <2>6 DEF Flat
    <3>2. /\ c.input = r.tokens.input - cached - r.tokens.cacheWrite /\ c.read = cached
          /\ c.write = r.tokens.cacheWrite /\ c.output = output
      BY <1>5, <2>6 DEF Classes, semantics
    <3>. QED BY <1>1, <1>3, <2>1, <3>1, <3>2 DEF k
  <2>. QED BY <2>2, <2>4, <2>5, <2>6 DEF k
<1>. QED BY <1>4, <1>5

\* A spend row of LiteLLM, likewise.
LEMMA LiteLlmCounts ==
  ASSUME NEW r \in Sent, r.kind # "cliproxy"
  PROVE  LET k == Kept(Parse(r))
             c == RowClasses(r)
         IN  /\ k.input \in Int /\ k.read \in Int /\ k.write \in Int /\ k.output \in Int
             /\ k.at \in Int /\ k.kind = "litellm"
             /\ k.read = c.read /\ k.write = c.write /\ k.output = c.output
             /\ c.input \in Int
             /\ c.input >= 0 => c.input = (IF k.input - k.read - k.write > 0
                                           THEN k.input - k.read - k.write ELSE 0)
<1>. DEFINE k == Kept(Parse(r))
            c == RowClasses(r)
            read == IF r.meta.form # "none" THEN Or(r.meta.cacheRead, 0) ELSE 0
            write == IF r.meta.form # "none" THEN Or(r.meta.cacheWrite, 0) ELSE 0
<1>1. Parse(r) = LiteLlmRow(r) /\ Parse(r).read /\ r.time \in Int
  BY RecordsAssumption DEF Sent, Parse
<1>2. ReadableRow(r)
  BY <1>1 DEF LiteLlmRow, Rejected
<1>3. /\ k.input = Or(r.prompt, 0) /\ k.read = read /\ k.write = write
      /\ k.output = Or(r.completion, 0) /\ k.at = r.time /\ k.kind = "litellm"
  BY <1>1, <1>2 DEF LiteLlmRow, Kept
<1>4. /\ c.input = Or(r.prompt, 0) - read - write /\ c.read = read /\ c.write = write
      /\ c.output = Or(r.completion, 0)
  BY DEF RowClasses
<1>5. /\ Or(r.prompt, 0) \in Int /\ Or(r.completion, 0) \in Int
      /\ read \in Int /\ write \in Int
  BY RecordsAssumption DEF Or
<1>. HIDE DEF k, c, read, write
<1>6. /\ k.input \in Int /\ k.read \in Int /\ k.write \in Int /\ k.output \in Int
      /\ k.at \in Int /\ k.kind = "litellm"
      /\ k.read = c.read /\ k.write = c.write /\ k.output = c.output
      /\ c.input \in Int
      /\ c.input >= 0 => c.input = (IF k.input - k.read - k.write > 0
                                    THEN k.input - k.read - k.write ELSE 0)
  BY <1>1, <1>3, <1>4, <1>5
<1>. QED BY <1>6 DEF k, c

LEMMA CostIsInteger ==
  ASSUME NEW rates, RatesTyped(rates), NEW q,
         q.input \in Int, q.read \in Int, q.write \in Int, q.output \in Int
  PROVE  Cost(rates, q) \in Int
<1>1. /\ rates.input \in Int /\ rates.read \in Int /\ rates.write \in Int
      /\ rates.output \in Int
  BY DEF RatesTyped, Names
<1>2. \A a, b \in Int : a * b \in Int
  OBVIOUS
<1>. DEFINE own == IF q.input - q.read - q.write > 0 THEN q.input - q.read - q.write ELSE 0
<1>3. own \in Int
  OBVIOUS
<1>4. Cost(rates, q) = own * rates.input + q.read * rates.read + q.write * rates.write
                       + q.output * rates.output
  BY DEF Cost
<1>. HIDE DEF own
<1>. QED BY <1>1, <1>2, <1>3, <1>4

\* What an event keeps of the record it is made of.
LEMMA RequestCounts ==
  ASSUME NEW e \in DOMAIN Request
  PROVE  /\ Request[e].input \in Int /\ Request[e].read \in Int
         /\ Request[e].write \in Int /\ Request[e].output \in Int /\ Request[e].at \in Int
         /\ Request[e].kind # "litellm" => Request[e].spend = Nil
<1>1. Request[e] = Kept(Parse(Raw[e])) /\ Raw[e] \in Sent
  BY DEF Request, Sent
<1>. QED BY <1>1, CliProxyCounts, LiteLlmCounts

LEMMA RequestTyped ==
  ASSUME NEW e \in Events
  PROVE  /\ Request[e].input \in Int /\ Request[e].read \in Int
         /\ Request[e].write \in Int /\ Request[e].output \in Int /\ Request[e].at \in Int
         /\ Request[e].kind # "litellm" => Request[e].spend = Nil
<1>1. e \in DOMAIN Request
  BY PricingAssumption DEF Request
<1>. QED BY <1>1, RequestCounts

-----------------------------------------------------------------------------
(* Rows are only ever added *)

\* Every row stays where it is, as it is.
RowsStay ==
    \A o \in Origins : \A i \in DOMAIN prices[o] :
        i \in DOMAIN prices'[o] /\ prices'[o][i] = prices[o][i]

\* One list behind another.
LEMMA Joined ==
  ASSUME NEW S, NEW list \in Seq(S), NEW n \in Nat, NEW rows, rows = [i \in 1 .. n |-> rows[i]]
  PROVE  /\ Len(list) \in Nat /\ DOMAIN list = 1 .. Len(list)
         /\ DOMAIN (list \o rows) = 1 .. Len(list) + n
         /\ \A i \in 1 .. Len(list) : (list \o rows)[i] = list[i]
         /\ \A i \in 1 .. n : (list \o rows)[Len(list) + i] = rows[i]
<1>. DEFINE U == S \cup {rows[i] : i \in 1 .. n}
<1>1. list \in Seq(U) /\ Len(list) \in Nat /\ DOMAIN list = 1 .. Len(list)
  OBVIOUS
<1>2. rows \in Seq(U) /\ Len(rows) = n
  OBVIOUS
<1>. HIDE DEF U
<1>3. /\ list \o rows \in Seq(U) /\ Len(list \o rows) = Len(list) + n
      /\ \A i \in 1 .. Len(list) : (list \o rows)[i] = list[i]
      /\ \A i \in Len(list) + 1 .. Len(list) + n : (list \o rows)[i] = rows[i - Len(list)]
  BY <1>1, <1>2
<1>4. \A i \in 1 .. n : (list \o rows)[Len(list) + i] = rows[i]
  <2>. TAKE i \in 1 .. n
  <2>1. /\ Len(list) + i \in Len(list) + 1 .. Len(list) + n
        /\ (Len(list) + i) - Len(list) = i
    BY <1>1
  <2>2. (list \o rows)[Len(list) + i] = rows[(Len(list) + i) - Len(list)]
    BY <1>3, <2>1
  <2>. QED BY <2>1, <2>2
<1>. QED BY <1>1, <1>3, <1>4

\* A list of proper rows put at the end of an origin's.
LEMMA Extended ==
  ASSUME PricesInv, NEW o \in Origins, NEW n \in Nat, NEW rows,
         rows = [i \in 1 .. n |-> rows[i]],
         \A i \in 1 .. n : /\ rows[i].min \in Int /\ rows[i].from \in Int
                           /\ RatesTyped(rows[i].rates),
         prices' = [prices EXCEPT ![o] = @ \o rows]
  PROVE  PricesInv' /\ RowsStay
<1>. DEFINE old == prices[o]
            S == {old[i] : i \in DOMAIN old}
            U == S \cup {rows[i] : i \in 1 .. n}
            list == old \o rows
<1>1. old \in Seq(S) /\ rows \in Seq(U) /\ Len(rows) = n
  BY DEF PricesInv
<1>2. old \in Seq(U) /\ Len(old) \in Nat /\ DOMAIN old = 1 .. Len(old)
  BY <1>1
<1>. HIDE DEF old, U
<1>3. /\ list \in Seq(U) /\ Len(list) = Len(old) + n
      /\ \A i \in 1 .. Len(old) : list[i] = old[i]
      /\ \A i \in Len(old) + 1 .. Len(old) + n : list[i] = rows[i - Len(old)]
  BY <1>1, <1>2
<1>4. list = [i \in 1 .. Len(old) + n |-> list[i]] /\ DOMAIN list = 1 .. Len(old) + n
  BY <1>2, <1>3
<1>. HIDE DEF list
<1>5. list \in Seq({list[i] : i \in DOMAIN list})
  <2>. DEFINE V == {list[i] : i \in DOMAIN list}
  <2>1. list \in [1 .. Len(old) + n -> V] /\ Len(old) + n \in Nat
    BY <1>2, <1>4
  <2>. HIDE DEF V
  <2>2. list \in Seq(V)
    BY <2>1
  <2>. QED BY <2>2 DEF V
<1>6. ASSUME NEW i \in DOMAIN list
      PROVE  /\ list[i].min \in Int /\ list[i].from \in Int
             /\ RatesTyped(list[i].rates)
  <2>1. CASE i \in 1 .. Len(old)
    BY <1>2, <1>3, <2>1 DEF PricesInv, old
  <2>2. CASE i \notin 1 .. Len(old)
    <3>1. i \in 1 .. Len(old) + n
      BY <1>4
    <3>2. i \in Len(old) + 1 .. Len(old) + n /\ i - Len(old) \in 1 .. n
      BY <1>2, <2>2, <3>1
    <3>3. list[i] = rows[i - Len(old)]
      BY <1>3, <3>2
    <3>. QED BY <3>2, <3>3
  <2>. QED BY <2>1, <2>2
<1>7. /\ DOMAIN prices' = Origins /\ prices'[o] = list
      /\ \A p \in Origins \ {o} : prices'[p] = prices[p]
  BY DEF PricesInv, list, old
<1>8. PricesInv'
  <2>1. ASSUME NEW p \in Origins
        PROVE  /\ prices'[p] \in Seq({prices'[p][i] : i \in DOMAIN prices'[p]})
               /\ \A i \in DOMAIN prices'[p] :
                     /\ prices'[p][i].min \in Int /\ prices'[p][i].from \in Int
                     /\ RatesTyped(prices'[p][i].rates)
    <3>1. CASE p = o
      BY <1>5, <1>6, <1>7, <3>1, Zenon
    <3>2. CASE p # o
      <4>1. PICK kept : kept = prices[p] /\ kept = prices'[p]
        BY <1>7, <3>2
      <4>2. /\ kept \in Seq({kept[i] : i \in DOMAIN kept})
            /\ \A i \in DOMAIN kept : /\ kept[i].min \in Int /\ kept[i].from \in Int
                                     /\ RatesTyped(kept[i].rates)
        BY <4>1 DEF PricesInv
      <4>. QED BY <4>1, <4>2
    <3>. QED BY <3>1, <3>2
  <2>. QED BY <1>7, <2>1 DEF PricesInv, RatesTyped
<1>9. RowsStay
  BY <1>2, <1>3, <1>4, <1>7 DEF RowsStay, old
<1>. QED BY <1>8, <1>9

\* A finite set in some order, every element in it.
LEMMA Ordered ==
  ASSUME NEW S, IsFiniteSet(S)
  PROVE  /\ Cardinality(S) \in Nat /\ InOrder(S) \in [1 .. Cardinality(S) -> S]
         /\ \A r \in S : \E i \in 1 .. Cardinality(S) : InOrder(S)[i] = r
<1>1. Cardinality(S) \in Nat /\ ExistsBijection(1 .. Cardinality(S), S)
  BY FS_CardinalityType
<1>2. PICK f \in Bijection(1 .. Cardinality(S), S) : TRUE
  BY <1>1 DEF ExistsBijection
<1>3. f \in [1 .. Cardinality(S) -> S] /\ \A r \in S : \E i \in DOMAIN f : f[i] = r
  BY <1>2 DEF Bijection, Injection, Surjection
<1>4. /\ InOrder(S) \in [1 .. Cardinality(S) -> S]
      /\ \A r \in S : \E i \in DOMAIN InOrder(S) : InOrder(S)[i] = r
  BY <1>3 DEF InOrder
<1>5. DOMAIN InOrder(S) = 1 .. Cardinality(S)
  BY <1>4
<1>. QED BY <1>1, <1>4, <1>5

\* The values of a function on a finite set.
LEMMA FiniteValues ==
  ASSUME NEW S, IsFiniteSet(S), NEW f, f = [x \in S |-> f[x]]
  PROVE  IsFiniteSet({f[x] : x \in S})
<1>1. f \in Surjection(S, {f[x] : x \in S})
  BY DEF Surjection
<1>. QED BY <1>1, FS_Surjection

\* The first cost named for one kind of token is a number, where any is named.
LEMMA FirstNamedCost ==
  ASSUME NEW entry, \A c \in DOMAIN entry.costs : entry.costs[c] \in Int,
         NEW name, NEW tails, DOMAIN tails = 1 .. 4
  PROVE  /\ FirstNamed(entry, name, tails) \in Int \cup {Nil}
         /\ (\E i \in 1 .. 4 : Named(entry, name, tails[i])) =>
                FirstNamed(entry, name, tails) \in Int
<1>. DEFINE at == {i \in DOMAIN tails : Named(entry, name, tails[i])}
<1>1. CASE at = {}
  BY <1>1 DEF FirstNamed
<1>2. CASE at # {}
  <2>1. at \subseteq 1 .. 4
    OBVIOUS
  <2>2. \E i \in at : \A j \in at : i <= j
    <3>. HIDE DEF at
    <3>1. CASE 1 \in at
      BY <2>1, <3>1
    <3>2. CASE 1 \notin at /\ 2 \in at
      BY <2>1, <3>2
    <3>3. CASE 1 \notin at /\ 2 \notin at /\ 3 \in at
      BY <2>1, <3>3
    <3>4. CASE 1 \notin at /\ 2 \notin at /\ 3 \notin at
      <4>1. at \subseteq {4}
        BY <2>1, <3>4
      <4>2. 4 \in at
        BY <1>2, <4>1, Zenon
      <4>. QED BY <4>1, <4>2
    <3>. QED BY <2>1, <3>1, <3>2, <3>3, <3>4
  <2>3. PICK i \in at : FirstNamed(entry, name, tails) =
                            entry.costs[<<name, tails[i][1], tails[i][2]>>]
    <3>1. PICK i : i = CHOOSE k \in at : \A j \in at : k <= j
      OBVIOUS
    <3>2. i \in at
      <4>. HIDE DEF at
      <4>. QED BY <2>2, <3>1
    <3>3. FirstNamed(entry, name, tails) = entry.costs[<<name, tails[i][1], tails[i][2]>>]
      BY <1>2, <3>1 DEF FirstNamed
    <3>. QED BY <3>2, <3>3
  <2>4. <<name, tails[i][1], tails[i][2]>> \in DOMAIN entry.costs
    BY DEF Named
  <2>. QED BY <2>3, <2>4
<1>. QED BY <1>1, <1>2

\* An entry of a map as it is read: costs and ranges in numbers.
EntryTyped(entry) ==
    /\ \A c \in DOMAIN entry.costs : entry.costs[c] \in Int
    /\ IsFiniteSet(entry.ranges)
    /\ \A x \in entry.ranges : x.start \in Int /\ RatesTyped(x.rates)

LEMMA RatesOfTyped ==
  ASSUME NEW entry, EntryTyped(entry), NEW t, NEW tier
  PROVE  RatesOf(entry, t, tier) # Nil => RatesTyped(RatesOf(entry, t, tier))
<1>. DEFINE tails == Tails(t, tier)
            price(name) == FirstNamed(entry, name, tails)
<1>1. \A name : price(name) \in Int \cup {Nil}
  <2>1. DOMAIN tails = 1 .. 4
    BY DEF Tails
  <2>. QED BY <2>1, FirstNamedCost DEF EntryTyped
<1>. HIDE DEF price
<1>2. ASSUME RatesOf(entry, t, tier) # Nil
      PROVE  \E i, o, r, w \in Int : RatesOf(entry, t, tier) = [input |-> i, output |-> o,
                                                                read |-> r, write |-> w]
  <2>1. price("input") \in Int /\ price("output") \in Int
    BY <1>1, <1>2 DEF RatesOf, price
  <2>. DEFINE cache(name) == IF price(name) = Nil THEN price("input") ELSE price(name)
  <2>2. cache("read") \in Int /\ cache("write") \in Int
    BY <1>1, <2>1
  <2>3. RatesOf(entry, t, tier) = [input |-> price("input"), output |-> price("output"),
                                   read |-> cache("read"), write |-> cache("write")]
    BY <1>2 DEF RatesOf, price
  <2>. HIDE DEF cache
  <2>. QED BY <2>1, <2>2, <2>3
<1>. QED BY <1>2 DEF RatesTyped, Names

\* An entry gives finitely many rows, with a threshold and rates.
LEMMA EntryRows ==
  ASSUME NEW m, NEW entry, EntryTyped(entry)
  PROVE  LET rows == PricesNamed(m, entry) \cup PricesOfRanges(m, entry)
         IN  IsFiniteSet(rows) /\ \A r \in rows : r.min \in Int /\ RatesTyped(r.rates)
<1>. DEFINE N == PricesNamed(m, entry)
            R == PricesOfRanges(m, entry)
<1>1. Thresholds(entry) \subseteq 0 .. 10
  BY DEF Thresholds
<1>2. IsFiniteSet(N)
  <2>. DEFINE S == Thresholds(entry) \X Tiers
              f == [x \in S |-> Row(m, entry, x[2], FirstToken(entry, x[1]),
                                    RatesOf(entry, x[1], x[2]))]
  <2>1. IsFiniteSet(Thresholds(entry))
    <3>1. IsFiniteSet(0 .. 10)
      <4>1. 0 \in Int /\ 10 \in Int
        OBVIOUS
      <4>. QED BY <4>1, FS_Interval, Zenon
    <3>. QED BY <1>1, <3>1, FS_Subset
  <2>2. IsFiniteSet(Tiers)
    <3>1. IsFiniteSet({None})
      BY FS_Singleton
    <3>2. IsFiniteSet({None} \cup {"priority"})
      BY <3>1, FS_AddElement
    <3>3. IsFiniteSet(({None} \cup {"priority"}) \cup {"flex"})
      BY <3>2, FS_AddElement
    <3>4. Tiers = ({None} \cup {"priority"}) \cup {"flex"}
      BY DEF Tiers
    <3>. QED BY <3>3, <3>4
  <2>3. IsFiniteSet(S)
    BY <2>1, <2>2, FS_Product
  <2>4. IsFiniteSet({f[x] : x \in S})
    <3>1. f = [x \in S |-> f[x]]
      OBVIOUS
    <3>. HIDE DEF f, S
    <3>. QED BY <2>3, <3>1, FiniteValues
  <2>5. N \subseteq {f[x] : x \in S}
    <3>. SUFFICES ASSUME NEW r \in N
                  PROVE  r \in {f[x] : x \in S}
      OBVIOUS
    <3>1. PICK t \in Thresholds(entry), tier \in Tiers :
              r = Row(m, entry, tier, FirstToken(entry, t), RatesOf(entry, t, tier))
      BY DEF PricesNamed
    <3>2. <<t, tier>> \in S /\ f[<<t, tier>>] = r
      BY <3>1
    <3>. QED BY <3>2
  <2>. QED BY <2>4, <2>5, FS_Subset
<1>3. IsFiniteSet(R)
  <2>. DEFINE S == entry.ranges
              f == [x \in S |-> Row(m, entry, None, IF x.start > 0 THEN x.start + 1 ELSE x.start,
                                    x.rates)]
  <2>1. IsFiniteSet({f[x] : x \in S})
    <3>1. f = [x \in S |-> f[x]] /\ IsFiniteSet(S)
      BY DEF EntryTyped
    <3>. HIDE DEF f, S
    <3>. QED BY <3>1, FiniteValues
  <2>2. R \subseteq {f[x] : x \in S}
    BY DEF PricesOfRanges
  <2>. QED BY <2>1, <2>2, FS_Subset
<1>4. \A r \in N : r.min \in Int /\ RatesTyped(r.rates)
  <2>. SUFFICES ASSUME NEW t \in Thresholds(entry), NEW tier \in Tiers,
                       RatesOf(entry, t, tier) # Nil
                PROVE  FirstToken(entry, t) \in Int /\ RatesTyped(RatesOf(entry, t, tier))
    BY DEF PricesNamed, Row, RatesTyped
  <2>. QED BY <1>1, RatesOfTyped DEF FirstToken
<1>5. \A r \in R : r.min \in Int /\ RatesTyped(r.rates)
  BY DEF PricesOfRanges, Row, EntryTyped, RatesTyped
<1>6. IsFiniteSet(N \cup R)
  BY <1>2, <1>3, FS_Union
<1>. QED BY <1>4, <1>5, <1>6

\* So does a map.
LEMMA CatalogTyped ==
  ASSUME NEW o \in Fetched, NEW v \in DOMAIN Versions[o]
  PROVE  /\ IsFiniteSet(Catalog[o][v])
         /\ \A r \in Catalog[o][v] : r.min \in Int /\ RatesTyped(r.rates)
<1>. DEFINE map == Versions[o][v]
            F == [m \in DOMAIN map |-> PricesNamed(m, map[m]) \cup PricesOfRanges(m, map[m])]
<1>1. IsFiniteSet(DOMAIN map) /\ \A m \in DOMAIN map : EntryTyped(map[m])
  BY MapsAssumption DEF EntryTyped
<1>2. Catalog[o][v] = UNION {F[m] : m \in DOMAIN map}
  BY DEF Catalog, Expand
<1>3. \A m \in DOMAIN map :
         IsFiniteSet(F[m]) /\ \A r \in F[m] : r.min \in Int /\ RatesTyped(r.rates)
  BY <1>1, EntryRows
<1>4. F = [m \in DOMAIN map |-> F[m]]
  OBVIOUS
<1>. HIDE DEF map, F
<1>5. IsFiniteSet({F[m] : m \in DOMAIN map})
  BY <1>1, <1>4, FiniteValues
<1>6. IsFiniteSet(UNION {F[m] : m \in DOMAIN map})
  BY <1>3, <1>5, FS_UNION
<1>. QED BY <1>2, <1>3, <1>6

\* A sync at its recording has a map of the origin next in its list, and a date.
LEMMA RecordKnows ==
  ASSUME SyncInv, NEW s \in Syncers, Record(s)
  PROVE  LET o == Head(sync[s].todo)
         IN  /\ o \in Fetched /\ o \in Origins
             /\ sync[s].map \in DOMAIN Versions[o] /\ sync[s].map \in Nat
             /\ sync[s].at \in 1 .. MaxNow /\ sync[s].at \in Nat /\ sync[s].at \in Int
<1>1. sync[s] # Nil /\ sync[s].at # Nil
  BY DEF Record, Records
<1>2. /\ sync[s] \in [todo : Seq(Fetched), map : Nat \cup {Nil}, at : 1 .. MaxNow \cup {Nil}]
      /\ sync[s].map # Nil
  BY <1>1 DEF SyncInv
<1>3. /\ sync[s].todo \in Seq(Fetched) /\ sync[s].todo # <<>> /\ sync[s].map \in Nat
      /\ sync[s].map \in DOMAIN Versions[Head(sync[s].todo)]
  BY <1>1, <1>2 DEF SyncInv
<1>4. sync[s].at \in 1 .. MaxNow /\ sync[s].at \in Nat
  BY <1>1, <1>2, PricingAssumption
<1>5. Head(sync[s].todo) \in Fetched
  BY <1>3
<1>. QED BY <1>3, <1>4, <1>5 DEF Origins

\* A sync records only rows of the map it fetched.
LEMMA RecordAdds ==
  ASSUME PricesInv, SyncInv, NEW s \in Syncers, Record(s)
  PROVE  PricesInv' /\ RowsStay
<1>. DEFINE o == Head(sync[s].todo)
            m == sync[s].map
            changed == {r \in Catalog[o][m] : ~Unchanged(o, r)}
            new == InOrder(changed)
            at == sync[s].at
            rows == [i \in DOMAIN new |-> NewRow(o, new[i], at)]
<1>1. o \in Fetched /\ o \in Origins /\ m \in DOMAIN Versions[o] /\ at \in Int
  BY RecordKnows
<1>2. IsFiniteSet(Catalog[o][m]) /\ \A r \in Catalog[o][m] : r.min \in Int /\ RatesTyped(r.rates)
  BY <1>1, CatalogTyped
<1>3. prices' = [prices EXCEPT ![o] = @ \o rows]
  BY DEF Record
<1>. HIDE DEF o, m, at
<1>4. PICK n \in Nat : new \in [1 .. n -> changed]
  <2>1. IsFiniteSet(changed)
    BY <1>2, FS_Subset
  <2>. HIDE DEF changed
  <2>. QED BY <2>1, Ordered
<1>. HIDE DEF new
<1>5. rows = [i \in 1 .. n |-> NewRow(o, new[i], at)]
  BY <1>4
<1>6. \A r \in changed : /\ NewRow(o, r, at).min \in Int /\ NewRow(o, r, at).from \in Int
                         /\ RatesTyped(NewRow(o, r, at).rates)
  BY <1>1, <1>2 DEF NewRow, Beginning
<1>. HIDE DEF changed, rows
<1>7. /\ rows = [i \in 1 .. n |-> rows[i]]
      /\ \A i \in 1 .. n : /\ rows[i].min \in Int /\ rows[i].from \in Int
                           /\ RatesTyped(rows[i].rates)
  BY <1>4, <1>5, <1>6
<1>. QED BY <1>1, <1>3, <1>7, Extended

LEMMA CreateAdds ==
  ASSUME PricesInv, SyncInv, NEW p \in ManualPrices, CreatePrice(p)
  PROVE  PricesInv' /\ RowsStay
<1>. DEFINE row == [provider |-> p.provider, model |-> p.model, tier |-> p.tier,
                    min |-> p.min, rates |-> p.rates,
                    from |-> IF p.from = Nil THEN now ELSE p.from]
            rows == [i \in 1 .. 1 |-> row]
<1>1. row.min \in Int /\ row.from \in Int /\ RatesTyped(row.rates)
  BY PricingAssumption DEF SyncInv
<1>2. prices' = [prices EXCEPT !["manual"] = @ \o rows]
  <2>1. prices["manual"] \in Seq({prices["manual"][i] : i \in DOMAIN prices["manual"]})
    BY DEF PricesInv, Origins
  <2>2. Append(prices["manual"], row) = prices["manual"] \o rows
    <3>. HIDE DEF row
    <3>. QED BY <2>1
  <2>. QED BY <2>2 DEF CreatePrice
<1>3. "manual" \in Origins /\ rows = [i \in 1 .. 1 |-> rows[i]]
  BY DEF Origins
<1>4. \A i \in 1 .. 1 : rows[i].min \in Int /\ rows[i].from \in Int /\ RatesTyped(rows[i].rates)
  BY <1>1
<1>. HIDE DEF rows
<1>5. 1 \in Nat
  OBVIOUS
<1>. QED BY <1>2, <1>3, <1>4, <1>5, Extended

\* So every step leaves the rows there are.
LEMMA PricesStep ==
  ASSUME PricesInv, SyncInv, [Next]_vars
  PROVE  PricesInv' /\ RowsStay
<1>1. CASE UNCHANGED prices
  BY <1>1 DEF PricesInv, RowsStay, RatesTyped
<1>2. CASE \E p \in ManualPrices : CreatePrice(p)
  BY <1>2, CreateAdds
<1>3. CASE \E s \in Syncers : Record(s)
  BY <1>3, RecordAdds
<1>. QED
  BY <1>1, <1>2, <1>3 DEF Next, vars, Fill, Reprice, Store, StartSync, Fetch, FetchFails,
     Stamp, Finish, Abandon, Serve, Tick, StepBack

-----------------------------------------------------------------------------
(* Where a sync stands *)

Left == [todo : Seq(Fetched), map : Nat \cup {Nil}, at : 1 .. MaxNow \cup {Nil}]

\* Where one sync may stand.
Stands(x) ==
    /\ x = Nil \/ x \in Left
    /\ x # Nil /\ x.map # Nil =>
          x.todo # <<>> /\ x.map \in DOMAIN Versions[Head(x.todo)]
    /\ x # Nil /\ x.at # Nil => x.map # Nil

\* A sync's step other than beginning goes on with what is left or ends.
LEMMA SyncStep ==
  ASSUME SyncInv, [Next]_vars
  PROVE  SyncInv'
<1>0. /\ MaxNow \in Nat \ {0} /\ Nil \notin Int /\ Maps \in Seq(Fetched)
      /\ \A o \in Fetched : 1 \in DOMAIN Versions[o]
  <2>1. Maps \in Seq(Fetched)
    BY PricingAssumption DEF Fetched
  <2>. QED BY <2>1, PricingAssumption
<1>1. \A s \in Syncers : Stands(sync[s])
  BY DEF SyncInv, Stands, Left
<1>2. \A s \in Syncers : \A x :
         Stands(x) /\ sync' = [sync EXCEPT ![s] = x] /\ UNCHANGED <<now, served>> => SyncInv'
  <2>. SUFFICES ASSUME NEW s \in Syncers, NEW x, Stands(x), sync' = [sync EXCEPT ![s] = x],
                       UNCHANGED <<now, served>>
                PROVE  SyncInv'
    OBVIOUS
  <2>1. DOMAIN sync = Syncers /\ sync' = [t \in Syncers |-> IF t = s THEN x ELSE sync[t]]
    BY DEF SyncInv
  <2>2. \A t \in Syncers : Stands(sync'[t])
    BY <1>1, <2>1
  <2>3. sync' \in [Syncers -> {Nil} \cup Left]
    BY <2>1, <2>2 DEF Stands
  <2>. QED BY <2>2, <2>3 DEF SyncInv, Stands, Left
<1>3. ASSUME NEW s \in Syncers, sync[s] # Nil
      PROVE  /\ \A v : /\ [sync[s] EXCEPT !.todo = v] =
                                [todo |-> v, map |-> sync[s].map, at |-> sync[s].at]
                       /\ [sync[s] EXCEPT !.map = v] =
                                [todo |-> sync[s].todo, map |-> v, at |-> sync[s].at]
                       /\ [sync[s] EXCEPT !.at = v] =
                                [todo |-> sync[s].todo, map |-> sync[s].map, at |-> v]
             /\ sync[s].todo \in Seq(Fetched) /\ sync[s].map \in Nat \cup {Nil}
             /\ sync[s].at \in 1 .. MaxNow \cup {Nil}
             /\ sync[s].todo # <<>> => /\ Head(sync[s].todo) \in Fetched
                                      /\ Tail(sync[s].todo) \in Seq(Fetched)
  <2>1. sync[s] \in Left
    BY <1>1, <1>3 DEF Stands
  <2>2. sync[s].todo \in Seq(Fetched)
    BY <2>1 DEF Left
  <2>3. \A v : /\ [sync[s] EXCEPT !.todo = v] =
                       [todo |-> v, map |-> sync[s].map, at |-> sync[s].at]
              /\ [sync[s] EXCEPT !.map = v] =
                       [todo |-> sync[s].todo, map |-> v, at |-> sync[s].at]
              /\ [sync[s] EXCEPT !.at = v] =
                       [todo |-> sync[s].todo, map |-> sync[s].map, at |-> v]
    BY <2>1 DEF Left
  <2>. QED BY <2>1, <2>2, <2>3 DEF Left
<1>4. CASE \E s \in Syncers : StartSync(s)
  <2>1. Stands([todo |-> Maps, map |-> Nil, at |-> Nil])
    BY <1>0 DEF Stands, Left
  <2>. QED BY <1>2, <1>4, <2>1 DEF StartSync, Begins
<1>5. CASE \E s \in Syncers : Fetch(s)
  <2>. PICK s \in Syncers : Fetch(s)
    BY <1>5
  <2>. DEFINE o == Head(sync[s].todo)
              x == [todo |-> sync[s].todo, map |-> served[o], at |-> sync[s].at]
  <2>1. /\ sync[s] # Nil /\ sync[s].map = Nil /\ sync[s].todo # <<>>
        /\ sync' = [sync EXCEPT ![s].map = served[o]]
    BY DEF Fetch, Fetches
  <2>2. /\ sync[s].todo \in Seq(Fetched) /\ o \in Fetched
        /\ [sync[s] EXCEPT !.map = served[o]] = x
    BY <1>3, <2>1
  <2>3. Stands(x)
    <3>1. served[o] \in Nat /\ served[o] \in DOMAIN Versions[o] /\ sync[s].at = Nil
      BY <1>1, <2>1, <2>2 DEF SyncInv, Stands
    <3>. QED BY <2>1, <2>2, <3>1 DEF Stands, Left
  <2>4. sync' = [sync EXCEPT ![s] = x]
    BY <2>1, <2>2
  <2>. QED BY <1>2, <2>3, <2>4 DEF Fetch
<1>6. CASE \E s \in Syncers : FetchFails(s)
  <2>. PICK s \in Syncers : FetchFails(s)
    BY <1>6
  <2>. DEFINE x == [todo |-> Tail(sync[s].todo), map |-> Nil, at |-> sync[s].at]
  <2>1. /\ sync[s] # Nil /\ sync[s].map = Nil /\ sync[s].todo # <<>>
        /\ sync' = [sync EXCEPT ![s].todo = Tail(@)]
    BY DEF FetchFails
  <2>2. Tail(sync[s].todo) \in Seq(Fetched) /\ sync[s].at = Nil
    BY <1>1, <1>3, <2>1 DEF Stands
  <2>3. Stands(x)
    BY <2>2 DEF Stands, Left
  <2>4. [sync[s] EXCEPT !.todo = Tail(@)] = x
    BY <1>3, <2>1
  <2>5. sync' = [sync EXCEPT ![s] = x]
    BY <2>1, <2>4
  <2>. QED BY <1>2, <2>3, <2>5 DEF FetchFails
<1>7. CASE \E s \in Syncers : Stamp(s)
  <2>. PICK s \in Syncers : Stamp(s)
    BY <1>7
  <2>. DEFINE x == [todo |-> sync[s].todo, map |-> sync[s].map, at |-> now]
  <2>1. /\ sync[s] # Nil /\ sync[s].map # Nil /\ sync' = [sync EXCEPT ![s].at = now]
    BY DEF Stamp, Stamps
  <2>2. [sync[s] EXCEPT !.at = now] = x
    BY <1>3, <2>1
  <2>3. Stands(x)
    <3>1. now \in 1 .. MaxNow
      BY DEF SyncInv
    <3>2. x \in Left /\ x.map = sync[s].map /\ x.todo = sync[s].todo
      BY <1>3, <2>1, <3>1 DEF Left
    <3>. HIDE DEF x
    <3>. QED BY <1>1, <2>1, <3>2 DEF Stands
  <2>4. sync' = [sync EXCEPT ![s] = x]
    BY <2>1, <2>2
  <2>. QED BY <1>2, <2>3, <2>4 DEF Stamp
<1>8. CASE \E s \in Syncers : Record(s)
  <2>. PICK s \in Syncers : Record(s)
    BY <1>8
  <2>. DEFINE x == [todo |-> Tail(sync[s].todo), map |-> Nil, at |-> Nil]
  <2>1. sync[s] # Nil /\ sync[s].at # Nil /\ sync' = [sync EXCEPT ![s] = x]
    BY DEF Record, Records
  <2>2. sync[s].todo # <<>>
    BY <1>1, <2>1 DEF Stands
  <2>3. Tail(sync[s].todo) \in Seq(Fetched)
    BY <1>3, <2>1, <2>2
  <2>4. Stands(x)
    BY <2>3 DEF Stands, Left
  <2>. QED BY <1>2, <2>1, <2>4 DEF Record
<1>9. CASE \E s \in Syncers : Finish(s) \/ Abandon(s)
  <2>1. Stands(Nil)
    BY DEF Stands
  <2>. QED BY <1>2, <1>9, <2>1 DEF Finish, Ends, Abandon
<1>10. CASE \E o \in Fetched : Serve(o)
  <2>. PICK o \in Fetched : Serve(o)
    BY <1>10
  <2>1. /\ served[o] < Len(Versions[o]) /\ served' = [served EXCEPT ![o] = @ + 1]
        /\ UNCHANGED <<now, sync>>
    BY DEF Serve
  <2>2. served[o] + 1 \in DOMAIN Versions[o] /\ served[o] + 1 \in Nat
    BY <2>1, PricingAssumption DEF SyncInv
  <2>. QED BY <2>1, <2>2 DEF SyncInv
<1>11. CASE Tick \/ StepBack
  <2>1. now' \in 1 .. MaxNow /\ UNCHANGED <<served, sync>>
    BY <1>0, <1>11 DEF Tick, StepBack, SyncInv
  <2>. QED BY <2>1 DEF SyncInv
<1>12. CASE UNCHANGED <<now, served, sync>>
  BY <1>12 DEF SyncInv
<1>. QED
  BY <1>4, <1>5, <1>6, <1>7, <1>8, <1>9, <1>10, <1>11, <1>12
  DEF Next, vars, Fill, Reprice, Store, CreatePrice

-----------------------------------------------------------------------------
(* The costs of an event *)

\* What EventsInv and CostsHold ask of one event.
Kind == [seen : BOOLEAN, price : {Nil} \cup (Origins \X Nat), list : Int \cup {Nil},
         billed : Int \cup {Nil} \cup {Request[e].spend : e \in Events}]

Proper(e, row) ==
    /\ row \in Kind
    /\ ~row.seen => row.list = Nil /\ row.billed = Nil
    /\ row.seen => Holds(Request[e], row)

LEMMA EventsProper ==
  (EventsInv /\ CostsHold) <=>
     /\ event = [e \in Events |-> event[e]]
     /\ \A e \in Events : Proper(e, event[e])
BY DEF EventsInv, CostsHold, Proper, Kind

\* A fill gives an event the costs of a row in force.
LEMMA FillHolds ==
  ASSUME PricesInv, NEW rows, \A e \in Events : Proper(e, rows[e])
  PROVE  /\ Filled(rows) = [e \in Events |-> Filled(rows)[e]]
         /\ \A e \in Events : Proper(e, Filled(rows)[e])
<1>1. Filled(rows) = [e \in Events |-> Filled(rows)[e]]
  BY DEF Filled
<1>2. ASSUME NEW e \in Events
      PROVE  Proper(e, Filled(rows)[e])
  <2>. DEFINE q == Request[e]
              row == rows[e]
  <2>1. CASE ~ (row.seen /\ row.list = Nil /\ Candidates(q) # {})
    BY <2>1 DEF Filled
  <2>2. CASE row.seen /\ row.list = Nil /\ Candidates(q) # {}
    <3>. DEFINE c == Choice(q)
                list == Cost(At(c).rates, q)
                billed == IF row.billed # Nil THEN row.billed ELSE IF q.oauth THEN 0 ELSE list
    <3>0. /\ q.input \in Int /\ q.read \in Int /\ q.write \in Int /\ q.output \in Int
          /\ q.at \in Int
      BY RequestTyped
    <3>1. c \in Candidates(q)
      BY <2>2, <3>0, ChoiceIsFirst
    <3>2. c \in Origins \X Nat /\ RatesTyped(At(c).rates)
      <4>1. c = <<c[1], c[2]>> /\ c[1] \in Origins /\ c[2] \in DOMAIN prices[c[1]]
        BY <3>1 DEF Candidates
      <4>2. c[2] \in Nat
        <5>1. prices[c[1]] \in Seq({prices[c[1]][i] : i \in DOMAIN prices[c[1]]})
          BY <4>1 DEF PricesInv
        <5>. HIDE DEF c
        <5>. QED BY <4>1, <5>1
      <4>3. RatesTyped(At(c).rates)
        BY <4>1 DEF PricesInv, At
      <4>. QED BY <4>1, <4>2, <4>3
    <3>3. list \in Int /\ list # Nil
      BY <3>0, <3>2, CostIsInteger, PricingAssumption
    <3>4. row \in Kind /\ row.seen /\ Holds(q, row)
      BY <2>2 DEF Proper
    <3>5. Filled(rows)[e] = [row EXCEPT !.price = c, !.list = list, !.billed = billed]
      BY <2>2 DEF Filled, Priced
    <3>. HIDE DEF c, list, row, q
    <3>6. billed \in Int \cup {Nil} \cup {Request[d].spend : d \in Events}
      BY <3>3, <3>4 DEF Kind
    <3>. DEFINE new == [row EXCEPT !.price = c, !.list = list, !.billed = billed]
    <3>7. /\ new \in Kind /\ new.seen /\ new.price = c /\ new.list = list
          /\ new.billed = billed
      BY <3>2, <3>3, <3>4, <3>6 DEF Kind
    <3>8. q.kind # "litellm" \/ q.spend # Nil =>
             row.billed = IF q.spend # Nil THEN q.spend ELSE Nil
      BY <2>2, <3>4 DEF Holds, row, q
    <3>9. q.kind # "litellm" \/ q.spend # Nil =>
             billed = IF q.spend # Nil THEN q.spend ELSE IF q.oauth THEN 0 ELSE list
      BY <3>8
    <3>10. list = Cost(At(c).rates, q)
      BY DEF list
    <3>. HIDE DEF new, billed
    <3>11. Holds(q, new)
      BY <3>1, <3>3, <3>7, <3>9, <3>10 DEF Holds
    <3>. QED BY <3>5, <3>7, <3>11 DEF Proper, q, new, row
  <2>. QED BY <2>1, <2>2
<1>. QED BY <1>1, <1>2

\* A reprice forgets a cost and leaves what the upstream billed.
LEMMA ForgettingHolds ==
  ASSUME NEW e \in Events, NEW row, Proper(e, row), row.seen
  PROVE  Proper(e, Forgotten(row, Request[e]))
<1>. DEFINE q == Request[e]
            new == Forgotten(row, q)
<1>1. row \in Kind /\ Holds(q, row) /\ (q.kind # "litellm" => q.spend = Nil)
  BY RequestTyped DEF Proper
<1>2. /\ new \in Kind /\ new.seen /\ new.list = Nil
      /\ new.billed = IF q.kind = "litellm" THEN row.billed ELSE Nil
  BY <1>1 DEF Forgotten, Kind
<1>. HIDE DEF new
<1>3. q.kind # "litellm" \/ q.spend # Nil =>
         new.billed = IF q.spend # Nil THEN q.spend ELSE Nil
  BY <1>1, <1>2 DEF Holds
<1>4. Holds(q, new)
  BY <1>2, <1>3 DEF Holds
<1>. QED BY <1>2, <1>4 DEF Proper, new

\* A stored event has the cost its upstream reports and no other.
LEMMA StoringHolds ==
  ASSUME NEW e \in Events, EventsInv, CostsHold, ~event[e].seen
  PROVE  Proper(e, [event[e] EXCEPT !.seen = TRUE, !.billed = Request[e].spend])
<1>. DEFINE new == [event[e] EXCEPT !.seen = TRUE, !.billed = Request[e].spend]
<1>1. event[e] \in Kind /\ event[e].list = Nil
  BY DEF EventsInv, Kind
<1>2. new \in Kind /\ new.seen /\ new.list = Nil /\ new.billed = Request[e].spend
  BY <1>1 DEF Kind
<1>. HIDE DEF new
<1>3. Holds(Request[e], new)
  BY <1>2 DEF Holds
<1>. QED BY <1>2, <1>3 DEF Proper, new

\* Every step leaves each event with proper costs, by the rows there were before.
LEMMA EventsStep ==
  ASSUME PricesInv, EventsInv, CostsHold, [Next]_vars
  PROVE  /\ event' = [e \in Events |-> event'[e]]
         /\ \A e \in Events : Proper(e, event'[e])
<1>0. event = [e \in Events |-> event[e]] /\ \A e \in Events : Proper(e, event[e])
  BY EventsProper
<1>1. CASE Fill \/ \E s \in Syncers : Finish(s)
  BY <1>0, <1>1, FillHolds DEF Fill, Finish
<1>2. CASE \E from, to \in {0, MaxNow} : Reprice(from, to)
  <2>. PICK from \in {0, MaxNow}, to \in {0, MaxNow} : Reprice(from, to)
    BY <1>2
  <2>. DEFINE rows == [e \in Events |->
                          IF event[e].seen /\ Request[e].at \in from .. to
                          THEN Forgotten(event[e], Request[e])
                          ELSE event[e]]
  <2>1. \A e \in Events : Proper(e, rows[e])
    BY <1>0, ForgettingHolds
  <2>2. event' = Filled(rows)
    BY DEF Reprice
  <2>. HIDE DEF rows
  <2>. QED BY <2>1, <2>2, FillHolds
<1>3. CASE \E e \in Events : Store(e)
  <2>. PICK d \in Events : Store(d)
    BY <1>3
  <2>. DEFINE new == [event[d] EXCEPT !.seen = TRUE, !.billed = Request[d].spend]
  <2>1. Proper(d, new)
    BY StoringHolds DEF Store
  <2>2. event' = [event EXCEPT ![d] = new]
    BY DEF Store
  <2>. HIDE DEF new
  <2>. QED BY <1>0, <2>1, <2>2
<1>4. CASE UNCHANGED event
  BY <1>0, <1>4
<1>. QED
  BY <1>1, <1>2, <1>3, <1>4 DEF Next, vars, CreatePrice, StartSync, Fetch, FetchFails,
     Stamp, Record, Abandon, Serve, Tick, StepBack

\* A row that may price a request still may when rows were added.
LEMMA CandidatesStay ==
  ASSUME RowsStay, PricesInv, PricesInv', NEW q
  PROVE  \A i \in Candidates(q) : i \in Candidates(q)' /\ At(i)' = At(i)
<1>. TAKE i \in Candidates(q)
<1>1. /\ i = <<i[1], i[2]>> /\ i[1] \in Origins /\ i[2] \in DOMAIN prices[i[1]]
  BY DEF Candidates
<1>2. i[2] \in DOMAIN prices'[i[1]] /\ At(i)' = At(i)
  BY <1>1 DEF RowsStay, At
<1>3. i \in UNION {{o} \X DOMAIN prices'[o] : o \in Origins}
  BY <1>1, <1>2
<1>. QED BY <1>2, <1>3 DEF Candidates, Applies

\* Proper costs stay proper when rows are added.
LEMMA ProperStays ==
  ASSUME RowsStay, PricesInv, PricesInv', NEW e \in Events, NEW row, Proper(e, row)
  PROVE  Proper(e, row)'
<1>. DEFINE q == Request[e]
<1>1. ASSUME row.list # Nil, row.price \in Candidates(q), row.list = Cost(At(row.price).rates, q)
      PROVE  row.price \in Candidates(q)' /\ row.list = Cost(At(row.price)'.rates, q)
  BY <1>1, CandidatesStay
<1>. QED BY <1>1 DEF Proper, Holds

-----------------------------------------------------------------------------
(* The rows of a map's origin follow its recordings *)

LEMMA KeysCompare ==
  /\ \A a : SameKey(a, a)
  /\ \A a, b : SameKey(a, b) => SameKey(b, a)
  /\ \A a, b, c : SameKey(a, b) /\ SameKey(b, c) => SameKey(a, c)
BY DEF SameKey

\* The rows of a list that are of a key.
Alike(rows, r) == {i \in DOMAIN rows : SameKey(rows[i], r)}

\* The newest row of a key is dated last, and of those added last.
LEMMA LatestIsNewest ==
  ASSUME PricesInv, NEW o \in Fetched, NEW r,
         \A i \in DOMAIN prices[o] : prices[o][i].from \in 0 .. MaxNow
  PROVE  /\ Alike(prices[o], r) = {} => Latest(o, r) = 0
         /\ Alike(prices[o], r) # {} =>
               /\ Latest(o, r) \in Alike(prices[o], r) /\ Latest(o, r) # 0
               /\ \A j \in Alike(prices[o], r) \ {Latest(o, r)} :
                     \/ prices[o][Latest(o, r)].from > prices[o][j].from
                     \/ /\ prices[o][Latest(o, r)].from = prices[o][j].from
                        /\ Latest(o, r) > j
<1>. DEFINE rows == prices[o]
            same == {i \in DOMAIN rows : SameKey(rows[i], r)}
            Newest(i) == \A j \in same \ {i} : \/ rows[i].from > rows[j].from
                                               \/ rows[i].from = rows[j].from /\ i > j
<1>1. DOMAIN rows = 1 .. Len(rows) /\ Len(rows) \in Nat /\ MaxNow \in Int
  <2>1. rows \in Seq({rows[i] : i \in DOMAIN rows})
    BY DEF PricesInv, Origins
  <2>. QED BY <2>1, PricingAssumption
<1>2. Latest(o, r) = IF same = {} THEN 0 ELSE CHOOSE i \in same : Newest(i)
  BY DEF Latest
<1>3. \A i \in same : /\ i \in Int /\ i > 0 /\ i <= Len(rows)
                      /\ rows[i].from \in Int /\ rows[i].from <= MaxNow
  <2>1. \A i \in same : i \in DOMAIN rows
    OBVIOUS
  <2>. HIDE DEF same, rows
  <2>2. \A i \in same : i \in Int /\ i > 0 /\ i <= Len(rows)
    BY <1>1, <2>1
  <2>3. \A i \in same : rows[i].from \in Int /\ rows[i].from <= MaxNow
    BY <1>1, <2>1 DEF rows
  <2>. QED BY <2>2, <2>3
<1>4. ASSUME same # {}
      PROVE  \E i \in same : Newest(i)
  <2>. DEFINE date == [i \in same |-> rows[i].from]
  <2>1. PICK d \in same : \A i \in same : date[i] <= date[d]
    <3>1. \A i \in same : date[i] \in Int /\ date[i] <= MaxNow
      BY <1>3
    <3>. HIDE DEF date, same
    <3>. QED BY <1>1, <1>4, <3>1, Greatest
  <2>. DEFINE top == {i \in same : rows[i].from = rows[d].from}
              place == [i \in top |-> i]
  <2>2. PICK l \in top : \A i \in top : place[i] <= place[l]
    <3>1. \A i \in top : place[i] \in Int /\ place[i] <= Len(rows)
      <4>1. \A i \in top : i \in same /\ place[i] = i
        OBVIOUS
      <4>. HIDE DEF top, same, place, rows
      <4>. QED BY <1>3, <4>1
    <3>2. top # {} /\ Len(rows) \in Int
      BY <1>1
    <3>. HIDE DEF top, place, rows
    <3>. QED BY <3>1, <3>2, Greatest
  <2>3. l \in same /\ rows[l].from = rows[d].from
    OBVIOUS
  <2>4. \A i \in same : rows[i].from <= rows[l].from
    <3>1. \A i \in same : date[i] = rows[i].from
      OBVIOUS
    <3>. HIDE DEF date, same, top, rows
    <3>. QED BY <2>1, <2>3, <3>1
  <2>5. \A i \in same : rows[i].from = rows[l].from => i <= l
    <3>1. \A i \in same : rows[i].from = rows[l].from => i \in top
      BY <2>3
    <3>2. \A i \in top : place[i] = i
      OBVIOUS
    <3>. HIDE DEF same, top, place, rows
    <3>. QED BY <2>2, <3>1, <3>2
  <2>. HIDE DEF same, top, rows, date, place
  <2>6. Newest(l)
    BY <1>3, <2>3, <2>4, <2>5
  <2>. QED BY <2>3, <2>6
<1>5. ASSUME same # {}
      PROVE  Latest(o, r) \in same /\ Newest(Latest(o, r)) /\ Latest(o, r) # 0
  <2>. HIDE DEF Newest, same
  <2>1. PICK c : c = CHOOSE i \in same : Newest(i)
    OBVIOUS
  <2>2. c \in same /\ Newest(c)
    BY <1>4, <1>5, <2>1, Zenon
  <2>3. Latest(o, r) = c
    BY <1>2, <1>5, <2>1
  <2>. QED BY <1>3, <2>2, <2>3
<1>. QED BY <1>2, <1>5 DEF Alike

-----------------------------------------------------------------------------
(* One more recording *)

\* The recordings have one more, the last.
OneMore(recs, recordings, last) ==
    /\ last \in Nat \ {0} /\ DOMAIN recordings = 1 .. last /\ DOMAIN recs = 1 .. (last - 1)
    /\ \A m \in DOMAIN recs : recordings[m] = recs[m]

LEMMA OneMorePlaces ==
  ASSUME NEW recs, NEW recordings, NEW last, OneMore(recs, recordings, last)
  PROVE  /\ last \in DOMAIN recordings /\ last \in Nat
         /\ \A m \in DOMAIN recordings : m = last \/ m \in DOMAIN recs
         /\ \A m \in DOMAIN recs : /\ m \in DOMAIN recordings /\ recordings[m] = recs[m]
                                   /\ m \in Nat /\ m < last
BY DEF OneMore

\* The last is late when one of its key before it has a later date.
LEMMA LateLast ==
  ASSUME NEW o, NEW recs, NEW recordings, NEW last, OneMore(recs, recordings, last),
         NEW p, NEW n \in DOMAIN recs, Gives(o, recs[n], p),
         recs[n].at > recordings[last].at
  PROVE  Late(o, recordings, last, p)
BY OneMorePlaces DEF Late

\* What was told stays told unless the last recording, made by then, is on time.
LEMMA ToldStays ==
  ASSUME NEW o, NEW recs, NEW recordings, NEW last, OneMore(recs, recordings, last),
         NEW p, NEW at, Told(o, recs, p, at),
         Gives(o, recordings[last], p) /\ recordings[last].at <= at =>
             Late(o, recordings, last, p)
  PROVE  Told(o, recordings, p, at)
<1>1. PICK n \in DOMAIN recs :
          /\ \E r \in Catalog[o][recs[n].map] : SameKey(r, p) /\ r.rates = p.rates
          /\ \/ recs[n].at <= at
             \/ \A m \in DOMAIN recs : Gives(o, recs[m], p) => n <= m
          /\ \A m \in DOMAIN recs :
                m > n /\ Gives(o, recs[m], p) /\ recs[m].at <= at => Late(o, recs, m, p)
  BY DEF Told
<1>2. n \in DOMAIN recordings /\ recordings[n] = recs[n] /\ n <= last
  BY OneMorePlaces
<1>3. \/ recordings[n].at <= at
      \/ \A m \in DOMAIN recordings : Gives(o, recordings[m], p) => n <= m
  <2>1. ASSUME \A m \in DOMAIN recs : Gives(o, recs[m], p) => n <= m,
               NEW m \in DOMAIN recordings, Gives(o, recordings[m], p)
        PROVE  n <= m
    <3>1. m = last \/ (m \in DOMAIN recs /\ recordings[m] = recs[m])
      BY OneMorePlaces
    <3>. QED BY <1>2, <2>1, <3>1
  <2>. QED BY <1>1, <1>2, <2>1
<1>4. ASSUME NEW m \in DOMAIN recordings, m > n, Gives(o, recordings[m], p),
             recordings[m].at <= at
      PROVE  Late(o, recordings, m, p)
  <2>1. CASE m = last
    BY <1>4, <2>1
  <2>2. CASE m \in DOMAIN recs
    <3>1. recordings[m] = recs[m]
      BY <2>2, OneMorePlaces
    <3>2. Late(o, recs, m, p)
      BY <1>1, <1>4, <2>2, <3>1
    <3>3. PICK k \in DOMAIN recs : k < m /\ Gives(o, recs[k], p) /\ recs[k].at > recs[m].at
      BY <3>2 DEF Late
    <3>4. k \in DOMAIN recordings /\ recordings[k] = recs[k]
      BY OneMorePlaces
    <3>. QED BY <3>1, <3>3, <3>4 DEF Late
  <2>. QED BY <2>1, <2>2, OneMorePlaces
<1>. QED BY <1>1, <1>2, <1>3, <1>4 DEF Told

\* The last recording tells what it gives from its date on, or from the beginning on
\* where it is the first of the key.
LEMMA ToldByLast ==
  ASSUME NEW o, NEW recs, NEW recordings, NEW last, OneMore(recs, recordings, last),
         NEW p, NEW at, NEW r \in Catalog[o][recordings[last].map],
         SameKey(r, p), r.rates = p.rates,
         recordings[last].at <= at \/ \A m \in DOMAIN recs : ~Gives(o, recs[m], p)
  PROVE  Told(o, recordings, p, at)
<1>1. /\ last \in DOMAIN recordings /\ last \in Nat
      /\ \A m \in DOMAIN recordings : /\ m = last \/ (m \in DOMAIN recs /\ recordings[m] = recs[m])
                                      /\ m \in Nat /\ m <= last
  BY OneMorePlaces
<1>2. ASSUME \A m \in DOMAIN recs : ~Gives(o, recs[m], p)
      PROVE  \A m \in DOMAIN recordings : Gives(o, recordings[m], p) => last <= m
  BY <1>1, <1>2
<1>3. \A m \in DOMAIN recordings : ~(m > last)
  BY <1>1
<1>. QED BY <1>1, <1>2, <1>3 DEF Told

LEMMA AppendedLast ==
  ASSUME NEW S, NEW list \in Seq(S), NEW e \in S
  PROVE  /\ Append(list, e) \in Seq(S) /\ Append(list, e) # <<>>
         /\ DOMAIN list = 1 .. Len(list) /\ DOMAIN Append(list, e) = 1 .. Len(list) + 1
         /\ Append(list, e)[Len(list) + 1] = e
         /\ \A i \in 1 .. Len(list) : Append(list, e)[i] = list[i]
OBVIOUS

\* The new and changed rows of a map, behind the L there are, and its recording.
Recorded(o, v, at, n, new, rows, L, recordings) ==
    /\ n \in Nat \ {0} /\ new \in [1 .. n -> Catalog[o][v]]
    /\ \A r \in Catalog[o][v] : Unchanged(o, r) <=> \A i \in 1 .. n : new[i] # r
    /\ L \in Nat /\ DOMAIN prices[o] = 1 .. L /\ DOMAIN rows = 1 .. L + n
    /\ \A i \in 1 .. L : rows[i] = prices[o][i]
    /\ \A i \in 1 .. n : rows[L + i] = NewRow(o, new[i], at)
    /\ recordings = Append(record[o], [map |-> v, at |-> at])

\* Recording a map puts its new and changed rows, with their dates, at the end.
LEMMA RecordingFollows ==
  ASSUME PricesInv, NEW o \in Fetched, NEW v \in DOMAIN Versions[o], v \in Nat,
         NEW stamp \in 1 .. MaxNow, FollowsMap(o, prices[o], record[o]),
         NEW n, NEW new, NEW rows, NEW L, NEW recordings,
         Recorded(o, v, stamp, n, new, rows, L, recordings)
  PROVE  FollowsMap(o, rows, recordings)
<1>. DEFINE old == prices[o]
            recs == record[o]
            map == Catalog[o][v]
            last == Len(recs) + 1
            S == [map : Nat, at : Nat]
            e == [map |-> v, at |-> stamp]
            Known(r) == Alike(old, r) # {}
<1>0. MaxNow \in Nat /\ stamp \in Nat
  BY PricingAssumption
<1>1. /\ recs \in Seq(S)
      /\ \A m \in DOMAIN recs :
            /\ recs[m].map \in DOMAIN Versions[o]
            /\ \A r \in Catalog[o][recs[m].map] :
                  \E i \in DOMAIN old : SameKey(old[i], r) /\ old[i].from = Beginning
      /\ \A i \in DOMAIN old :
            /\ old[i].from \in 0 .. MaxNow
            /\ old[i].from # Beginning =>
                  \E m \in DOMAIN recs : Gives(o, recs[m], old[i]) /\ recs[m].at = old[i].from
      /\ \A at \in Nat : \A i \in DOMAIN old : InForce(old, i, at) => Told(o, recs, old[i], at)
  BY DEF FollowsMap
<1>. DEFINE More == /\ recordings \in Seq(S) /\ OneMore(recs, recordings, last)
                    /\ recordings[last].map = v /\ recordings[last].at = stamp
<1>21. More
  <2>1. e \in S /\ e.map = v /\ e.at = stamp
    BY <1>0
  <2>2. recordings = Append(recs, e)
    BY DEF Recorded
  <2>. HIDE DEF recs, e, S
  <2>3. /\ Append(recs, e) \in Seq(S)
        /\ DOMAIN recs = 1 .. Len(recs) /\ DOMAIN Append(recs, e) = 1 .. Len(recs) + 1
        /\ Append(recs, e)[Len(recs) + 1] = e
        /\ \A i \in 1 .. Len(recs) : Append(recs, e)[i] = recs[i]
    BY <1>1, <2>1, AppendedLast
  <2>4. last \in Nat \ {0} /\ last = Len(recs) + 1 /\ last - 1 = Len(recs)
    <3>1. Len(recs) \in Nat
      BY <1>1
    <3>. QED BY <3>1
  <2>. HIDE DEF last
  <2>5. /\ DOMAIN recordings = 1 .. last /\ DOMAIN recs = 1 .. (last - 1)
        /\ \A m \in DOMAIN recs : recordings[m] = recs[m]
    BY <2>2, <2>3, <2>4
  <2>6. recordings[last] = e /\ recordings \in Seq(S)
    BY <2>2, <2>3, <2>4
  <2>. QED BY <2>1, <2>4, <2>5, <2>6 DEF OneMore
<1>2. OneMore(recs, recordings, last)
  BY <1>21
<1>22. recordings[last].map = v /\ recordings[last].at = stamp
  BY <1>21
<1>23. recordings \in Seq(S)
  BY <1>21
<1>3. \A r : /\ ~Known(r) => Latest(o, r) = 0
             /\ Known(r) => /\ Latest(o, r) \in Alike(old, r) /\ Latest(o, r) # 0
                            /\ \A j \in Alike(old, r) \ {Latest(o, r)} :
                                  \/ old[Latest(o, r)].from > old[j].from
                                  \/ /\ old[Latest(o, r)].from = old[j].from
                                     /\ Latest(o, r) > j
  BY <1>1, LatestIsNewest
\* A row of a key that was there before has the stamp, any other is from the beginning.
<1>4. \A i \in 1 .. n : /\ SameKey(rows[L + i], new[i]) /\ rows[L + i].rates = new[i].rates
                        /\ rows[L + i].from = IF Known(new[i]) THEN stamp ELSE Beginning
  <2>. TAKE i \in 1 .. n
  <2>1. rows[L + i] = NewRow(o, new[i], stamp)
    BY DEF Recorded
  <2>2. Known(new[i]) <=> Latest(o, new[i]) # 0
    BY <1>3
  <2>. HIDE DEF Known
  <2>. QED BY <2>1, <2>2 DEF NewRow, SameKey
<1>5. \A i \in DOMAIN rows : i \in 1 .. L \/ \E j \in 1 .. n : i = L + j
  <2>. TAKE i \in DOMAIN rows
  <2>1. i \in 1 .. L + n /\ L \in Nat /\ n \in Nat
    BY DEF Recorded
  <2>2. CASE i > L
    <3>1. i - L \in 1 .. n /\ i = L + (i - L)
      BY <2>1, <2>2
    <3>. QED BY <3>1
  <2>. QED BY <2>1, <2>2
<1>6. /\ \A i \in DOMAIN old : rows[i] = old[i] /\ i \in DOMAIN rows /\ i \in Nat /\ i <= L
      /\ \A i \in 1 .. L : i \in DOMAIN old
      /\ \A i \in 1 .. n : /\ new[i] \in map /\ L + i \in DOMAIN rows
                           /\ L + i \in Nat /\ L + i > L
  BY DEF Recorded
<1>7. \A r \in map : ~Unchanged(o, r) => \E i \in 1 .. n : new[i] = r
  BY DEF Recorded
<1>8. \A r : Unchanged(o, r) <=> Latest(o, r) # 0 /\ old[Latest(o, r)].rates = r.rates
  BY DEF Unchanged
<1>9. \A r : Known(r) <=> \E i \in DOMAIN old : SameKey(old[i], r)
  BY DEF Alike
<1>10. \A r : \A i \in Alike(old, r) : i \in DOMAIN old /\ SameKey(old[i], r)
  BY DEF Alike
<1>. HIDE DEF last, S, e, More, Known, recs, old, map
<1>11. /\ last \in DOMAIN recordings
       /\ \A m \in DOMAIN recordings : m = last \/ m \in DOMAIN recs
       /\ \A m \in DOMAIN recs : m \in DOMAIN recordings /\ recordings[m] = recs[m]
  BY <1>2, OneMorePlaces
<1>12. \A r : Gives(o, recordings[last], r) <=> \E k \in map : SameKey(k, r)
  BY <1>22 DEF Gives, map
\* A key that an earlier recording gave has a row.
<1>13. ASSUME NEW r, NEW m \in DOMAIN recs, Gives(o, recs[m], r)
       PROVE  Known(r)
  <2>1. PICK k \in Catalog[o][recs[m].map] : SameKey(k, r)
    BY <1>13 DEF Gives
  <2>2. PICK i \in DOMAIN old : SameKey(old[i], k)
    BY <1>1
  <2>. QED BY <1>9, <2>1, <2>2, KeysCompare
\* The prices of each map recorded have rows from the beginning.
<1>14. ASSUME NEW m \in DOMAIN recordings
       PROVE  /\ recordings[m].map \in DOMAIN Versions[o]
              /\ \A r \in Catalog[o][recordings[m].map] :
                    \E i \in DOMAIN rows : SameKey(rows[i], r) /\ rows[i].from = Beginning
  <2>1. ASSUME NEW p \in DOMAIN recs, NEW r \in Catalog[o][recs[p].map]
        PROVE  \E i \in DOMAIN rows : SameKey(rows[i], r) /\ rows[i].from = Beginning
    <3>1. PICK i \in DOMAIN old : SameKey(old[i], r) /\ old[i].from = Beginning
      BY <1>1, <2>1
    <3>. QED BY <1>6, <3>1
  <2>2. CASE m \in DOMAIN recs
    BY <1>1, <1>11, <2>1, <2>2
  <2>3. CASE m = last
    <3>1. ASSUME NEW r \in map
          PROVE  \E i \in DOMAIN rows : SameKey(rows[i], r) /\ rows[i].from = Beginning
      <4>1. CASE Known(r)
        <5>1. \E i \in DOMAIN old : SameKey(old[i], r) /\ old[i].from = Beginning
          <6>1. PICK i \in DOMAIN old : SameKey(old[i], r)
            BY <1>9, <4>1
          <6>2. CASE old[i].from = Beginning
            BY <6>1, <6>2
          <6>3. CASE old[i].from # Beginning
            <7>1. PICK p \in DOMAIN recs : Gives(o, recs[p], old[i])
              BY <1>1, <6>3
            <7>2. PICK k \in Catalog[o][recs[p].map] : SameKey(k, old[i])
              BY <7>1 DEF Gives
            <7>3. PICK j \in DOMAIN old : SameKey(old[j], k) /\ old[j].from = Beginning
              BY <1>1
            <7>. QED BY <6>1, <7>2, <7>3, KeysCompare
          <6>. QED BY <6>2, <6>3
        <5>. QED BY <1>6, <5>1
      <4>2. CASE ~Known(r)
        <5>1. PICK i \in 1 .. n : new[i] = r
          BY <1>3, <1>7, <1>8, <4>2
        <5>. QED BY <1>4, <1>6, <4>2, <5>1
      <4>. QED BY <4>1, <4>2
    <3>. QED BY <1>22, <2>3, <3>1 DEF map
  <2>. QED BY <1>11, <2>2, <2>3
\* Each row from later on has the date of a recording of its key.
<1>15. ASSUME NEW i \in DOMAIN rows
       PROVE  /\ rows[i].from \in 0 .. MaxNow
              /\ rows[i].from # Beginning =>
                    \E m \in DOMAIN recordings :
                        Gives(o, recordings[m], rows[i]) /\ recordings[m].at = rows[i].from
  <2>1. CASE i \in 1 .. L
    <3>1. i \in DOMAIN old /\ rows[i] = old[i]
      BY <1>6, <2>1
    <3>. QED BY <1>1, <1>11, <3>1
  <2>2. CASE \E j \in 1 .. n : i = L + j
    <3>. PICK j \in 1 .. n : i = L + j
      BY <2>2
    <3>1. SameKey(new[j], rows[i]) /\ new[j] \in map
      BY <1>4, <1>6, KeysCompare
    <3>2. Gives(o, recordings[last], rows[i])
      BY <1>12, <3>1
    <3>3. rows[i].from = stamp \/ rows[i].from = Beginning
      BY <1>4
    <3>. QED BY <1>0, <1>11, <1>22, <3>2, <3>3 DEF Beginning
  <2>. QED BY <1>5, <2>1, <2>2
\* A row in force costs what is told of its key.
<1>16. ASSUME NEW at \in Nat, NEW i \in DOMAIN rows, InForce(rows, i, at)
       PROVE  Told(o, recordings, rows[i], at)
  <2>. DEFINE p == rows[i]
  <2>0. /\ p.from <= at
        /\ \A j \in DOMAIN rows : SameKey(rows[j], p) /\ rows[j].from <= at =>
              rows[j].from < p.from \/ (rows[j].from = p.from /\ j <= i)
    BY <1>16 DEF InForce
  <2>. HIDE DEF p
  <2>1. CASE i \in 1 .. L
    <3>1. i \in DOMAIN old /\ p = old[i] /\ i \in Nat /\ i <= L /\ p.from \in 0 .. MaxNow
      BY <1>1, <1>6, <2>1 DEF p
    <3>2. Told(o, recs, p, at)
      <4>1. InForce(old, i, at)
        BY <1>6, <2>0, <3>1 DEF InForce
      <4>. QED BY <1>1, <3>1, <4>1
    \* It is enough that the new recording is out of order, or later.
    <3>3. SUFFICES ASSUME Gives(o, recordings[last], p), stamp <= at,
                          ~Late(o, recordings, last, p)
                   PROVE  Told(o, recordings, p, at)
      BY <1>2, <1>22, <3>2, ToldStays DEF p
    <3>4. PICK k \in map : SameKey(k, p)
      BY <1>12, <3>3
    <3>5. Known(k) /\ i \in Alike(old, k)
      BY <1>9, <3>1, <3>4, KeysCompare DEF Alike
    \* No row of the key is dated past the new recording.
    <3>6. ASSUME NEW j \in DOMAIN old, SameKey(old[j], k)
          PROVE  old[j].from <= stamp
      <4>1. SUFFICES ASSUME old[j].from > stamp PROVE FALSE
        BY <1>0, <1>1
      <4>2. old[j].from # Beginning
        BY <1>0, <4>1 DEF Beginning
      <4>3. PICK m \in DOMAIN recs : Gives(o, recs[m], old[j]) /\ recs[m].at = old[j].from
        BY <1>1, <4>2
      <4>4. Gives(o, recs[m], p)
        BY <3>4, <3>6, <4>3, KeysCompare DEF Gives
      <4>. QED BY <1>2, <1>22, <3>3, <4>1, <4>3, <4>4, LateLast
    <3>7. CASE Unchanged(o, k)
      <4>. DEFINE l == Latest(o, k)
      <4>1. l \in DOMAIN old /\ SameKey(old[l], k) /\ old[l].rates = k.rates
        BY <1>3, <1>8, <1>10, <3>5, <3>7
      <4>2. old[l].from <= at /\ old[l].from \in Nat
        BY <1>0, <1>1, <3>3, <3>6, <4>1
      <4>3. l = i
        <5>1. SUFFICES ASSUME l # i PROVE FALSE
          OBVIOUS
        <5>2. i \in Alike(old, k) \ {l}
          BY <3>5, <5>1
        <5>3. \/ old[l].from > p.from
              \/ old[l].from = p.from /\ l > i
          BY <1>3, <3>1, <3>5, <5>2
        <5>4. old[l].from < p.from \/ (old[l].from = p.from /\ l <= i)
          <6>1. SameKey(rows[l], p) /\ rows[l] = old[l] /\ l \in DOMAIN rows
            BY <1>6, <3>4, <4>1, KeysCompare
          <6>. QED BY <2>0, <4>2, <6>1
        <5>5. l \in Nat /\ i \in Nat /\ p.from \in Nat
          BY <1>0, <1>6, <3>1, <4>1
        <5>. HIDE DEF l
        <5>. QED BY <4>2, <5>3, <5>4, <5>5
      <4>. QED BY <1>2, <1>22, <3>1, <3>3, <3>4, <4>1, <4>3, ToldByLast DEF p, map
    <3>8. CASE ~Unchanged(o, k)
      <4>1. PICK j \in 1 .. n : new[j] = k
        BY <1>7, <3>8
      <4>2. /\ SameKey(rows[L + j], p) /\ rows[L + j].from = stamp
            /\ L + j \in DOMAIN rows /\ L + j > i /\ L + j \in Nat
        <5>1. SameKey(rows[L + j], k) /\ rows[L + j].from = stamp
          BY <1>4, <3>5, <4>1
        <5>2. L + j > L /\ L + j \in Nat /\ L + j \in DOMAIN rows /\ L \in Nat
          BY <1>6 DEF Recorded
        <5>. QED BY <3>1, <3>4, <5>1, <5>2, KeysCompare
      <4>3. stamp < p.from
        <5>1. stamp < p.from \/ (stamp = p.from /\ L + j <= i)
          BY <2>0, <3>3, <4>2
        <5>2. L + j > i /\ L + j \in Nat /\ i \in Nat
          BY <3>1, <4>2
        <5>. QED BY <5>1, <5>2
      <4>4. p.from <= stamp
        BY <3>1, <3>4, <3>6, KeysCompare
      <4>. QED BY <1>0, <3>1, <4>3, <4>4
    <3>. QED BY <3>7, <3>8
  <2>2. CASE \E j \in 1 .. n : i = L + j
    <3>. PICK j \in 1 .. n : i = L + j
      BY <2>2
    <3>1. /\ SameKey(new[j], p) /\ p.rates = new[j].rates /\ new[j] \in map
          /\ p.from = IF Known(new[j]) THEN stamp ELSE Beginning
      BY <1>4, <1>6, KeysCompare DEF p
    <3>2. stamp <= at \/ \A m \in DOMAIN recs : ~Gives(o, recs[m], p)
      <4>1. CASE Known(new[j])
        BY <2>0, <3>1, <4>1
      <4>2. CASE ~Known(new[j])
        <5>1. \A m \in DOMAIN recs : Gives(o, recs[m], p) => Gives(o, recs[m], new[j])
          BY <3>1, KeysCompare DEF Gives
        <5>. QED BY <1>13, <4>2, <5>1
      <4>. QED BY <4>1, <4>2
    <3>. QED BY <1>2, <1>22, <3>1, <3>2, ToldByLast DEF p, map
  <2>. QED BY <1>5, <2>1, <2>2
<1>. QED BY <1>14, <1>15, <1>16, <1>23 DEF FollowsMap, S

\* A map recorded goes on following what is recorded.
LEMMA RecordHistory ==
  ASSUME PricesInv, SyncInv, HistoryInv, NEW s \in Syncers, Record(s)
  PROVE  HistoryInv'
<1>. DEFINE o == Head(sync[s].todo)
            v == sync[s].map
            stamp == sync[s].at
            changed == {r \in Catalog[o][v] : ~Unchanged(o, r)}
            new == InOrder(changed)
            n == Cardinality(changed)
            added == [i \in DOMAIN new |-> NewRow(o, new[i], stamp)]
            rows == prices[o] \o added
            more == Append(record[o], [map |-> v, at |-> stamp])
<1>1. /\ o \in Fetched /\ o \in Origins /\ v \in DOMAIN Versions[o] /\ v \in Nat
      /\ stamp \in 1 .. MaxNow
  BY RecordKnows
<1>2. /\ prices' = [prices EXCEPT ![o] = rows]
      /\ record' = [record EXCEPT ![o] = IF new = <<>> THEN @ ELSE more]
  BY DEF Record
<1>3. IsFiniteSet(changed)
  <2>1. IsFiniteSet(Catalog[o][v])
    BY <1>1, CatalogTyped
  <2>. QED BY <2>1, FS_Subset
<1>4. DOMAIN prices = Origins /\ DOMAIN record = Fetched
  BY DEF PricesInv, HistoryInv
<1>5. \A r \in Catalog[o][v] : r \in changed <=> ~Unchanged(o, r)
  OBVIOUS
<1>6. changed \subseteq Catalog[o][v]
  OBVIOUS
<1>. HIDE DEF o, v, stamp, changed
<1>7. /\ n \in Nat /\ new \in [1 .. n -> changed]
      /\ \A r \in changed : \E i \in 1 .. n : new[i] = r
  BY <1>3, Ordered
<1>. HIDE DEF n, new
<1>8. /\ added = [i \in 1 .. n |-> NewRow(o, new[i], stamp)]
      /\ added = [i \in 1 .. n |-> added[i]]
  BY <1>7
<1>9. PICK S : prices[o] \in Seq(S)
  BY <1>1 DEF PricesInv
<1>10. /\ Len(prices[o]) \in Nat /\ DOMAIN prices[o] = 1 .. Len(prices[o])
       /\ DOMAIN rows = 1 .. Len(prices[o]) + n
       /\ \A i \in 1 .. Len(prices[o]) : rows[i] = prices[o][i]
       /\ \A i \in 1 .. n : rows[Len(prices[o]) + i] = added[i]
  <2>. HIDE DEF added
  <2>. QED BY <1>7, <1>8, <1>9, Joined
<1>11. \A i \in 1 .. n : added[i] = NewRow(o, new[i], stamp)
  BY <1>8
<1>12. \A p \in Fetched \ {o} : prices'[p] = prices[p] /\ record'[p] = record[p]
  BY <1>1, <1>2, <1>4 DEF Origins
<1>13. /\ prices'[o] = rows /\ record'[o] = IF new = <<>> THEN record[o] ELSE more
       /\ DOMAIN record' = Fetched
  BY <1>1, <1>2, <1>4
<1>14. FollowsMap(o, prices[o], record[o])
  BY <1>1 DEF HistoryInv
<1>. HIDE DEF added, more
<1>15. CASE n = 0
  <2>1. new = <<>>
    BY <1>7, <1>15
  <2>2. rows = prices[o]
    <3>1. added = <<>>
      BY <1>8, <1>15
    <3>. QED BY <1>9, <3>1
  <2>3. prices'[o] = prices[o] /\ record'[o] = record[o]
    BY <1>13, <2>1, <2>2
  <2>4. \A p \in Fetched : prices'[p] = prices[p] /\ record'[p] = record[p]
    BY <1>12, <2>3
  <2>5. ASSUME NEW p \in Fetched
        PROVE  FollowsMap(p, prices[p], record[p])'
    <3>1. FollowsMap(p, prices[p], record[p])
      BY DEF HistoryInv
    <3>2. prices'[p] = prices[p] /\ record'[p] = record[p]
      BY <2>4
    <3>. QED BY <3>1, <3>2 DEF FollowsMap
  <2>. QED BY <1>13, <2>5 DEF HistoryInv
<1>16. CASE n # 0
  <2>1. new # <<>>
    <3>1. DOMAIN new = 1 .. n /\ 1 \in 1 .. n /\ DOMAIN <<>> = {}
      BY <1>7, <1>16
    <3>. QED BY <3>1
  <2>2. record'[o] = more
    BY <1>13, <2>1
  <2>. HIDE DEF rows
  <2>3. FollowsMap(o, rows, more)
    <3>1. new \in [1 .. n -> Catalog[o][v]]
      BY <1>6, <1>7
    <3>2. \A r \in Catalog[o][v] : Unchanged(o, r) <=> \A i \in 1 .. n : new[i] # r
      BY <1>5, <1>7
    <3>3. n \in Nat \ {0}
      BY <1>7, <1>16
    <3>4. more = Append(record[o], [map |-> v, at |-> stamp])
      BY DEF more
    <3>5. \A i \in 1 .. n : rows[Len(prices[o]) + i] = NewRow(o, new[i], stamp)
      BY <1>10, <1>11
    <3>6. Len(prices[o]) \in Nat /\ DOMAIN prices[o] = 1 .. Len(prices[o])
      BY <1>10
    <3>7. /\ DOMAIN rows = 1 .. Len(prices[o]) + n
          /\ \A i \in 1 .. Len(prices[o]) : rows[i] = prices[o][i]
      BY <1>10
    <3>. HIDE DEF more
    <3>8. Recorded(o, v, stamp, n, new, rows, Len(prices[o]), more)
      BY <3>1, <3>2, <3>3, <3>4, <3>5, <3>6, <3>7 DEF Recorded
    <3>. QED BY <1>1, <1>14, <3>8, RecordingFollows
  <2>4. FollowsMap(o, prices'[o], record'[o])
    BY <1>13, <2>2, <2>3
  <2>5. ASSUME NEW p \in Fetched
        PROVE  FollowsMap(p, prices[p], record[p])'
    <3>1. CASE p = o
      BY <2>4, <3>1 DEF FollowsMap
    <3>2. CASE p # o
      <4>1. prices'[p] = prices[p] /\ record'[p] = record[p]
        BY <1>12, <3>2
      <4>2. FollowsMap(p, prices[p], record[p])
        BY DEF HistoryInv
      <4>. QED BY <4>1, <4>2 DEF FollowsMap
    <3>. QED BY <3>1, <3>2
  <2>. QED BY <1>13, <2>5 DEF HistoryInv
<1>. QED BY <1>7, <1>15, <1>16

LEMMA HistoryStep ==
  ASSUME PricesInv, SyncInv, HistoryInv, [Next]_vars
  PROVE  HistoryInv'
<1>1. ASSUME record' = record, \A o \in Fetched : prices'[o] = prices[o]
      PROVE  HistoryInv'
  <2>1. ASSUME NEW o \in Fetched
        PROVE  FollowsMap(o, prices[o], record[o])'
    <3>1. FollowsMap(o, prices[o], record[o])
      BY DEF HistoryInv
    <3>2. prices'[o] = prices[o] /\ record'[o] = record[o]
      BY <1>1
    <3>. QED BY <3>1, <3>2 DEF FollowsMap
  <2>. QED BY <1>1, <2>1 DEF HistoryInv
<1>2. CASE \E s \in Syncers : Record(s)
  BY <1>2, RecordHistory
<1>3. CASE \E p \in ManualPrices : CreatePrice(p)
  <2>1. PICK row : prices' = [prices EXCEPT !["manual"] = Append(@, row)]
    BY <1>3 DEF CreatePrice
  <2>2. "manual" \notin Fetched /\ Fetched \subseteq Origins
    BY PricingAssumption DEF Fetched, Origins
  <2>3. \A o \in Fetched : prices'[o] = prices[o]
    BY <2>1, <2>2 DEF PricesInv
  <2>. QED BY <1>1, <1>3, <2>3 DEF CreatePrice
<1>4. CASE UNCHANGED <<prices, record>>
  BY <1>1, <1>4
<1>. QED
  BY <1>2, <1>3, <1>4 DEF Next, vars, Fill, Reprice, Store, StartSync, Fetch, FetchFails,
     Stamp, Finish, Abandon, Serve, Tick, StepBack

LEMMA HistoryInit ==
  ASSUME Init
  PROVE  HistoryInv
<1>1. \A o \in Fetched : prices[o] = <<>> /\ record[o] = <<>>
  BY DEF Init, Origins
<1>2. \A o \in Fetched : FollowsMap(o, <<>>, <<>>)
  BY DEF FollowsMap
<1>. QED BY <1>1, <1>2 DEF HistoryInv, Init

-----------------------------------------------------------------------------
(* The row chosen *)

\* Keys that tie down to one are in order there.
LEMMA AboveDownTo ==
  ASSUME NEW a, NEW b, Above(a, b), DOMAIN a = 1 .. 7, NEW k \in 1 .. 7,
         \A l \in 1 .. 7 : a[l] \in Int /\ b[l] \in Int,
         \A l \in 1 .. (k - 1) : a[l] = b[l]
  PROVE  a[k] >= b[k]
<1>1. PICK l \in 1 .. 7 : a[l] > b[l] /\ \A j \in 1 .. (l - 1) : a[j] = b[j]
  BY DEF Above
<1>2. CASE l < k
  <2>1. l \in 1 .. (k - 1)
    BY <1>2
  <2>2. a[l] = b[l] /\ a[l] \in Int
    BY <2>1
  <2>. QED BY <1>1, <2>2
<1>3. CASE l = k
  <2>1. a[k] \in Int /\ b[k] \in Int /\ a[k] > b[k]
    BY <1>1, <1>3
  <2>. QED BY <2>1
<1>4. CASE l > k
  <2>1. k \in 1 .. (l - 1)
    BY <1>4
  <2>2. a[k] = b[k] /\ a[k] \in Int
    BY <1>1, <2>1
  <2>. QED BY <2>2
<1>. QED BY <1>2, <1>3, <1>4

\* A row chosen before another of its origin and model: one with a tier goes before one
\* without, then the furthest, and of one key the newest.
LEMMA ChosenBefore ==
  ASSUME PricesInv, NEW q, q.input \in Int, q.at \in Int,
         NEW i \in Candidates(q), NEW j \in Candidates(q),
         j # i => Above(Rank(i, q), Rank(j, q)),
         i[1] = j[1], At(i).model = At(j).model
  PROVE  /\ At(j).tier # None => At(i).tier # None
         /\ (At(j).tier # None <=> At(i).tier # None) => At(j).min <= At(i).min
         /\ SameKey(At(j), At(i)) =>
               /\ At(j).from <= At(i).from
               /\ At(j).from = At(i).from => j[2] <= i[2]
<1>. DEFINE a == Rank(i, q)
            b == Rank(j, q)
<1>1. \A c \in Candidates(q) :
         /\ At(c).min \in Int /\ At(c).from \in Int /\ c[2] \in Int
         /\ OriginRank(c[1]) \in 0 .. 2
  <2>. TAKE c \in Candidates(q)
  <2>1. c[1] \in Origins /\ c[2] \in DOMAIN prices[c[1]]
    BY DEF Candidates
  <2>2. prices[c[1]] \in Seq({prices[c[1]][n] : n \in DOMAIN prices[c[1]]})
    BY <2>1 DEF PricesInv
  <2>3. c[2] \in Int
    BY <2>1, <2>2
  <2>4. At(c).min \in Int /\ At(c).from \in Int
    BY <2>1 DEF At, PricesInv
  <2>. QED BY <2>3, <2>4 DEF OriginRank
<1>2. /\ DOMAIN a = 1 .. 7
      /\ a[1] = Flag(At(i).model = q.model) /\ a[2] = Flag(At(i).tier # None)
      /\ a[3] = OriginRank(i[1]) /\ a[4] = At(i).min /\ a[5] = Flag(At(i).provider # Nil)
      /\ a[6] = At(i).from /\ a[7] = i[2]
  BY DEF Rank
<1>3. /\ b[1] = Flag(At(j).model = q.model) /\ b[2] = Flag(At(j).tier # None)
      /\ b[3] = OriginRank(j[1]) /\ b[4] = At(j).min /\ b[5] = Flag(At(j).provider # Nil)
      /\ b[6] = At(j).from /\ b[7] = j[2]
  BY DEF Rank
<1>4. \A p : Flag(p) \in 0 .. 1
  BY DEF Flag
<1>. HIDE DEF a, b
<1>5. \A l \in 1 .. 7 : a[l] \in Int /\ b[l] \in Int
  BY <1>1, <1>2, <1>3, <1>4
<1>6. ASSUME NEW k \in 1 .. 7, \A l \in 1 .. (k - 1) : a[l] = b[l]
      PROVE  a[k] >= b[k]
  <2>1. CASE j = i
    BY <1>5, <2>1 DEF a, b
  <2>2. CASE j # i
    <3>1. Above(a, b)
      BY <2>2 DEF a, b
    <3>. QED BY <1>2, <1>5, <1>6, <3>1, AboveDownTo
  <2>. QED BY <2>1, <2>2
<1>7. a[1] = b[1] /\ a[3] = b[3]
  BY <1>2, <1>3
<1>8. a[2] >= b[2]
  <2>1. \A l \in 1 .. (2 - 1) : a[l] = b[l]
    BY <1>7
  <2>. QED BY <1>6, <2>1
<1>9. ASSUME At(j).tier # None <=> At(i).tier # None
      PROVE  a[2] = b[2] /\ a[4] >= b[4]
  <2>1. a[2] = b[2]
    BY <1>2, <1>3, <1>9 DEF Flag
  <2>2. \A l \in 1 .. (4 - 1) : a[l] = b[l]
    BY <1>7, <2>1
  <2>. QED BY <1>6, <2>1, <2>2
<1>10. ASSUME SameKey(At(j), At(i))
       PROVE  /\ At(j).from <= At(i).from
              /\ At(j).from = At(i).from => j[2] <= i[2]
  <2>1. a[2] = b[2] /\ a[4] = b[4] /\ a[5] = b[5]
    BY <1>2, <1>3, <1>10 DEF SameKey
  <2>2. \A l \in 1 .. (6 - 1) : a[l] = b[l]
    BY <1>7, <2>1
  <2>3. a[6] >= b[6]
    BY <1>6, <2>2
  <2>4. ASSUME a[6] = b[6]
        PROVE  a[7] >= b[7]
    <3>1. \A l \in 1 .. (7 - 1) : a[l] = b[l]
      BY <1>7, <2>1, <2>4
    <3>. QED BY <1>6, <3>1
  <2>. QED BY <1>1, <1>2, <1>3, <2>3, <2>4
<1>11. At(j).tier # None => At(i).tier # None
  BY <1>2, <1>3, <1>8 DEF Flag
<1>12. (At(j).tier # None <=> At(i).tier # None) => At(j).min <= At(i).min
  BY <1>1, <1>2, <1>3, <1>9
<1>. QED BY <1>10, <1>11, <1>12

\* A row of the same origin and model that starts in time may price the request too.
LEMMA AlsoCandidate ==
  ASSUME NEW q, NEW i \in Candidates(q), NEW n \in DOMAIN prices[i[1]], NEW p,
         p = prices[i[1]][n], p.model = At(i).model, p.provider = At(i).provider,
         p.tier \in {None, q.tier}, p.min <= q.input, p.from <= q.at
  PROVE  <<i[1], n>> \in Candidates(q) /\ At(<<i[1], n>>) = p
<1>. DEFINE j == <<i[1], n>>
<1>1. j[1] = i[1] /\ j[2] = n
  OBVIOUS
<1>2. i[1] \in Origins
  BY DEF Candidates
<1>3. At(j) = p
  BY <1>1 DEF At
<1>4. j \in UNION {{o} \X DOMAIN prices[o] : o \in Origins}
  BY <1>2
<1>5. i[1] = j[1] /\ Applies(At(i), i[1], q)
  BY <1>1 DEF Candidates
<1>6. Applies(p, i[1], q)
  BY <1>5 DEF Applies
<1>. QED BY <1>1, <1>3, <1>4, <1>6 DEF Candidates

\* Of the rows of its key, the one chosen is in force.
LEMMA ChosenInForce ==
  ASSUME PricesInv, NEW q, q.input \in Int, q.at \in Int, NEW i \in Candidates(q),
         \A j \in Candidates(q) \ {i} : Above(Rank(i, q), Rank(j, q))
  PROVE  InForce(prices[i[1]], i[2], q.at)
<1>. DEFINE rows == prices[i[1]]
<1>1. i[1] \in Origins /\ i[2] \in DOMAIN rows /\ At(i) = rows[i[2]]
  <2>1. i[1] \in Origins /\ i[2] \in DOMAIN prices[i[1]]
    BY DEF Candidates
  <2>. QED BY <2>1 DEF At
<1>2. /\ At(i).tier \in {None, q.tier} /\ At(i).min <= q.input /\ At(i).from <= q.at
  BY DEF Candidates, Applies
<1>3. \A n \in DOMAIN rows : rows[n].from \in Int
  BY <1>1 DEF PricesInv
<1>4. ASSUME NEW n \in DOMAIN rows, SameKey(rows[n], rows[i[2]]), rows[n].from <= q.at
      PROVE  \/ rows[n].from < rows[i[2]].from
             \/ rows[n].from = rows[i[2]].from /\ n <= i[2]
  <2>. DEFINE j == <<i[1], n>>
  <2>1. j \in Candidates(q) /\ At(j) = rows[n]
    <3>1. /\ rows[n].model = At(i).model /\ rows[n].provider = At(i).provider
          /\ rows[n].tier \in {None, q.tier} /\ rows[n].min <= q.input
      BY <1>1, <1>2, <1>4 DEF SameKey
    <3>. QED BY <1>4, <3>1, AlsoCandidate
  <2>2. j[1] = i[1] /\ j[2] = n
    OBVIOUS
  <2>. HIDE DEF j
  <2>3. SameKey(At(j), At(i)) /\ At(i).model = At(j).model
    BY <1>1, <1>4, <2>1 DEF SameKey
  <2>4. /\ At(j).from <= At(i).from
        /\ At(j).from = At(i).from => j[2] <= i[2]
    <3>1. j # i => Above(Rank(i, q), Rank(j, q))
      BY <2>1
    <3>. QED BY <2>1, <2>2, <2>3, <3>1, ChosenBefore
  <2>. QED BY <1>1, <1>3, <2>1, <2>2, <2>4
<1>. QED BY <1>1, <1>2, <1>4 DEF InForce

\* With rows that follow the recordings of a map, the row chosen for a request costs
\* what they tell, and goes before every price they name that is one for the request.
LEMMA ChosenAsTheMap ==
  ASSUME PricesInv, HistoryInv, NEW q, q.input \in Int, q.at \in Int, NEW i \in Candidates(q),
         \A j \in Candidates(q) \ {i} : Above(Rank(i, q), Rank(j, q)),
         i[1] # "manual"
  PROVE  /\ Told(i[1], record[i[1]], At(i), q.at)
         /\ \A n \in DOMAIN record[i[1]] : \A r \in Catalog[i[1]][record[i[1]][n].map] :
               r.model = At(i).model /\ Applies(r, i[1], q) =>
                   /\ r.tier # None => At(i).tier # None
                   /\ r.tier = At(i).tier => r.min <= At(i).min
<1>. DEFINE o == i[1]
            rows == prices[o]
            recs == record[o]
<1>1. o \in Fetched /\ o \in Origins /\ i[2] \in DOMAIN rows /\ At(i) = rows[i[2]]
  <2>1. i[1] \in Origins /\ i[2] \in DOMAIN prices[i[1]]
    BY DEF Candidates
  <2>. QED BY <2>1 DEF At, Origins
<1>2. FollowsMap(o, prices[o], record[o])
  BY <1>1 DEF HistoryInv
<1>3. At(i).from <= q.at /\ At(i).from \in 0 .. MaxNow /\ MaxNow \in Nat
  BY <1>1, <1>2, PricingAssumption DEF Candidates, FollowsMap
<1>4. q.at \in Nat /\ Beginning <= q.at
  BY <1>3 DEF Beginning
<1>5. Told(o, recs, At(i), q.at)
  <2>1. InForce(rows, i[2], q.at)
    BY ChosenInForce
  <2>. QED BY <1>1, <1>2, <1>4, <2>1 DEF FollowsMap
<1>6. ASSUME NEW n \in DOMAIN recs, NEW r \in Catalog[o][recs[n].map],
             r.model = At(i).model, Applies(r, o, q)
      PROVE  /\ r.tier # None => At(i).tier # None
             /\ r.tier = At(i).tier => r.min <= At(i).min
  <2>1. PICK l \in DOMAIN rows : SameKey(rows[l], r) /\ rows[l].from = Beginning
    BY <1>2, <1>6 DEF FollowsMap
  <2>. DEFINE j == <<i[1], l>>
  <2>2. j[1] = i[1] /\ j[2] = l /\ At(j) = rows[l]
    BY DEF At
  <2>3. j \in Candidates(q)
    <3>1. Applies(rows[l], o, q)
      BY <1>6, <2>1 DEF Applies, SameKey
    <3>2. j \in UNION {{x} \X DOMAIN prices[x] : x \in Origins}
      BY <1>1, <2>1
    <3>. QED BY <1>4, <2>1, <2>2, <3>1, <3>2 DEF Candidates
  <2>. HIDE DEF j
  <2>4. /\ At(j).tier # None => At(i).tier # None
        /\ (At(j).tier # None <=> At(i).tier # None) => At(j).min <= At(i).min
    <3>1. At(i).model = At(j).model
      BY <1>6, <2>1, <2>2 DEF SameKey
    <3>2. j # i => Above(Rank(i, q), Rank(j, q))
      BY <2>3
    <3>. QED BY <2>2, <2>3, <3>1, <3>2, ChosenBefore
  <2>. QED BY <2>1, <2>2, <2>4 DEF SameKey
<1>. QED BY <1>5, <1>6

-----------------------------------------------------------------------------
(* The invariant, and what follows from it *)

LEMMA InitHolds ==
  ASSUME Init
  PROVE  PricingInv
<1>1. \A o \in Fetched : 1 \in DOMAIN Versions[o]
  BY PricingAssumption
<1>2. PricesInv
  <2>1. <<>> \in Seq({}) /\ DOMAIN <<>> = {}
    OBVIOUS
  <2>. QED BY <2>1 DEF Init, PricesInv
<1>3. SyncInv
  BY <1>1, PricingAssumption DEF Init, SyncInv
<1>4. EventsInv /\ CostsHold
  BY DEF Init, EventsInv, CostsHold
<1>. QED BY <1>2, <1>3, <1>4 DEF PricingInv

LEMMA StepHolds ==
  ASSUME PricingInv, [Next]_vars
  PROVE  PricingInv'
<1>1. PricesInv /\ SyncInv /\ EventsInv /\ CostsHold
  BY DEF PricingInv
<1>2. PricesInv' /\ RowsStay
  BY <1>1, PricesStep
<1>3. SyncInv'
  BY <1>1, SyncStep
<1>4. EventsInv' /\ CostsHold'
  <2>1. /\ event' = [e \in Events |-> event'[e]]
        /\ \A e \in Events : Proper(e, event'[e])
    BY <1>1, EventsStep
  <2>2. ASSUME NEW e \in Events
        PROVE  /\ event'[e] \in Kind
               /\ ~event'[e].seen => event'[e].list = Nil /\ event'[e].billed = Nil
               /\ event'[e].seen => Holds(Request[e], event[e])'
    <3>1. PICK row : row = event'[e] /\ Proper(e, row)
      BY <2>1
    <3>2. Proper(e, row)'
      BY <1>1, <1>2, <3>1, ProperStays
    <3>. QED BY <3>1, <3>2 DEF Proper, Holds
  <2>. QED BY <2>1, <2>2 DEF EventsInv, CostsHold, Kind
<1>. QED BY <1>2, <1>3, <1>4 DEF PricingInv

\* The invariant of Pricing: rows are proper, a map fetched is of the origin next in
\* its sync (sync and record of price/catalog.rs), and costs are those of rows.
THEOREM PricingInvCorrect == Spec => []PricingInv
<1>. QED BY InitHolds, StepHolds, PTL DEF Spec

\* However fills, reprices and syncs come in between, a priced event's costs are
\* those of one row in force when it happened, and what the upstream billed stays
\* (FILL and reprice of price/cost.rs).
THEOREM CostsHoldCorrect == Spec => []CostsHold
<1>1. PricingInv => CostsHold
  BY DEF PricingInv
<1>. QED BY <1>1, PricingInvCorrect, PTL

\* Every token a record states in a class is charged once and at its own rate, by every price
\* there ever is (Tokens::flat of usage/cliproxy.rs, usage/litellm.rs, FILL).
THEOREM EachTokenChargedOnceCorrect == Spec => []EachTokenChargedOnce
<1>1. PricingInv => EachTokenChargedOnce
  <2>. SUFFICES ASSUME PricesInv, NEW o \in Origins, NEW i \in DOMAIN prices[o],
                       NEW r \in Sent, Stated(r).input >= 0
                PROVE  Cost(prices[o][i].rates, Tokens(Kept(Parse(r)))) =
                          Stated(r).input * prices[o][i].rates.input
                          + Stated(r).read * prices[o][i].rates.read
                          + Stated(r).write * prices[o][i].rates.write
                          + Stated(r).output * prices[o][i].rates.output
    BY DEF PricingInv, EachTokenChargedOnce, Counted
  <2>. DEFINE k == Kept(Parse(r))
              c == Stated(r)
  <2>1. /\ k.read = c.read /\ k.write = c.write /\ k.output = c.output
        /\ c.input = IF k.input - k.read - k.write > 0
                     THEN k.input - k.read - k.write ELSE 0
    BY CliProxyCounts, LiteLlmCounts DEF Stated
  <2>. HIDE DEF k, c
  <2>2. Cost(prices[o][i].rates, Tokens(k)) =
           c.input * prices[o][i].rates.input + c.read * prices[o][i].rates.read
           + c.write * prices[o][i].rates.write + c.output * prices[o][i].rates.output
    <3>1. /\ Tokens(k).input = k.input /\ Tokens(k).read = k.read
          /\ Tokens(k).write = k.write /\ Tokens(k).output = k.output
      BY DEF Tokens
    <3>. QED BY <2>1, <3>1, Zenon DEF Cost
  <2>. QED BY <2>2 DEF k, c
<1>. QED BY <1>1, PricingInvCorrect, PTL

\* Each price of a recorded map has a row from the beginning on, each later row the date
\* of a recording, and at every instant the row of a key in force costs what the last
\* recording of the key by then says, or the first, but for those that came out of order
\* (record of price/catalog.rs).
THEOREM HistoryInvCorrect == Spec => []HistoryInv
<1>1. PricingInv => PricesInv /\ SyncInv
  BY DEF PricingInv
<1>. QED BY <1>1, HistoryInit, HistoryStep, PricingInvCorrect, PTL DEF Spec

\* For all maps, whatever prices they add, change and drop, and whatever the order of
\* syncs, their stamps, reprices, manual prices and their dates, and steps of the clock,
\* the row FILL ranks first charges a request what the recordings of its map tell, from
\* the highest threshold and with the tier that any of them named for it (FILL of
\* price/cost.rs, record of price/catalog.rs).
THEOREM ChargedAsTheMapCorrect == Spec => []ChargedAsTheMap
<1>1. PricingInv /\ HistoryInv => ChargedAsTheMap
  <2>. SUFFICES ASSUME PricesInv, HistoryInv, NEW e \in DOMAIN Request,
                       Candidates(Request[e]) # {}, Choice(Request[e])[1] # "manual"
                PROVE  LET q == Request[e]
                           i == Choice(q)
                           o == i[1]
                       IN  /\ Told(o, record[o], At(i), q.at)
                           /\ \A n \in DOMAIN record[o] :
                              \A r \in Catalog[o][record[o][n].map] :
                                 r.model = At(i).model /\ Applies(r, o, q) =>
                                     /\ r.tier # None => At(i).tier # None
                                     /\ r.tier = At(i).tier => r.min <= At(i).min
    BY DEF PricingInv, ChargedAsTheMap
  <2>. DEFINE q == Request[e]
              i == Choice(q)
  <2>1. q.input \in Int /\ q.at \in Int
    BY RequestCounts
  <2>. HIDE DEF q
  <2>2. i \in Candidates(q) /\ \A j \in Candidates(q) \ {i} : Above(Rank(i, q), Rank(j, q))
    BY <2>1, ChoiceIsFirst DEF q
  <2>3. i[1] # "manual"
    BY DEF q
  <2>. HIDE DEF i
  <2>. QED BY <2>1, <2>2, <2>3, ChosenAsTheMap DEF i, q
<1>. QED BY <1>1, PricingInvCorrect, HistoryInvCorrect, PTL
=============================================================================
