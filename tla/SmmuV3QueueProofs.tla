------------------------- MODULE SmmuV3QueueProofs --------------------------
(***************************************************************************)
(* The granule protection table: a granule has the GPI that was asked for, *)
(* for every layout of the table. And the command queue of the SMMUv3      *)
(* driver, for any number of SMMUs, any calls of the tests and a queue of  *)
(* any size that holds the commands of one invalidation: no command is     *)
(* lost or taken out of order.                                             *)
(***************************************************************************)
EXTENDS SmmuV3StepProofs, GranuleTable

-----------------------------------------------------------------------------
(* The granule protection table.                                           *)

\* Two levels over the pages: a level 0 descriptor is a block or the only one
\* that leads to its level 1 table.
Gpt0(t, G) == [kind : {"block"}, gpi : G] \cup [kind : {"table"}, base : DOMAIN t.l1]
Gpt1(G)    == [kind : {"contig"}, gpi : G] \cup [kind : {"granules"}, gpis : [0 .. 15 -> G]]

GptOk(t, G) ==
  /\ t = [l0 |-> t.l0, l1 |-> t.l1]
  /\ t.l0 \in [0 .. 2 ^ L0Bits - 1 -> Gpt0(t, G)]
  /\ t.l1 \in [DOMAIN t.l1 -> [0 .. 2 ^ L1Bits - 1 -> Gpt1(G)]]
  /\ \A i, j \in 0 .. 2 ^ L0Bits - 1 :
       t.l0[i].kind = "table" /\ t.l0[j].kind = "table" /\ t.l0[i].base = t.l0[j].base => i = j

\* Quotient and remainder are unique.
LEMMA OneQuotient ==
  ASSUME NEW m \in Nat \ {0}, NEW c \in Nat, NEW r \in 0 .. m - 1
  PROVE  (m * c + r) \div m = c
OBVIOUS

LEMMA DivMod ==
  ASSUME NEW n \in Nat, NEW m \in Nat \ {0}
  PROVE  /\ n \div m \in Nat /\ n % m \in 0 .. m - 1
         /\ n = m * (n \div m) + (n % m)
<1> DEFINE q == n \div m
           r == n % m
<1>1. q \in Int /\ r \in 0 .. m - 1 /\ n = m * q + r
  OBVIOUS
<1>2. ASSUME q <= -1 PROVE FALSE
  <2> HIDE DEF q, r
  <2>1. m * q <= m * (-1)  BY <1>1, <1>2
  <2> QED BY <1>1, <2>1
<1>3. q \in Nat
  <2> HIDE DEF q, r
  <2> QED BY <1>1, <1>2
<1> QED
  BY Zenon, <1>1, <1>3

LEMMA ModOfSmaller ==
  ASSUME NEW m \in Nat \ {0}, NEW n \in 0 .. m - 1
  PROVE  n % m = n
<1> DEFINE q == n \div m
           r == n % m
<1>0. n \in Nat  OBVIOUS
<1>1. q \in Nat /\ r \in 0 .. m - 1 /\ n = m * q + r
  BY Zenon, <1>0, DivMod
<1> HIDE DEF q, r
<1>2. ASSUME q >= 1 PROVE FALSE
  <2>1. m * q >= m * 1  BY <1>1, <1>2
  <2> QED BY <1>1, <2>1
<1>3. q = 0  BY <1>1, <1>2
<1> QED
  BY <1>1, <1>3 DEF r

\* The index of level 0 is that of the 16-granule range, cut.
LEMMA DivTwice ==
  ASSUME NEW n \in Nat, NEW b \in Nat \ {0}
  PROVE  n \div (16 * b) = (n \div 16) \div b
<1> DEFINE a == n \div 16
           c == a \div b
           s == a % b
           r == n % 16
<1>1. a \in Nat /\ r \in 0 .. 15 /\ n = 16 * a + r
  BY DivMod
<1>2. c \in Nat /\ s \in 0 .. b - 1 /\ a = b * c + s
  <2> HIDE DEF a
  <2> QED BY Zenon, <1>1, DivMod
<1> HIDE DEF a, c, s, r
<1>3. 16 * a = 16 * (b * c) + 16 * s
  <2>1. b * c \in Nat  BY <1>2
  <2> QED BY <1>1, <1>2, <2>1
<1>4. 16 * (b * c) = (16 * b) * c
  BY <1>2
<1>5. n = (16 * b) * c + (16 * s + r)
  <2>1. (16 * b) * c \in Nat  BY <1>2
  <2> QED BY <1>1, <1>2, <1>3, <1>4, <2>1
<1>6. 16 * s + r \in 0 .. 16 * b - 1 /\ 16 * b \in Nat \ {0}
  BY <1>1, <1>2
<1>7. ((16 * b) * c + (16 * s + r)) \div (16 * b) = c
  BY <1>2, <1>6, OneQuotient
<1> QED
  BY <1>5, <1>7 DEF c, a

-----------------------------------------------------------------------------
LEMMA PageFacts ==
  ASSUME NEW p \in PAs
  PROVE  /\ p \in Nat
         /\ get_gpt_index(p, 0) \in 0 .. 2 ^ L0Bits - 1 /\ get_gpt_index(p, 1) \in 0 .. 2 ^ L1Bits - 1
         /\ get_gpt_index(p, 0) = p \div 2 ^ (L1Bits + 4)
         /\ p \div 2 ^ (L1Bits + 4) = (p \div 16) \div 2 ^ L1Bits
         /\ p \div 16 \in Nat /\ p % 16 \in 0 .. 15 /\ p = 16 * (p \div 16) + (p % 16)
<1> DEFINE A == 2 ^ L0Bits
           B == 2 ^ L1Bits
           X == 2 ^ (L1Bits + 4)
           c == p \div X
<1>1. A \in Nat \ {0} /\ B \in Nat \ {0} /\ X = 16 * B /\ PAs \subseteq 0 .. A * X - 1
  BY GptAssumption
<1> HIDE DEF A, B, X
<1>2. X \in Nat \ {0} /\ A * X \in Nat  BY <1>1
<1>3. p \in Nat /\ p < A * X  BY <1>1, <1>2
<1>4. c \in Nat /\ p % X \in 0 .. X - 1 /\ p = X * c + (p % X)  BY Zenon, <1>2, <1>3, DivMod
<1>5. c < A
  <2> HIDE DEF c
  <2>1. ASSUME c >= A PROVE FALSE
    <3>1. X * c >= X * A  BY <1>1, <1>2, <1>4, <2>1
    <3>2. X * A = A * X  BY <1>1, <1>2
    <3>3. X * c \in Nat  BY <1>2, <1>4
    <3> QED BY <1>2, <1>3, <1>4, <3>1, <3>2, <3>3
  <2> QED BY <1>1, <1>4, <2>1
<1>6. c % A = c
  <2> HIDE DEF c
  <2>1. c \in 0 .. A - 1  BY <1>1, <1>4, <1>5
  <2> QED BY <1>1, <2>1, ModOfSmaller
<1>7. p \div 16 \in Nat /\ p % 16 \in 0 .. 15 /\ p = 16 * (p \div 16) + (p % 16)  BY <1>3, DivMod
<1>8. (p \div 16) % B \in 0 .. B - 1  BY <1>1, <1>7, DivMod
<1>9. c = (p \div 16) \div B  BY Zenon, <1>1, <1>3, DivTwice
<1> QED
  BY <1>1, <1>3, <1>4, <1>5, <1>6, <1>7, <1>8, <1>9 DEF get_gpt_index, A, B, X

\* Pages with the same indices are in one range of 16 granules.
LEMMA OneRange ==
  ASSUME NEW p \in PAs, NEW q \in PAs
  PROVE  p \div 16 = q \div 16
           <=> get_gpt_index(p, 0) = get_gpt_index(q, 0) /\ get_gpt_index(p, 1) = get_gpt_index(q, 1)
<1> DEFINE B == 2 ^ L1Bits
           a == p \div 16
           d == q \div 16
<1>1. B \in Nat \ {0}  BY GptAssumption
<1>2. /\ get_gpt_index(p, 0) = a \div B /\ get_gpt_index(p, 1) = a % B /\ a \in Nat
      /\ get_gpt_index(q, 0) = d \div B /\ get_gpt_index(q, 1) = d % B /\ d \in Nat
  BY PageFacts DEF get_gpt_index
<1> HIDE DEF B, a, d
<1>3. a = B * (a \div B) + (a % B) /\ d = B * (d \div B) + (d % B)
  BY <1>1, <1>2, DivMod
<1>4. a \div B = d \div B /\ a % B = d % B => a = d
  BY Zenon, <1>3
<1> QED
  BY Zenon, <1>2, <1>4 DEF a, d

-----------------------------------------------------------------------------
\* The two ways of a lookup.
LEMMA GpcBlock ==
  ASSUME NEW t, NEW p, t.l0[get_gpt_index(p, 0)].kind = "block"
  PROVE  Gpc(t, p) = t.l0[get_gpt_index(p, 0)].gpi
BY Zenon DEF Gpc, get_gpt_index

LEMMA GpcTable ==
  ASSUME NEW t, NEW p, NEW e, t.l0[get_gpt_index(p, 0)].kind = "table",
         e = t.l1[t.l0[get_gpt_index(p, 0)].base][get_gpt_index(p, 1)]
  PROVE  Gpc(t, p) = IF e.kind = "contig" THEN e.gpi ELSE e.gpis[p % 16]
<1> DEFINE l0 == t.l0[(p \div 2 ^ (L1Bits + 4)) % 2 ^ L0Bits]
           t1 == t.l1[l0.base][(p \div 16) % 2 ^ L1Bits]
<1>1. l0 = t.l0[get_gpt_index(p, 0)] /\ t1 = e
  BY DEF get_gpt_index
<1>2. l0.kind # "block"
  BY <1>1
<1>3. Gpc(t, p) = IF l0.kind = "block" THEN l0.gpi ELSE IF t1.kind = "contig" THEN t1.gpi ELSE t1.gpis[p % 16]
  BY Zenon DEF Gpc
<1> HIDE DEF l0, t1
<1> QED
  BY Zenon, <1>1, <1>2, <1>3

\* A block: its pages are those with its index.
LEMMA BlockStep ==
  ASSUME NEW G, NEW pa \in PAs, NEW g \in G, GptOk(gpt, G), GptAsAsked, SetGpi(pa, g),
         gpt.l0[get_gpt_index(pa, 0)].kind = "block"
  PROVE  GptOk(gpt', G) /\ GptAsAsked'
<1> DEFINE i0 == get_gpt_index(pa, 0)
           l0 == gpt.l0[i0]
           b == [kind |-> "block", gpi |-> g]
<1>1. i0 \in 0 .. 2 ^ L0Bits - 1  BY PageFacts
<1>2. l0 \in [kind : {"block"}, gpi : G]  BY Zenon, <1>1 DEF GptOk, Gpt0
<1>3. [l0 EXCEPT !.gpi = g] = b /\ modify_gpt_gpi(l0, pa, g) = b
  BY <1>2 DEF modify_gpt_gpi
<1>4. gpt' = [gpt EXCEPT !.l0[i0] = b]
  BY <1>2, <1>3 DEF SetGpi, add_gpt_entry
<1>5. gpt' = [l0 |-> [gpt.l0 EXCEPT ![i0] = b], l1 |-> gpt.l1]
  BY <1>4 DEF GptOk
<1> HIDE DEF i0
<1>6. GptOk(gpt', G)
  <2>1. b \in Gpt0(gpt, G) /\ b.kind = "block"  BY DEF Gpt0
  <2> HIDE DEF b
  <2>2. gpt'.l0 \in [0 .. 2 ^ L0Bits - 1 -> Gpt0(gpt', G)]
    BY <1>1, <1>5, <2>1 DEF GptOk, Gpt0
  <2>3. \A i \in 0 .. 2 ^ L0Bits - 1 : gpt'.l0[i].kind = "table" => gpt'.l0[i] = gpt.l0[i]
    BY <1>1, <1>5, <2>1 DEF GptOk
  <2> QED
    BY <1>5, <2>2, <2>3 DEF GptOk
<1>7. ASSUME NEW p \in PAs PROVE Gpc(gpt', p) = set'[p]
  <2>1. get_gpt_index(p, 0) \in 0 .. 2 ^ L0Bits - 1  BY PageFacts
  <2>2. p \in Together(pa) <=> get_gpt_index(p, 0) = i0
    BY Zenon, <1>2, <1>7, PageFacts DEF Together, get_gpt_index, i0
  <2>3. set'[p] = IF get_gpt_index(p, 0) = i0 THEN g ELSE Gpc(gpt, p)
    BY <2>2 DEF SetGpi, GptAsAsked
  <2>4. CASE get_gpt_index(p, 0) = i0
    <3>1. gpt'.l0[get_gpt_index(p, 0)] = b  BY Zenon, <1>1, <1>5, <2>4 DEF GptOk
    <3>2. Gpc(gpt', p) = g  BY <3>1, GpcBlock
    <3> QED BY Zenon, <2>3, <2>4, <3>2
  <2>5. CASE get_gpt_index(p, 0) # i0
    <3>1. gpt'.l0[get_gpt_index(p, 0)] = gpt.l0[get_gpt_index(p, 0)] /\ gpt'.l1 = gpt.l1
      BY <1>1, <1>5, <2>1, <2>5 DEF GptOk
    <3> QED BY Zenon, <2>3, <2>5, <3>1 DEF Gpc, get_gpt_index
  <2> QED BY <2>4, <2>5
<1> QED
  BY <1>6, <1>7 DEF GptAsAsked

\* What modify_gpt_gpi makes of a level 1 descriptor.
LEMMA EntryStep ==
  ASSUME NEW G, NEW pa, pa % 16 \in 0 .. 15, NEW g \in G, NEW d \in Gpt1(G),
         NEW e, e = modify_gpt_gpi(d, pa, g)
  PROVE  /\ e \in Gpt1(G) /\ e.kind = d.kind
         /\ d.kind = "contig" => e.gpi = g
         /\ d.kind # "contig" => d.kind = "granules" /\ e.gpis = [d.gpis EXCEPT ![pa % 16] = g] /\ d.gpis \in [0 .. 15 -> G]
<1>1. CASE d \in [kind : {"contig"}, gpi : G]
  <2>1. d.kind = "contig" /\ [d EXCEPT !.gpi = g] = [kind |-> "contig", gpi |-> g]  BY <1>1
  <2>2. e = [kind |-> "contig", gpi |-> g]  BY Zenon, <2>1 DEF modify_gpt_gpi
  <2>3. e \in [kind : {"contig"}, gpi : G] /\ e.kind = "contig" /\ e.gpi = g  BY <2>2
  <2> QED BY Zenon, <2>1, <2>3 DEF Gpt1
<1>2. CASE d \in [kind : {"granules"}, gpis : [0 .. 15 -> G]]
  <2>1. e = [kind |-> "granules", gpis |-> [d.gpis EXCEPT ![pa % 16] = g]]  BY Zenon, <1>2 DEF modify_gpt_gpi
  <2>2. [d.gpis EXCEPT ![pa % 16] = g] \in [0 .. 15 -> G]  BY Zenon, <1>2
  <2>3. /\ e \in [kind : {"granules"}, gpis : [0 .. 15 -> G]]
        /\ e.kind = "granules" /\ e.gpis = [d.gpis EXCEPT ![pa % 16] = g]
    BY <2>1, <2>2
  <2>4. d.kind = "granules" /\ d.gpis \in [0 .. 15 -> G] /\ d.kind # "contig"  BY <1>2
  <2> QED BY Zenon, <2>3, <2>4 DEF Gpt1
<1> QED BY Zenon, <1>1, <1>2 DEF Gpt1

\* A level 1 descriptor: its pages are those of its range of 16 granules, or
\* the page itself.
LEMMA TableStep ==
  ASSUME NEW G, NEW pa \in PAs, NEW g \in G, GptOk(gpt, G), GptAsAsked, SetGpi(pa, g),
         gpt.l0[get_gpt_index(pa, 0)].kind = "table"
  PROVE  GptOk(gpt', G) /\ GptAsAsked'
<1> DEFINE i0 == get_gpt_index(pa, 0)
           i1 == get_gpt_index(pa, 1)
           tab == gpt.l0[i0].base
           d == gpt.l1[tab][i1]
           e == modify_gpt_gpi(d, pa, g)
<1>1. i0 \in 0 .. 2 ^ L0Bits - 1 /\ i1 \in 0 .. 2 ^ L1Bits - 1 /\ pa % 16 \in 0 .. 15  BY PageFacts
<1>2. gpt.l0[i0] \in [kind : {"table"}, base : DOMAIN gpt.l1] /\ tab \in DOMAIN gpt.l1  BY Zenon, <1>1 DEF GptOk, Gpt0
<1>t. gpt.l0[i0].kind = "table"  OBVIOUS
<1>3. d \in Gpt1(G)  BY ZenonT(30), <1>1, <1>2 DEF GptOk
<1>4. /\ e \in Gpt1(G) /\ e.kind = d.kind
      /\ d.kind = "contig" => e.gpi = g
      /\ d.kind # "contig" => d.kind = "granules" /\ e.gpis = [d.gpis EXCEPT ![pa % 16] = g] /\ d.gpis \in [0 .. 15 -> G]
  <2>1. e = modify_gpt_gpi(d, pa, g)  OBVIOUS
  <2> HIDE DEF d, e, i0, i1, tab
  <2> QED BY <1>1, <1>3, <2>1, EntryStep
<1>5. gpt' = [gpt EXCEPT !.l1[tab][i1] = e]
  BY <1>2 DEF SetGpi, add_gpt_entry
<1> HIDE DEF e
<1>6. gpt' = [l0 |-> gpt.l0, l1 |-> [gpt.l1 EXCEPT ![tab] = [gpt.l1[tab] EXCEPT ![i1] = e]]]
  BY Zenon, <1>2, <1>5 DEF GptOk
<1> HIDE DEF i0, i1, tab, d
<1>7. GptOk(gpt', G)
  <2>1. [gpt.l1[tab] EXCEPT ![i1] = e] \in [0 .. 2 ^ L1Bits - 1 -> Gpt1(G)]
    BY <1>1, <1>2, <1>4 DEF GptOk
  <2>2. gpt'.l1 \in [DOMAIN gpt'.l1 -> [0 .. 2 ^ L1Bits - 1 -> Gpt1(G)]] /\ DOMAIN gpt'.l1 = DOMAIN gpt.l1
    BY <1>2, <1>6, <2>1 DEF GptOk
  <2> QED
    BY <1>6, <2>2 DEF GptOk, Gpt0
<1>8. ASSUME NEW p \in PAs PROVE Gpc(gpt', p) = set'[p]
  <2> DEFINE j0 == get_gpt_index(p, 0)
             j1 == get_gpt_index(p, 1)
  <2>1. j0 \in 0 .. 2 ^ L0Bits - 1 /\ j1 \in 0 .. 2 ^ L1Bits - 1 /\ p % 16 \in 0 .. 15
    BY PageFacts
  <2>2. p \div 16 = pa \div 16 <=> j0 = i0 /\ j1 = i1
    BY Zenon, OneRange DEF i0, i1
  <2>3. p = pa <=> p \div 16 = pa \div 16 /\ p % 16 = pa % 16
    BY PageFacts
  <2>4. p \in Together(pa) <=> j0 = i0 /\ j1 = i1 /\ (d.kind # "contig" => p % 16 = pa % 16)
    <3>1. gpt.l0[(pa \div 2 ^ (L1Bits + 4)) % 2 ^ L0Bits] = gpt.l0[i0] /\ (pa \div 16) % 2 ^ L1Bits = i1
      BY DEF get_gpt_index, i0, i1
    <3>2. Together(pa) = IF d.kind = "contig" THEN {x \in PAs : x \div 16 = pa \div 16} ELSE {pa}
      BY Zenon, <1>t, <3>1 DEF Together, tab, d
    <3> QED
      BY Zenon, <2>2, <2>3, <3>2
  <2>5. set'[p] = IF p \in Together(pa) THEN g ELSE Gpc(gpt, p)
    BY Zenon, <1>8 DEF SetGpi, GptAsAsked
  <2> HIDE DEF j0, j1
  <2>6. gpt'.l0 = gpt.l0  BY <1>6
  <2>7. CASE j0 = i0 /\ j1 = i1
    <3>1. gpt'.l1[tab][i1] = e  BY Zenon, <1>1, <1>2, <1>6 DEF GptOk
    <3>2. Gpc(gpt', p) = IF e.kind = "contig" THEN e.gpi ELSE e.gpis[p % 16]
      <4>1. gpt'.l0[j0].kind = "table" /\ e = gpt'.l1[gpt'.l0[j0].base][j1]
        BY Zenon, <1>t, <2>6, <2>7, <3>1 DEF tab
      <4> QED BY Zenon, <4>1, GpcTable DEF j0, j1
    <3>3. Gpc(gpt, p) = IF d.kind = "contig" THEN d.gpi ELSE d.gpis[p % 16]
      <4>1. gpt.l0[j0].kind = "table" /\ d = gpt.l1[gpt.l0[j0].base][j1]
        BY Zenon, <1>t, <2>7 DEF tab, d
      <4> QED BY Zenon, <4>1, GpcTable DEF j0, j1
    <3> QED BY <1>1, <1>4, <2>1, <2>4, <2>5, <2>7, <3>2, <3>3
  <2>8. CASE ~(j0 = i0 /\ j1 = i1)
    <3>1. gpt.l0[j0].kind = "table" =>
            gpt.l0[j0].base \in DOMAIN gpt.l1 /\ gpt'.l1[gpt.l0[j0].base][j1] = gpt.l1[gpt.l0[j0].base][j1]
      <4> SUFFICES ASSUME gpt.l0[j0].kind = "table"
                   PROVE  gpt.l0[j0].base \in DOMAIN gpt.l1 /\ gpt'.l1[gpt.l0[j0].base][j1] = gpt.l1[gpt.l0[j0].base][j1]
        OBVIOUS
      <4>1. gpt.l0[j0].base \in DOMAIN gpt.l1  BY Zenon, <2>1 DEF GptOk, Gpt0
      <4>2. CASE j0 # i0
        <5>1. gpt.l0[j0].base # tab  BY <1>1, <1>2, <2>1, <4>2 DEF GptOk, tab
        <5> QED BY <1>6, <4>1, <5>1 DEF GptOk
      <4>3. CASE j0 = i0 /\ j1 # i1
        <5>1. gpt.l0[j0].base = tab  BY <4>3 DEF tab
        <5> QED BY <1>1, <1>2, <1>6, <2>1, <4>3, <5>1 DEF GptOk
      <4> QED BY ZenonT(30), <2>8, <4>1, <4>2, <4>3
    <3>2. gpt.l0[j0].kind \in {"block", "table"}  BY Zenon, <2>1 DEF GptOk, Gpt0
    <3>3. Gpc(gpt', p) = Gpc(gpt, p)
      <4>1. CASE gpt.l0[j0].kind = "block"
        <5>1. gpt'.l0[j0].kind = "block" /\ gpt'.l0[j0].gpi = gpt.l0[j0].gpi  BY Zenon, <2>6, <4>1
        <5> QED BY Zenon, <4>1, <5>1, GpcBlock DEF j0
      <4>2. CASE gpt.l0[j0].kind = "table"
        <5> DEFINE x == gpt.l1[gpt.l0[j0].base][j1]
        <5>1. gpt'.l0[j0].kind = "table" /\ x = gpt'.l1[gpt'.l0[j0].base][j1]  BY Zenon, <2>6, <3>1, <4>2
        <5>2. x = gpt.l1[gpt.l0[j0].base][j1]  OBVIOUS
        <5> HIDE DEF x
        <5>3. Gpc(gpt', p) = IF x.kind = "contig" THEN x.gpi ELSE x.gpis[p % 16]
          BY Zenon, <5>1, GpcTable DEF j0, j1
        <5>4. Gpc(gpt, p) = IF x.kind = "contig" THEN x.gpi ELSE x.gpis[p % 16]
          BY Zenon, <4>2, <5>2, GpcTable DEF j0, j1
        <5> QED BY <5>3, <5>4
      <4> QED BY Zenon, <3>2, <4>1, <4>2
    <3> QED BY ZenonT(30), <2>4, <2>5, <2>8, <3>3
  <2> QED BY <2>7, <2>8
<1> QED
  BY <1>7, <1>8 DEF GptAsAsked

-----------------------------------------------------------------------------
\* The GPT from boot on, with GPIs of G; El3Tables does nothing else to it.
GptSpec(G) ==
  /\ GptOk(gpt, G) /\ set = [p \in PAs |-> Gpc(gpt, p)]
  /\ [][\E pa \in PAs, g \in G : SetGpi(pa, g)]_<<gpt, set>>

\* add_gpt_entry gives a granule and those that share its descriptor the GPI
\* that was asked for, and changes no other granule: for every size of the two
\* levels, every GPT of blocks, contiguous descriptors and granules in which a
\* level 1 table belongs to one entry, and every sequence of calls.
THEOREM GranulesAsAsked == ASSUME NEW CONSTANT G PROVE GptSpec(G) => []GptAsAsked
<1> DEFINE Inv == GptOk(gpt, G) /\ GptAsAsked
           Edit == \E pa \in PAs, g \in G : SetGpi(pa, g)
<1>1. GptOk(gpt, G) /\ set = [p \in PAs |-> Gpc(gpt, p)] => Inv
  BY DEF GptAsAsked
<1>2. Inv /\ [Edit]_<<gpt, set>> => Inv'
  <2> SUFFICES ASSUME Inv, [Edit]_<<gpt, set>> PROVE Inv'  OBVIOUS
  <2>1. CASE Edit
    <3>1. PICK pa \in PAs, g \in G : SetGpi(pa, g)  BY <2>1
    <3>2. gpt.l0[get_gpt_index(pa, 0)].kind \in {"block", "table"}
      BY Zenon, PageFacts DEF GptOk, Gpt0
    <3> QED BY <3>1, <3>2, BlockStep, TableStep
  <2>2. CASE UNCHANGED <<gpt, set>>
    BY <2>2 DEF GptAsAsked
  <2> QED
    BY <2>1, <2>2
<1>3. Inv => GptAsAsked  OBVIOUS
<1> QED
  BY <1>1, <1>2, <1>3, PTL DEF GptSpec

-----------------------------------------------------------------------------
(* The command queue: the inductive invariant.                             *)

LEMMA Shortened == ASSUME NEW S, NEW s \in Seq(S), s # <<>> PROVE Tail(s) \in Seq(S)
OBVIOUS

LEMMA Appended ==
  ASSUME NEW S, NEW s \in Seq(S), NEW y \in S, NEW t, t = Append(s, y)
  PROVE  /\ t \in Seq(S) /\ Len(t) = Len(s) + 1 /\ DOMAIN t = 1 .. Len(s) + 1
         /\ t[Len(s) + 1] = y /\ \A i \in 1 .. Len(s) : t[i] = s[i]
OBVIOUS

\* Where commands are outstanding the running call is on its way to a poll, and
\* they are no more than four with those it has yet to issue.
PendInv ==
  sc.prompt =>
    \A s \in SMMUs :
      pend[s] # <<>> =>
        \E j \in DOMAIN todo :
          /\ todo[j].do = "poll" /\ todo[j].smmu = s /\ Len(pend[s]) + j - 1 <= 4
          /\ \A l \in 1 .. j - 1 : todo[l].do = "cmd" /\ todo[l].smmu = s

QueueInv ==
  /\ prod \in [SMMUs -> 0 .. 2 * Nent - 1] /\ cons \in [SMMUs -> 0 .. 2 * Nent - 1]
  /\ pend \in [SMMUs -> Seq(Cmds)]
  /\ buf \in [SMMUs -> [0 .. Nent - 1 -> Cmds \cup {None}]]
  /\ sc.prompt => \A s \in SMMUs :
       /\ Len(pend[s]) = (prod[s] - cons[s]) % (2 * Nent)
       /\ \A i \in DOMAIN pend[s] : buf[s][(cons[s] + i - 1) % Nent] = pend[s][i]

QInv == TypeInv /\ TodoInv /\ PendInv /\ QueueInv

-----------------------------------------------------------------------------
\* Outstanding commands belong to the step the driver is at.
LEMMA HeadTells ==
  ASSUME TodoInv, PendInv, sc.prompt, NEW s \in SMMUs, pend[s] # <<>>
  PROVE  todo # <<>> /\ Head(todo).do \in {"cmd", "poll"} /\ Head(todo).smmu = s
<1>1. PICK j \in DOMAIN todo :
        /\ todo[j].do = "poll" /\ todo[j].smmu = s
        /\ \A l \in 1 .. j - 1 : todo[l].do = "cmd" /\ todo[l].smmu = s
  BY DEF PendInv
<1>2. PICK S : todo \in Seq(S)  BY DEF TodoInv, Listed
<1>3. todo # <<>> /\ DOMAIN todo = 1 .. Len(todo) /\ Len(todo) \in Nat  BY <1>1, <1>2
<1>4. Head(todo) = todo[1]  BY <1>2, <1>3, TailSteps
<1>5. CASE j = 1  BY <1>1, <1>3, <1>4, <1>5
<1>6. CASE j # 1
  <2>1. 1 \in 1 .. j - 1  BY <1>3, <1>6
  <2> QED  BY <1>1, <1>3, <1>4, <2>1
<1> QED  BY <1>5, <1>6

\* An empty queue is one whose indices are equal.
LEMMA EmptyQueue ==
  ASSUME NEW p \in 0 .. 2 * Nent - 1, NEW c \in 0 .. 2 * Nent - 1, smmu_queue_empty(p, c)
  PROVE  p = c /\ (p - c) % (2 * Nent) = 0
<1>1. Nent \in Nat \ {0}  BY SmmuAssumption
<1> HIDE DEF Nent
<1>2. \A x \in 0 .. 2 * Nent - 1 :
        \/ x \in 0 .. Nent - 1 /\ x % Nent = x /\ x \div Nent = 0
        \/ x \in Nent .. 2 * Nent - 1 /\ x % Nent = x - Nent /\ x \div Nent = 1
  BY <1>1
<1>3. p = c  BY <1>1, <1>2 DEF smmu_queue_empty
<1> QED  BY <1>1, <1>3

LEMMA PendStep ==
  ASSUME QInv, [Next]_vars
  PROVE  PendInv'
<1>1. sc' = sc /\ TypeInv /\ TodoInv /\ PendInv /\ QueueInv  BY TypeStep DEF QInv
<1>2. SUFFICES ASSUME sc.prompt, NEW s \in SMMUs, pend'[s] # <<>>
               PROVE  \E j \in DOMAIN todo' :
                        /\ todo'[j].do = "poll" /\ todo'[j].smmu = s /\ Len(pend'[s]) + j - 1 <= 4
                        /\ \A l \in 1 .. j - 1 : todo'[l].do = "cmd" /\ todo'[l].smmu = s
  BY <1>1 DEF PendInv, SMMUs
<1>3. PICK S : todo \in Seq(S)  BY <1>1 DEF TodoInv, Listed
<1>4. DOMAIN todo = 1 .. Len(todo) /\ Len(todo) \in Nat  BY <1>3
<1>5. pend[s] \in Seq(Cmds)  BY <1>1, <1>2 DEF QueueInv
<1>6. ASSUME pend[s] # <<>>
      PROVE  todo # <<>> /\ Head(todo).do \in {"cmd", "poll"} /\ Head(todo).smmu = s
  BY <1>1, <1>2, <1>6, HeadTells
<1>7. ASSUME NEW x \in SMMUs, Consume(x) PROVE todo' = todo /\ pend[s] # <<>> /\ Len(pend'[s]) <= Len(pend[s])
  <2>1. todo' = todo /\ pend' = [pend EXCEPT ![x] = IF @ = <<>> THEN @ ELSE Tail(@)]  BY <1>7 DEF Consume
  <2>2. CASE s = x
    <3>1. pend'[s] = IF pend[s] = <<>> THEN pend[s] ELSE Tail(pend[s])  BY <1>1, <2>1, <2>2 DEF QueueInv
    <3> QED  BY <1>2, <1>5, <2>1, <3>1
  <2>3. CASE s # x
    <3>1. pend'[s] = pend[s]  BY <1>1, <2>1, <2>3 DEF QueueInv
    <3> QED  BY <1>2, <1>5, <2>1, <3>1
  <2> QED  BY <2>2, <2>3
<1>8. CASE \E x \in SMMUs : Consume(x)
  <2>1. todo' = todo /\ pend[s] # <<>> /\ Len(pend'[s]) <= Len(pend[s])  BY <1>7, <1>8
  <2>2. PICK j \in DOMAIN todo :
          /\ todo[j].do = "poll" /\ todo[j].smmu = s /\ Len(pend[s]) + j - 1 <= 4
          /\ \A l \in 1 .. j - 1 : todo[l].do = "cmd" /\ todo[l].smmu = s
    BY <1>1, <1>2, <2>1 DEF PendInv
  <2>3. Len(pend[s]) \in Nat /\ Len(pend'[s]) \in Nat
    <3>1. pend'[s] \in Seq(Cmds)
      <4>1. PICK x \in SMMUs : Consume(x)  BY <1>8
      <4>2. pend' = [pend EXCEPT ![x] = IF @ = <<>> THEN @ ELSE Tail(@)]  BY <4>1 DEF Consume
      <4> QED  BY <1>1, <1>5, <4>2 DEF QueueInv
    <3> QED  BY <1>5, <3>1
  <2>4. Len(pend'[s]) + j - 1 <= 4  BY <1>4, <2>1, <2>2, <2>3
  <2> QED  BY <2>1, <2>2, <2>4
<1>9. CASE smmu_cmdq_write_cmd
  <2> DEFINE x == Head(todo).smmu
             c == Head(todo).cmd
  <2>1. /\ todo # <<>> /\ Head(todo).do = "cmd" /\ todo' = Tail(todo)
        /\ pend' = [pend EXCEPT ![x] = Append(@, c)]
    BY <1>9 DEF smmu_cmdq_write_cmd, Running, Done
  <2>2. x \in SMMUs /\ c \in Cmds /\ Head(todo) = todo[1] /\ 1 \in DOMAIN todo  BY <1>1, <2>1, TailListed DEF TodoInv
  <2>3. s = x
    <3>1. s # x => pend'[s] = pend[s]  BY <1>1, <2>1, <2>2 DEF QueueInv
    <3> QED  BY <1>2, <1>6, <3>1
  <2>4. pend'[s] = Append(pend[s], c)  BY <1>1, <2>1, <2>2, <2>3 DEF QueueInv
  <2>5. Len(pend'[s]) = Len(pend[s]) + 1 /\ Len(pend[s]) \in Nat  BY <1>5, <2>2, <2>4
  <2>6. PICK j \in DOMAIN todo :
          /\ todo[j].do = "poll" /\ todo[j].smmu = s /\ Len(pend[s]) + (j - 1) <= 4 /\ j > 1
          /\ \A l \in 1 .. j - 1 : todo[l].do = "cmd" /\ todo[l].smmu = s
    <3>1. CASE pend[s] = <<>>
      <4>1. PICK j \in DOMAIN todo : Ends(todo, 1, j)
        BY <1>1, <2>1, <2>2 DEF TodoInv, Listed, Polled
      <4>2. Len(pend[s]) = 0  BY <3>1
      <4> QED  BY <1>4, <2>2, <2>3, <4>1, <4>2 DEF Ends
    <3>2. CASE pend[s] # <<>>
      <4>1. PICK j \in DOMAIN todo :
              /\ todo[j].do = "poll" /\ todo[j].smmu = s /\ Len(pend[s]) + j - 1 <= 4
              /\ \A l \in 1 .. j - 1 : todo[l].do = "cmd" /\ todo[l].smmu = s
        BY <1>1, <1>2, <3>2 DEF PendInv
      <4>2. j # 1  BY <2>1, <2>2, <4>1
      <4>3. j > 1 /\ Len(pend[s]) + (j - 1) <= 4  BY <1>4, <2>5, <4>1, <4>2
      <4> QED  BY <4>1, <4>3
    <3> QED  BY <3>1, <3>2
  <2>7. /\ DOMAIN Tail(todo) = 1 .. Len(todo) - 1
        /\ \A i \in 1 .. Len(todo) - 1 : Tail(todo)[i] = todo[i + 1]
    BY <1>3, <2>1
  <2>8. j - 1 \in DOMAIN todo' /\ todo'[j - 1] = todo[j]
    <3>1. j - 1 \in 1 .. Len(todo) - 1 /\ (j - 1) + 1 = j  BY <1>4, <2>6
    <3> QED  BY <2>1, <2>7, <3>1
  <2>9. Len(pend'[s]) + (j - 1) - 1 <= 4  BY <1>4, <2>5, <2>6
  <2>10. ASSUME NEW l \in 1 .. (j - 1) - 1 PROVE todo'[l].do = "cmd" /\ todo'[l].smmu = s
    <3>1. l \in 1 .. Len(todo) - 1 /\ l + 1 \in 1 .. j - 1  BY <1>4, <2>6
    <3> QED  BY <2>1, <2>6, <2>7, <3>1
  <2> QED  BY <2>6, <2>8, <2>9, <2>10
<1>10. CASE Program
  <2>1. todo # <<>> /\ Head(todo).do = "program" /\ pend' = [pend EXCEPT ![Head(todo).smmu] = <<>>]
    BY <1>10 DEF Program, Running
  <2>2. pend[s] # <<>>  BY <1>1, <1>2, <2>1 DEF QueueInv
  <2> QED  BY <1>6, <2>1, <2>2
<1>11. CASE Polls
  <2>1. pend' = pend /\ todo # <<>> /\ Head(todo).do = "poll"  BY <1>11 DEF Polls, queue
  <2>2. Head(todo).smmu = s  BY <1>2, <1>6, <2>1
  <2>3. smmu_queue_empty(prod[s], cons[s])  BY <1>2, <1>11, <2>2 DEF Polls
  <2>4. (prod[s] - cons[s]) % (2 * Nent) = 0  BY <1>1, <2>3, EmptyQueue DEF QueueInv
  <2>5. Len(pend[s]) = 0  BY <1>1, <1>2, <2>4 DEF QueueInv
  <2> QED  BY <1>2, <1>5, <2>1, <2>5
<1>12. CASE GoesOn
  <2>1. pend' = pend /\ Head(todo).do \notin {"cmd", "poll"}  BY <1>12 DEF GoesOn, queue
  <2> QED  BY <1>2, <1>6, <2>1
<1>13. CASE Starts
  <2>1. pend' = pend /\ todo = <<>>  BY <1>1, <1>13 DEF Starts, queue, TodoInv
  <2> QED  BY <1>2, <1>6, <2>1
<1>14. CASE Rests
  BY <1>1, <1>2, <1>14 DEF Rests, queue, PendInv
<1> QED  BY ZenonT(30), <1>1, <1>8, <1>9, <1>10, <1>11, <1>12, <1>13, <1>14, StepKinds

\* The indices of the queue, which count modulo twice its size.
LEMMA Indices ==
  ASSUME NEW N \in Nat \ {0}
  PROVE  /\ \A x \in 0 .. N - 1 : x % N = x
         /\ \A x \in N .. 2 * N - 1 : x % N = x - N
         /\ \A x \in 2 * N .. 3 * N - 1 : x % N = x - 2 * N
         /\ \A x \in 0 .. 2 * N - 1 : x % (2 * N) = x
         /\ (2 * N) % (2 * N) = 0
         /\ \A x \in 1 - 2 * N .. -1 : x % (2 * N) = x + 2 * N
<1>1. \A x \in 0 .. N - 1 : x % N = x  OBVIOUS
<1>2. \A x \in N .. 2 * N - 1 : x % N = x - N  OBVIOUS
<1>3. \A x \in 2 * N .. 3 * N - 1 : x % N = x - 2 * N  OBVIOUS
<1> DEFINE M == 2 * N
<1>4. M \in Nat \ {0}  OBVIOUS
<1> HIDE DEF M
<1>5. \A x \in 0 .. M - 1 : x % M = x  BY <1>4
<1>6. M % M = 0  BY <1>4
<1>7. \A x \in 1 - M .. -1 : x % M = x + M  BY <1>4
<1> QED  BY <1>1, <1>2, <1>3, <1>5, <1>6, <1>7 DEF M

\* The next index, the distance between two, and the slots in between: a queue
\* with a free slot does not write one that is still to be consumed.
LEMMA Distance ==
  ASSUME NEW N \in Nat \ {0}, NEW p \in 0 .. 2 * N - 1, NEW c \in 0 .. 2 * N - 1
  PROVE  LET L == (p - c) % (2 * N)
             n == (p + 1) % (2 * N)
             d == (c + 1) % (2 * N)
         IN /\ L \in 0 .. 2 * N - 1 /\ n \in 0 .. 2 * N - 1 /\ p % N \in 0 .. N - 1
            /\ L < N => /\ (n - c) % (2 * N) = L + 1
                        /\ (c + L) % N = p % N
                        /\ \A i \in 1 .. L : (c + i - 1) % N # p % N
                        /\ \A i \in 1 .. L : (c + i - 1) % N \in 0 .. N - 1
            /\ p # c /\ L <= N => /\ L > 0 /\ (p - d) % (2 * N) = L - 1
                                  /\ \A i \in 1 .. L - 1 : (d + i - 1) % N = (c + i) % N
            /\ d \in 0 .. 2 * N - 1 /\ c % N \in 0 .. N - 1
<1> DEFINE L == (p - c) % (2 * N)
           n == (p + 1) % (2 * N)
           d == (c + 1) % (2 * N)
<1>1. /\ L = IF p >= c THEN p - c ELSE p - c + 2 * N
      /\ n = IF p = 2 * N - 1 THEN 0 ELSE p + 1
      /\ d = IF c = 2 * N - 1 THEN 0 ELSE c + 1
  <2>1. p >= c => p - c \in 0 .. 2 * N - 1  OBVIOUS
  <2>2. ~(p >= c) => p - c \in 1 - 2 * N .. -1  OBVIOUS
  <2>3. L = IF p >= c THEN p - c ELSE p - c + 2 * N  BY Zenon, <2>1, <2>2, Indices
  <2>4. \A x \in 0 .. 2 * N - 1 : (x + 1) % (2 * N) = IF x = 2 * N - 1 THEN 0 ELSE x + 1
    <3>1. SUFFICES ASSUME NEW x \in 0 .. 2 * N - 1
                   PROVE  (x + 1) % (2 * N) = IF x = 2 * N - 1 THEN 0 ELSE x + 1
      OBVIOUS
    <3>2. CASE x = 2 * N - 1
      <4>1. x + 1 = 2 * N  BY <3>2
      <4> QED  BY <3>2, <4>1, Indices
    <3>3. CASE x # 2 * N - 1
      <4>1. x + 1 \in 0 .. 2 * N - 1  BY <3>3
      <4> QED  BY Zenon, <3>3, <4>1, Indices
    <3> QED  BY <3>2, <3>3
  <2> QED  BY <2>3, <2>4
<1>2. \A x \in 0 .. 3 * N - 1 :
        x % N = IF x < N THEN x ELSE IF x < 2 * N THEN x - N ELSE x - 2 * N
  <2>1. SUFFICES ASSUME NEW x \in 0 .. 3 * N - 1
                 PROVE  x % N = IF x < N THEN x ELSE IF x < 2 * N THEN x - N ELSE x - 2 * N
    OBVIOUS
  <2>2. CASE x \in 0 .. N - 1
    <3>1. x % N = x  BY <2>2, Indices
    <3> QED  BY <2>2, <3>1
  <2>3. CASE x \in N .. 2 * N - 1
    <3>1. x % N = x - N  BY <2>3, Indices
    <3> QED  BY <2>3, <3>1
  <2>4. CASE x \in 2 * N .. 3 * N - 1
    <3>1. x % N = x - 2 * N  BY Zenon, <2>4, Indices
    <3> QED  BY <2>4, <3>1
  <2> QED  BY <2>2, <2>3, <2>4
<1>3. \A q \in 0 .. 2 * N - 1, x \in 0 .. 2 * N - 1 :
        (q - x) % (2 * N) = IF q >= x THEN q - x ELSE q - x + 2 * N
  <2>1. SUFFICES ASSUME NEW q \in 0 .. 2 * N - 1, NEW x \in 0 .. 2 * N - 1
                 PROVE  (q - x) % (2 * N) = IF q >= x THEN q - x ELSE q - x + 2 * N
    BY Zenon
  <2>2. q >= x => q - x \in 0 .. 2 * N - 1  OBVIOUS
  <2>3. ~(q >= x) => q - x \in 1 - 2 * N .. -1  OBVIOUS
  <2> QED  BY Zenon, <2>2, <2>3, Indices
<1> HIDE DEF L, n, d
<1>4. L \in 0 .. 2 * N - 1 /\ n \in 0 .. 2 * N - 1 /\ d \in 0 .. 2 * N - 1  BY <1>1
<1>5. p % N \in 0 .. N - 1 /\ c % N \in 0 .. N - 1  BY <1>2
<1>6. ASSUME L < N
      PROVE  /\ (n - c) % (2 * N) = L + 1
             /\ (c + L) % N = p % N
             /\ \A i \in 1 .. L : (c + i - 1) % N # p % N
             /\ \A i \in 1 .. L : (c + i - 1) % N \in 0 .. N - 1
  <2>1. (n - c) % (2 * N) = L + 1
    <3>1. (n - c) % (2 * N) = IF n >= c THEN n - c ELSE n - c + 2 * N  BY Zenon, <1>3, <1>4
    <3> QED  BY <1>1, <1>4, <1>6, <3>1
  <2>2. c + L \in 0 .. 3 * N - 1 /\ p \in 0 .. 3 * N - 1  BY <1>4, <1>6
  <2>3. (c + L) % N = p % N  BY <1>1, <1>2, <1>6, <2>2
  <2>4. ASSUME NEW i \in 1 .. L PROVE (c + i - 1) % N # p % N /\ (c + i - 1) % N \in 0 .. N - 1
    <3>1. c + i - 1 \in 0 .. 3 * N - 1 /\ i \in Nat  BY <1>4, <1>6
    <3>2. (c + i - 1) % N \in 0 .. N - 1  BY <1>2, <3>1
    <3>3. (c + i - 1) % N # p % N  BY <1>1, <1>2, <1>4, <1>6, <2>2, <3>1
    <3> QED  BY Zenon, <3>2, <3>3
  <2> QED  BY <2>1, <2>3, <2>4
<1>7. ASSUME p # c, L <= N
      PROVE  /\ L > 0 /\ (p - d) % (2 * N) = L - 1
             /\ \A i \in 1 .. L - 1 : (d + i - 1) % N = (c + i) % N
  <2>1. L > 0  BY <1>1, <1>7
  <2>2. (p - d) % (2 * N) = IF p >= d THEN p - d ELSE p - d + 2 * N  BY Zenon, <1>3, <1>4
  <2>3. (p - d) % (2 * N) = L - 1  BY <1>1, <1>4, <1>7, <2>2
  <2>4. ASSUME NEW i \in 1 .. L - 1 PROVE (d + i - 1) % N = (c + i) % N
    <3>1. c + i \in 0 .. 3 * N - 1 /\ d + i - 1 \in 0 .. 3 * N - 1 /\ i \in Nat  BY <1>4, <1>7
    <3> QED  BY <1>1, <1>2, <1>4, <1>7, <3>1
  <2> QED  BY <2>1, <2>3, <2>4
<1> QED  BY <1>4, <1>5, <1>6, <1>7 DEF L, n, d

LEMMA Room ==
  ASSUME NEW N \in Nat \ {0}, NEW p \in 0 .. 2 * N - 1, NEW c \in 0 .. 2 * N - 1,
         (p - c) % (2 * N) < N
  PROVE  /\ (((p + 1) % (2 * N)) - c) % (2 * N) = ((p - c) % (2 * N)) + 1
         /\ (c + ((p - c) % (2 * N))) % N = p % N
         /\ \A i \in 1 .. (p - c) % (2 * N) : (c + i - 1) % N # p % N
         /\ \A i \in 1 .. (p - c) % (2 * N) : (c + i - 1) % N \in 0 .. N - 1
BY ZenonT(60), Distance

LEMMA Waiting ==
  ASSUME NEW N \in Nat \ {0}, NEW p \in 0 .. 2 * N - 1, NEW c \in 0 .. 2 * N - 1,
         p # c, (p - c) % (2 * N) <= N
  PROVE  /\ (p - c) % (2 * N) > 0
         /\ (p - ((c + 1) % (2 * N))) % (2 * N) = ((p - c) % (2 * N)) - 1
         /\ \A i \in 1 .. ((p - c) % (2 * N)) - 1 :
              (((c + 1) % (2 * N)) + i - 1) % N = (c + i) % N
BY ZenonT(60), Distance

LEMMA QueueStep ==
  ASSUME QInv, Nent >= 4, [Next]_vars
  PROVE  QueueInv'
<1>1. sc' = sc /\ TypeInv /\ TodoInv /\ PendInv /\ QueueInv  BY TypeStep DEF QInv
<1>2. Nent \in Nat \ {0}  BY SmmuAssumption
<1>3. SMMUs' = SMMUs  BY <1>1 DEF SMMUs
<1> DEFINE N == Nent
           Right(P, C, b, q) == /\ Len(q) = (P - C) % (2 * N)
                                /\ \A i \in DOMAIN q : b[(C + i - 1) % N] = q[i]
<1>4. \A s \in SMMUs : /\ prod[s] \in 0 .. 2 * N - 1 /\ cons[s] \in 0 .. 2 * N - 1
                       /\ pend[s] \in Seq(Cmds) /\ buf[s] \in [0 .. N - 1 -> Cmds \cup {None}]
                       /\ sc.prompt => Right(prod[s], cons[s], buf[s], pend[s])
  BY <1>1 DEF QueueInv
<1>5. SUFFICES ASSUME NEW x \in SMMUs,
                      prod' = [prod EXCEPT ![x] = prod'[x]], cons' = [cons EXCEPT ![x] = cons'[x]],
                      pend' = [pend EXCEPT ![x] = pend'[x]], buf' = [buf EXCEPT ![x] = buf'[x]],
                      Consume(x) \/ (smmu_cmdq_write_cmd /\ x = Head(todo).smmu)
                        \/ (Program /\ x = Head(todo).smmu)
               PROVE  /\ prod'[x] \in 0 .. 2 * N - 1 /\ cons'[x] \in 0 .. 2 * N - 1
                      /\ pend'[x] \in Seq(Cmds) /\ buf'[x] \in [0 .. N - 1 -> Cmds \cup {None}]
                      /\ sc.prompt => Right(prod'[x], cons'[x], buf'[x], pend'[x])
  <2>1. CASE Polls \/ GoesOn \/ Starts \/ Rests
    <3>1. UNCHANGED queue  BY ZenonT(30), <2>1 DEF Polls, GoesOn, Starts, Rests, queue
    <3> QED  BY <1>1, <1>3, <3>1 DEF queue, QueueInv
  <2>2. ASSUME NEW x \in SMMUs,
               prod' = [prod EXCEPT ![x] = prod'[x]], cons' = [cons EXCEPT ![x] = cons'[x]],
               pend' = [pend EXCEPT ![x] = pend'[x]], buf' = [buf EXCEPT ![x] = buf'[x]],
               prod'[x] \in 0 .. 2 * N - 1 /\ cons'[x] \in 0 .. 2 * N - 1,
               pend'[x] \in Seq(Cmds) /\ buf'[x] \in [0 .. N - 1 -> Cmds \cup {None}],
               sc.prompt => Right(prod'[x], cons'[x], buf'[x], pend'[x])
        PROVE  QueueInv'
    <3>1. /\ prod' \in [SMMUs -> 0 .. 2 * N - 1] /\ cons' \in [SMMUs -> 0 .. 2 * N - 1]
          /\ pend' \in [SMMUs -> Seq(Cmds)]
          /\ buf' \in [SMMUs -> [0 .. N - 1 -> Cmds \cup {None}]]
      BY ZenonT(30), <1>1, <2>2 DEF QueueInv
    <3>2. ASSUME sc.prompt, NEW s \in SMMUs PROVE Right(prod'[s], cons'[s], buf'[s], pend'[s])
      <4>1. CASE s = x  BY ZenonT(30), <2>2, <3>2, <4>1
      <4>2. CASE s # x
        <5>1. prod'[s] = prod[s] /\ cons'[s] = cons[s] /\ pend'[s] = pend[s] /\ buf'[s] = buf[s]
          BY ZenonT(30), <1>1, <2>2, <4>2 DEF QueueInv
        <5> QED  BY <1>4, <3>2, <5>1
      <4> QED  BY ZenonT(30), <4>1, <4>2
    <3> QED  BY <1>1, <1>3, <3>1, <3>2 DEF QueueInv
  <2> DEFINE Only(x) == /\ prod' = [prod EXCEPT ![x] = prod'[x]] /\ cons' = [cons EXCEPT ![x] = cons'[x]]
                        /\ pend' = [pend EXCEPT ![x] = pend'[x]] /\ buf' = [buf EXCEPT ![x] = buf'[x]]
  <2>3. ASSUME NEW x \in SMMUs, Consume(x) PROVE Only(x)
    BY ZenonT(30), <1>1, <2>3 DEF Consume, QueueInv
  <2>4. ASSUME smmu_cmdq_write_cmd PROVE Head(todo).smmu \in SMMUs /\ Only(Head(todo).smmu)
    <3>1. Head(todo).smmu \in SMMUs  BY ZenonT(30), <1>1, <2>4, TailListed DEF TodoInv, smmu_cmdq_write_cmd, Running
    <3> QED  BY ZenonT(30), <1>1, <2>4, <3>1 DEF smmu_cmdq_write_cmd, QueueInv
  <2>5. ASSUME Program PROVE Head(todo).smmu \in SMMUs /\ Only(Head(todo).smmu)
    <3>1. Head(todo).smmu \in SMMUs  BY ZenonT(30), <1>1, <2>5, TailListed DEF TodoInv, Program, Running
    <3> QED  BY ZenonT(30), <1>1, <2>5, <3>1 DEF Program, QueueInv
  <2>6. CASE \E x \in SMMUs : Consume(x)  BY ZenonT(30), <1>5, <2>2, <2>3, <2>6
  <2>7. CASE smmu_cmdq_write_cmd  BY ZenonT(30), <1>5, <2>2, <2>4, <2>7
  <2>8. CASE Program  BY <1>5, <2>2, <2>5, <2>8
  <2> QED  BY ZenonT(30), <1>1, <2>1, <2>6, <2>7, <2>8, StepKinds
<1> DEFINE P == prod[x]
           C == cons[x]
           L == (P - C) % (2 * N)
<1>6. L \in 0 .. 2 * N - 1 /\ P % N \in 0 .. N - 1  BY ZenonT(30), <1>2, <1>4, Distance
<1>7. Len(pend[x]) \in Nat /\ DOMAIN pend[x] = 1 .. Len(pend[x])  BY <1>4
<1>8. CASE Consume(x)
  <2>1. /\ P # C /\ prod'[x] = P /\ buf'[x] = buf[x] /\ cons'[x] = (C + 1) % (2 * N)
        /\ pend'[x] = IF pend[x] = <<>> THEN pend[x] ELSE Tail(pend[x])
    BY <1>1, <1>8 DEF Consume, QueueInv
  <2>2. (C + 1) % (2 * N) \in 0 .. 2 * N - 1  BY Zenon, <1>2, <1>4, Distance
  <2>3. pend'[x] \in Seq(Cmds)  BY Zenon, <1>4, <2>1, Shortened
  <2>4. ASSUME sc.prompt PROVE Right(prod'[x], cons'[x], buf'[x], pend'[x])
    <3>1. Len(pend[x]) = L /\ \A i \in DOMAIN pend[x] : buf[x][(C + i - 1) % N] = pend[x][i]
      BY <1>4, <2>4
    <3>2. L <= N
      <4>1. CASE pend[x] = <<>>  BY <1>2, <3>1, <4>1
      <4>2. CASE pend[x] # <<>>
        <5>1. PICK j \in DOMAIN todo : Len(pend[x]) + j - 1 <= 4  BY <1>1, <2>4, <4>2 DEF PendInv
        <5>2. j \in Nat \ {0}  BY <1>1 DEF TodoInv, Listed
        <5> QED  BY <1>2, <1>7, <3>1, <5>1, <5>2
      <4> QED  BY <4>1, <4>2
    <3> DEFINE d == (C + 1) % (2 * N)
    <3>3. /\ L > 0 /\ (P - d) % (2 * N) = L - 1
          /\ \A i \in 1 .. L - 1 : (d + i - 1) % N = (C + i) % N
      BY ZenonT(30), <1>2, <1>4, <2>1, <3>2, Waiting
    <3>4. pend[x] # <<>> /\ pend'[x] = Tail(pend[x])  BY <2>1, <3>1, <3>3
    <3>5. /\ Len(pend'[x]) = L - 1 /\ DOMAIN pend'[x] = 1 .. L - 1
          /\ \A i \in 1 .. L - 1 : pend'[x][i] = pend[x][i + 1]
      BY <1>4, <1>7, <3>1, <3>4
    <3>6. ASSUME NEW i \in 1 .. L - 1 PROVE buf'[x][(d + i - 1) % N] = pend'[x][i]
      <4>1. i + 1 \in DOMAIN pend[x] /\ C + (i + 1) - 1 = C + i  BY <1>4, <1>6, <1>7, <3>1
      <4>2. buf[x][(C + i) % N] = pend[x][i + 1]  BY ZenonT(30), <3>1, <4>1
      <4> QED  BY ZenonT(30), <2>1, <3>3, <3>5, <4>2
    <3> QED  BY ZenonT(30), <2>1, <3>3, <3>5, <3>6
  <2> QED  BY Zenon, <1>4, <2>1, <2>2, <2>3, <2>4
<1>9. CASE smmu_cmdq_write_cmd /\ x = Head(todo).smmu
  <2> DEFINE c == Head(todo).cmd
  <2>1. c \in Cmds /\ todo # <<>> /\ Head(todo).do = "cmd" /\ Head(todo) = todo[1] /\ 1 \in DOMAIN todo
    BY <1>1, <1>9, TailListed DEF TodoInv, smmu_cmdq_write_cmd, Running
  <2>2. /\ cons'[x] = C /\ prod'[x] = (P + 1) % (2 * N) /\ pend'[x] = Append(pend[x], c)
        /\ buf'[x] = [buf[x] EXCEPT ![P % N] = c]
    BY Zenon, <1>1, <1>9 DEF smmu_cmdq_write_cmd, smmu_cmdq_inc_prod, QueueInv
  <2>3. (P + 1) % (2 * N) \in 0 .. 2 * N - 1  BY Zenon, <1>2, <1>4, Distance
  <2>6. /\ pend'[x] \in Seq(Cmds)
        /\ Len(pend'[x]) = Len(pend[x]) + 1 /\ DOMAIN pend'[x] = 1 .. Len(pend[x]) + 1
        /\ pend'[x][Len(pend[x]) + 1] = c /\ \A i \in 1 .. Len(pend[x]) : pend'[x][i] = pend[x][i]
    <3>1. pend[x] \in Seq(Cmds) /\ c \in Cmds /\ pend'[x] = Append(pend[x], c)  BY Zenon, <1>4, <2>1, <2>2
    <3> HIDE DEF c
    <3> QED BY <3>1, Appended
  <2>4. pend'[x] \in Seq(Cmds) /\ buf'[x] \in [0 .. N - 1 -> Cmds \cup {None}]
    <3>1. buf[x] \in [0 .. N - 1 -> Cmds \cup {None}] /\ c \in Cmds \cup {None}  BY Zenon, <1>4, <2>1
    <3> QED BY Zenon, <1>6, <2>2, <2>6, <3>1
  <2>5. ASSUME sc.prompt PROVE Right(prod'[x], cons'[x], buf'[x], pend'[x])
    <3>1. Len(pend[x]) = L /\ \A i \in DOMAIN pend[x] : buf[x][(C + i - 1) % N] = pend[x][i]
      BY <1>4, <2>5
    <3>2. L < N
      <4>1. CASE pend[x] = <<>>  BY <1>2, <3>1, <4>1
      <4>2. CASE pend[x] # <<>>
        <5>1. PICK j \in DOMAIN todo : Len(pend[x]) + j - 1 <= 4 /\ todo[j].do = "poll"
          BY <1>1, <2>5, <4>2 DEF PendInv
        <5>2. j \in Nat \ {0}  BY <1>1 DEF TodoInv, Listed
        <5>3. j # 1  BY <2>1, <5>1
        <5> QED  BY <1>2, <1>7, <3>1, <5>1, <5>2, <5>3
      <4> QED  BY <4>1, <4>2
    <3>3. /\ (((P + 1) % (2 * N)) - C) % (2 * N) = L + 1 /\ (C + L) % N = P % N
          /\ \A i \in 1 .. L : (C + i - 1) % N # P % N
          /\ \A i \in 1 .. L : (C + i - 1) % N \in 0 .. N - 1
      BY ZenonT(30), <1>2, <1>4, <3>2, Room
    <3>4. /\ Len(pend'[x]) = L + 1 /\ DOMAIN pend'[x] = 1 .. L + 1 /\ pend'[x][L + 1] = c
          /\ \A i \in 1 .. L : pend'[x][i] = pend[x][i]
      BY Zenon, <2>6, <3>1
    <3>5. ASSUME NEW i \in 1 .. L + 1 PROVE buf'[x][(C + i - 1) % N] = pend'[x][i]
      <4>1. CASE i = L + 1
        <5>1. C + i - 1 = C + L  BY <1>4, <1>6, <4>1
        <5>2. (C + i - 1) % N = P % N  BY <3>3, <5>1
        <5>3. buf'[x][P % N] = c  BY Zenon, <1>4, <1>6, <2>2
        <5> QED  BY ZenonT(30), <3>4, <4>1, <5>2, <5>3
      <4>2. CASE i \in 1 .. L
        <5>1. buf[x][(C + i - 1) % N] = pend[x][i] /\ (C + i - 1) % N # P % N
          BY ZenonT(30), <1>7, <3>1, <3>3, <4>2
        <5>2. (C + i - 1) % N \in 0 .. N - 1  BY Zenon, <3>3, <4>2
        <5>3. buf'[x][(C + i - 1) % N] = buf[x][(C + i - 1) % N]  BY ZenonT(30), <1>4, <2>2, <5>1, <5>2
        <5> QED  BY ZenonT(30), <3>4, <4>2, <5>1, <5>3
      <4> QED  BY <1>6, <4>1, <4>2
    <3> QED  BY <2>2, <3>3, <3>4, <3>5
  <2> QED  BY ZenonT(30), <1>4, <2>2, <2>3, <2>4, <2>5
<1>10. CASE Program /\ x = Head(todo).smmu
  <2>1. prod'[x] = 0 /\ cons'[x] = 0 /\ pend'[x] = <<>> /\ buf'[x] = buf[x]
    BY <1>1, <1>10 DEF Program, QueueInv
  <2>2. (0 - 0) % (2 * N) = 0 /\ 0 \in 0 .. 2 * N - 1  BY <1>2
  <2> QED  BY <1>4, <2>1, <2>2
<1> QED  BY <1>5, <1>8, <1>9, <1>10

LEMMA QInit ==
  ASSUME Init
  PROVE  QInv
<1>1. Nent \in Nat \ {0}  BY SmmuAssumption
<1>2. (0 - 0) % (2 * Nent) = 0 /\ 0 \in 0 .. 2 * Nent - 1  BY <1>1
<1>3. TypeInv /\ TodoInv  BY ZenonT(30), StepInit
<1>5. PendInv  BY DEF Init, PendInv
<1>6. QueueInv
  <2>1. /\ prod = [s \in SMMUs |-> 0] /\ cons = [s \in SMMUs |-> 0] /\ pend = [s \in SMMUs |-> <<>>]
        /\ buf = [s \in SMMUs |-> [i \in 0 .. Nent - 1 |-> None]]
    BY DEF Init
  <2>2. \A s \in SMMUs : Len(pend[s]) = 0 /\ DOMAIN pend[s] = {} /\ prod[s] = 0 /\ cons[s] = 0
    BY <2>1
  <2> QED  BY <1>2, <2>1, <2>2 DEF QueueInv
<1> QED  BY <1>3, <1>5, <1>6 DEF QInv

\* The queue smmu_cmd_queue_init sets up loses no command, overwrites none the
\* SMMU has yet to consume and is empty when a call returns, although
\* smmu_cmdq_write_cmd never finds it full: it holds the four commands an
\* invalidation (smmu_tlbi_cfgi) issues before it polls. That is all that is
\* asked of its size, SMMU_IDR1.CMDQS.
THEOREM NoCommandIsLost == Nent >= 4 => (Spec => []QueueFaithful)
<1> SUFFICES ASSUME Nent >= 4 PROVE Spec => []QueueFaithful  OBVIOUS
<1>1. Init => QInv  BY QInit
<1>2. QInv /\ [Next]_vars => QInv'
  <2> SUFFICES ASSUME QInv, [Next]_vars PROVE QInv'  OBVIOUS
  <2> QED  BY TypeStep, TodoStep, PendStep, QueueStep DEF QInv
<1>3. QInv => QueueFaithful
  <2> SUFFICES ASSUME QInv, sc.prompt, NEW s \in SMMUs, call = Idle PROVE pend[s] = <<>>
    BY DEF QInv, QueueInv, QueueFaithful
  <2> QED  BY HeadTells DEF QInv, TodoInv
<1> QED  BY <1>1, <1>2, <1>3, PTL DEF Spec
=============================================================================
