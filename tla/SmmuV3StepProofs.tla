------------------------- MODULE SmmuV3StepProofs ---------------------------
(***************************************************************************)
(* What a call of the SMMUv3 driver has yet to do, and the list of masters,*)
(* for any number of SMMUs and any calls of the tests: the lemmas that the *)
(* proofs about the command queue and about the tables rest on.            *)
(***************************************************************************)
EXTENDS SmmuV3, WellFoundedInduction, TLAPS

Cmds == {"CFGI_ALL", "TLBI_EL2_ALL", "TLBI_NSNH_ALL", "CMD_SYNC"}

-----------------------------------------------------------------------------
(* The parts of the inductive invariant.                                   *)

\* From the i-th step on there are commands for one SMMU, up to four, and at the
\* j-th it is polled.
Ends(q, i, j) ==
  /\ j \in DOMAIN q /\ i < j /\ j <= i + 4 /\ q[j].do = "poll" /\ q[j].smmu = q[i].smmu
  /\ \A l \in i .. j - 1 : q[l].do = "cmd" /\ q[l].smmu = q[i].smmu

\* Every run of commands in a list of steps is as long as that.
Polled(q) == \A i \in DOMAIN q : q[i].do = "cmd" => \E j \in DOMAIN q : Ends(q, i, j)

StepsOk(q) == \A i \in DOMAIN q : q[i].smmu \in SMMUs /\ (q[i].do = "cmd" => q[i].cmd \in Cmds)

Listed(q) == (\E S : q \in Seq(S)) /\ StepsOk(q) /\ Polled(q)

\* A node of the list of masters, with its table among those of T.
Master(T) == [sid : Nat, smmu : SMMUs \cup {0}, ssid_bits : Nat, stage : {None, "S1", "S2"},
              ssid : Nat, s1cdmax : Nat, tab : T]

TypeInv ==
  /\ sc \in Scenarios
  /\ base \subseteq SMMUs
  /\ \E T : masters \in Seq(Master(T))

TodoInv ==
  /\ Listed(todo)
  /\ call = Idle => todo = <<>>

-----------------------------------------------------------------------------
(* Lists of steps.                                                         *)
LEMMA TailSteps ==
  ASSUME NEW S, NEW q \in Seq(S), q # <<>>
  PROVE  /\ Tail(q) \in Seq(S) /\ Len(Tail(q)) = Len(q) - 1 /\ Len(q) \in Nat \ {0}
         /\ \A i \in 1 .. Len(q) - 1 : Tail(q)[i] = q[i + 1]
         /\ Head(q) = q[1] /\ 1 \in DOMAIN q
         /\ StepsOk(q) => StepsOk(Tail(q))
         /\ Polled(q) => Polled(Tail(q))
<1>1. /\ Tail(q) \in Seq(S) /\ Len(Tail(q)) = Len(q) - 1 /\ Len(q) \in Nat \ {0}
      /\ \A i \in 1 .. Len(q) - 1 : Tail(q)[i] = q[i + 1]
      /\ Head(q) = q[1] /\ 1 \in DOMAIN q
      /\ DOMAIN q = 1 .. Len(q) /\ DOMAIN Tail(q) = 1 .. Len(q) - 1
  OBVIOUS
<1>2. \A i \in DOMAIN Tail(q) : i + 1 \in DOMAIN q /\ Tail(q)[i] = q[i + 1]  BY <1>1
<1>3. StepsOk(q) => StepsOk(Tail(q))  BY <1>2 DEF StepsOk
<1>4. ASSUME Polled(q), NEW i \in DOMAIN Tail(q), Tail(q)[i].do = "cmd"
      PROVE  \E j \in DOMAIN Tail(q) : Ends(Tail(q), i, j)
  <2>1. PICK j \in DOMAIN q : Ends(q, i + 1, j)  BY <1>2, <1>4 DEF Polled
  <2>2. j \in Nat /\ i \in Nat /\ j - 1 \in DOMAIN Tail(q) /\ i < j - 1 /\ j - 1 <= i + 4
    BY <1>1, <2>1 DEF Ends
  <2>3. Tail(q)[j - 1] = q[j]  BY <1>1, <2>2
  <2>4. \A l \in i .. (j - 1) - 1 : l + 1 \in (i + 1) .. j - 1 /\ Tail(q)[l] = q[l + 1]
    BY <1>1, <2>2
  <2>5. Ends(Tail(q), i, j - 1)  BY ZenonT(30), <1>2, <2>1, <2>2, <2>3, <2>4 DEF Ends
  <2> QED  BY <2>2, <2>5
<1> QED  BY <1>1, <1>3, <1>4 DEF Polled

LEMMA JoinSteps ==
  ASSUME NEW S, NEW p \in Seq(S), NEW q \in Seq(S)
  PROVE  /\ p \o q \in Seq(S)
         /\ StepsOk(p) /\ StepsOk(q) => StepsOk(p \o q)
         /\ Polled(p) /\ Polled(q) => Polled(p \o q)
<1> DEFINE r == p \o q
<1>1. /\ r \in Seq(S) /\ Len(r) = Len(p) + Len(q) /\ Len(p) \in Nat /\ Len(q) \in Nat
      /\ DOMAIN p = 1 .. Len(p) /\ DOMAIN q = 1 .. Len(q) /\ DOMAIN r = 1 .. Len(p) + Len(q)
  OBVIOUS
<1>2. /\ \A i \in DOMAIN p : i \in DOMAIN r /\ r[i] = p[i]
      /\ \A i \in DOMAIN q : Len(p) + i \in DOMAIN r /\ r[Len(p) + i] = q[i]
  BY <1>1
<1>3. \A i \in DOMAIN r : i \in DOMAIN p \/ (i - Len(p) \in DOMAIN q /\ r[i] = q[i - Len(p)])
  BY <1>1
<1> HIDE DEF r
<1>4. StepsOk(p) /\ StepsOk(q) => StepsOk(r)  BY <1>2, <1>3 DEF StepsOk
<1>5. ASSUME Polled(p), Polled(q), NEW i \in DOMAIN r, r[i].do = "cmd"
      PROVE  \E j \in DOMAIN r : Ends(r, i, j)
  <2>1. CASE i \in DOMAIN p
    <3>1. PICK j \in DOMAIN p : Ends(p, i, j)  BY <1>2, <1>5, <2>1 DEF Polled
    <3>2. \A l \in i .. j - 1 : l \in DOMAIN p  BY <1>1, <2>1, <3>1 DEF Ends
    <3>3. Ends(r, i, j)  BY <1>2, <2>1, <3>1, <3>2 DEF Ends
    <3> QED  BY <1>2, <3>1, <3>3
  <2>2. CASE i - Len(p) \in DOMAIN q /\ r[i] = q[i - Len(p)]
    <3>1. PICK j \in DOMAIN q : Ends(q, i - Len(p), j)  BY <1>5, <2>2 DEF Polled
    <3>2. i \in Nat /\ j \in Nat  BY <1>1
    <3>3. Len(p) + j \in DOMAIN r /\ r[Len(p) + j] = q[j]  BY <1>2, <3>1
    <3>4. \A l \in i .. (Len(p) + j) - 1 :
             l - Len(p) \in (i - Len(p)) .. j - 1 /\ l - Len(p) \in DOMAIN q /\ r[l] = q[l - Len(p)]
      <4>1. ASSUME NEW l \in i .. (Len(p) + j) - 1
            PROVE  l - Len(p) \in (i - Len(p)) .. j - 1 /\ l - Len(p) \in DOMAIN q
        BY <1>1, <2>2, <3>1, <3>2 DEF Ends
      <4>2. \A l \in i .. (Len(p) + j) - 1 : r[l] = q[l - Len(p)]
        <5>1. ASSUME NEW l \in i .. (Len(p) + j) - 1 PROVE Len(p) + (l - Len(p)) = l  BY <1>1, <3>2
        <5> QED  BY <1>2, <4>1, <5>1
      <4> QED  BY <4>1, <4>2
    <3>5. i < Len(p) + j /\ Len(p) + j <= i + 4  BY <1>1, <3>1, <3>2 DEF Ends
    <3>6. Ends(r, i, Len(p) + j)  BY <2>2, <3>1, <3>3, <3>4, <3>5 DEF Ends
    <3> QED  BY <3>3, <3>6
  <2> QED  BY <1>3, <1>5, <2>1, <2>2
<1>6. Polled(p) /\ Polled(q) => Polled(r)  BY <1>5 DEF Polled
<1> QED  BY <1>1, <1>4, <1>6 DEF r

LEMMA LastSteps ==
  ASSUME NEW S, NEW q \in Seq(S), NEW n \in 1 .. Len(q)
  PROVE  /\ SubSeq(q, n, Len(q)) \in Seq(S)
         /\ StepsOk(q) => StepsOk(SubSeq(q, n, Len(q)))
         /\ Polled(q) => Polled(SubSeq(q, n, Len(q)))
<1> DEFINE r == SubSeq(q, n, Len(q))
<1>1. /\ r \in Seq(S) /\ Len(q) \in Nat /\ n \in Nat /\ DOMAIN q = 1 .. Len(q)
      /\ DOMAIN r = 1 .. Len(q) - n + 1
      /\ \A i \in 1 .. Len(q) - n + 1 : r[i] = q[n + i - 1]
  OBVIOUS
<1> HIDE DEF r
<1>2. \A i \in DOMAIN r : n + i - 1 \in DOMAIN q /\ r[i] = q[n + i - 1]  BY <1>1
<1>3. StepsOk(q) => StepsOk(r)  BY <1>2 DEF StepsOk
<1>4. ASSUME Polled(q), NEW i \in DOMAIN r, r[i].do = "cmd"
      PROVE  \E j \in DOMAIN r : Ends(r, i, j)
  <2>1. PICK j \in DOMAIN q : Ends(q, n + i - 1, j)  BY <1>2, <1>4 DEF Polled
  <2>2. /\ j \in Nat /\ i \in Nat /\ j - n + 1 \in DOMAIN r /\ i < j - n + 1 /\ j - n + 1 <= i + 4
    BY <1>1, <2>1 DEF Ends
  <2>3. r[j - n + 1] = q[j]
    <3>1. n + (j - n + 1) - 1 = j  BY <1>1, <2>2
    <3> QED  BY <1>2, <2>2, <3>1
  <2>4. ASSUME NEW l \in i .. (j - n + 1) - 1
        PROVE  n + l - 1 \in (n + i - 1) .. j - 1 /\ l \in DOMAIN r
    <3>1. l \in Nat /\ i <= l /\ l < j - n + 1 /\ i >= 1 /\ n \in Nat /\ j \in Nat  BY <1>1, <2>2
    <3>2. n + l - 1 \in (n + i - 1) .. j - 1  BY <2>2, <3>1
    <3>3. j - n + 1 <= Len(q) - n + 1  BY <1>1, <2>2
    <3> QED  BY <1>1, <3>1, <3>2, <3>3
  <2>5. Ends(r, i, j - n + 1)  BY ZenonT(30), <1>2, <2>1, <2>2, <2>3, <2>4 DEF Ends
  <2> QED  BY <2>2, <2>5
<1> QED  BY <1>1, <1>3, <1>4 DEF Polled, r

LEMMA JoinListed ==
  ASSUME NEW p, NEW q, Listed(p), Listed(q)
  PROVE  Listed(p \o q)
<1>1. PICK S : p \in Seq(S)  BY DEF Listed
<1>2. PICK T : q \in Seq(T)  BY DEF Listed
<1>3. p \in Seq(S \cup T)  BY <1>1
<1>4. q \in Seq(S \cup T)  BY <1>2
<1> QED  BY <1>3, <1>4, JoinSteps DEF Listed

LEMMA TailListed ==
  ASSUME NEW q, Listed(q), q # <<>>
  PROVE  /\ Listed(Tail(q)) /\ Head(q) = q[1] /\ 1 \in DOMAIN q /\ Head(q).smmu \in SMMUs
         /\ Head(q).do = "cmd" => Head(q).cmd \in Cmds
<1>1. PICK S : q \in Seq(S)  BY DEF Listed
<1>2. Listed(Tail(q)) /\ Head(q) = q[1] /\ 1 \in DOMAIN q  BY <1>1, TailSteps DEF Listed
<1> QED  BY <1>2 DEF Listed, StepsOk

LEMMA NoCommands ==
  ASSUME NEW S, NEW q \in Seq(S), \A i \in DOMAIN q : q[i].do # "cmd" /\ q[i].smmu \in SMMUs
  PROVE  Listed(q)
BY DEF Listed, StepsOk, Polled

LEMMA NothingListed == Listed(<<>>)
<1>1. <<>> \in Seq({}) /\ DOMAIN <<>> = {}  OBVIOUS
<1> QED  BY Zenon, <1>1, NoCommands

LEMMA OneListed ==
  ASSUME NEW x, x.do # "cmd", x.smmu \in SMMUs
  PROVE  Listed(<<x>>)
<1>1. <<x>> \in Seq({x})  OBVIOUS
<1>2. \A i \in DOMAIN <<x>> : <<x>>[i] = x  OBVIOUS
<1> QED  BY Zenon, <1>1, <1>2, NoCommands

LEMMA InvalidationListed ==
  ASSUME NEW s \in SMMUs
  PROVE  Listed(smmu_tlbi_cfgi(s))
<1> DEFINE a == Cmd(s, "CFGI_ALL")
           b == Cmd(s, "TLBI_EL2_ALL")
           c == Cmd(s, "TLBI_NSNH_ALL")
           d == Cmd(s, "CMD_SYNC")
           e == Step("poll", s)
<1>1. /\ \A x \in {a, b, c, d} : x.do = "cmd" /\ x.smmu = s /\ x.cmd \in Cmds
      /\ e.do = "poll" /\ e.smmu = s
  BY DEF Cmd, Step, Cmds
<1>2. smmu_tlbi_cfgi(s) = <<a>> \o (IF Hw(s).hyp THEN <<b>> ELSE <<>>) \o <<c, d, e>>
  BY DEF smmu_tlbi_cfgi
<1> HIDE DEF a, b, c, d, e
<1>3. Listed(<<a>> \o <<b>> \o <<c, d, e>>)
  <2> DEFINE q == <<a>> \o <<b>> \o <<c, d, e>>
  <2>1. q \in Seq({a, b, c, d, e}) /\ DOMAIN q = 1 .. 5  OBVIOUS
  <2>2. q[1] = a /\ q[2] = b /\ q[3] = c /\ q[4] = d /\ q[5] = e  OBVIOUS
  <2> HIDE DEF q
  <2>3. \A i \in 1 .. 4 : q[i].do = "cmd" /\ q[i].smmu = s /\ q[i].cmd \in Cmds
    <3>1. \A i \in 1 .. 4 : q[i] \in {a, b, c, d}
      <4>1. \A i \in 1 .. 4 : i = 1 \/ i = 2 \/ i = 3 \/ i = 4  OBVIOUS
      <4> QED  BY <2>2, <4>1
    <3> QED  BY <1>1, <3>1
  <2>4. q[5].do = "poll" /\ q[5].smmu = s  BY <1>1, <2>2
  <2>5. \A i \in 1 .. 4 : Ends(q, i, 5)  BY <2>1, <2>3, <2>4 DEF Ends
  <2>6. StepsOk(q)
    <3>1. \A i \in 1 .. 5 : i \in 1 .. 4 \/ i = 5  OBVIOUS
    <3> QED  BY <2>1, <2>3, <2>4, <3>1 DEF StepsOk
  <2>7. Polled(q)
    <3>1. \A i \in 1 .. 5 : i \in 1 .. 4 \/ i = 5  OBVIOUS
    <3> QED  BY <2>1, <2>4, <2>5, <3>1 DEF Polled
  <2>8. Listed(q)  BY <2>1, <2>6, <2>7 DEF Listed
  <2> QED  BY <2>8 DEF q
<1>4. Listed(<<a>> \o <<>> \o <<c, d, e>>)
  <2> DEFINE q == <<a>> \o <<>> \o <<c, d, e>>
  <2>1. q \in Seq({a, c, d, e}) /\ DOMAIN q = 1 .. 4  OBVIOUS
  <2>2. q[1] = a /\ q[2] = c /\ q[3] = d /\ q[4] = e  OBVIOUS
  <2> HIDE DEF q
  <2>3. \A i \in 1 .. 3 : q[i].do = "cmd" /\ q[i].smmu = s /\ q[i].cmd \in Cmds
    <3>1. \A i \in 1 .. 3 : q[i] \in {a, c, d}
      <4>1. \A i \in 1 .. 3 : i = 1 \/ i = 2 \/ i = 3  OBVIOUS
      <4> QED  BY <2>2, <4>1
    <3> QED  BY <1>1, <3>1
  <2>4. q[4].do = "poll" /\ q[4].smmu = s  BY <1>1, <2>2
  <2>5. \A i \in 1 .. 3 : Ends(q, i, 4)  BY <2>1, <2>3, <2>4 DEF Ends
  <2>6. StepsOk(q)
    <3>1. \A i \in 1 .. 4 : i \in 1 .. 3 \/ i = 4  OBVIOUS
    <3> QED  BY <2>1, <2>3, <2>4, <3>1 DEF StepsOk
  <2>7. Polled(q)
    <3>1. \A i \in 1 .. 4 : i \in 1 .. 3 \/ i = 4  OBVIOUS
    <3> QED  BY <2>1, <2>4, <2>5, <3>1 DEF Polled
  <2>8. Listed(q)  BY <2>1, <2>6, <2>7 DEF Listed
  <2> QED  BY <2>8 DEF q
<1> QED  BY Zenon, <1>2, <1>3, <1>4

\* The lists the calls start with, and those that a step of one is replaced by.
LEMMA HwFacts ==
  ASSUME sc \in Scenarios
  PROVE  SMMUs = 1 .. Len(sc.hw) /\ Len(sc.hw) \in Nat
<1>1. sc.hw \in Seq(Range(sc.hw))  BY SmmuAssumption
<1> QED  BY <1>1 DEF SMMUs

LEMMA RoundsListed ==
  ASSUME sc \in Scenarios, NEW kind, kind # "cmd"
  PROVE  Listed([s \in SMMUs |-> Step(kind, s)])
<1> DEFINE q == [s \in SMMUs |-> Step(kind, s)]
<1>1. SMMUs = 1 .. Len(sc.hw) /\ Len(sc.hw) \in Nat  BY HwFacts
<1>2. q \in Seq({Step(kind, s) : s \in SMMUs})  BY <1>1
<1>3. \A i \in DOMAIN q : q[i].do # "cmd" /\ q[i].smmu \in SMMUs  BY DEF Step
<1> QED  BY <1>2, <1>3, NoCommands

LEMMA ResetListed ==
  ASSUME NEW s \in SMMUs
  PROVE  Listed(smmu_reset(s))
<1> DEFINE a == Cr0(s, {}, "skip")
           b == Step("program", s)
           c == Cr0(s, {"CMDQEN"}, "skip")
           d == Cr0(s, {"CMDQEN", "SMMUEN"}, "skip")
<1>1. \A x \in {a, b, c, d} : x.do # "cmd" /\ x.smmu \in SMMUs  BY DEF Cr0, Step
<1>2. smmu_reset(s) = <<a, b, c>> \o smmu_tlbi_cfgi(s) \o <<d>>  BY DEF smmu_reset
<1> HIDE DEF a, b, c, d
<1>3. Listed(<<a, b, c>>)
  <2>1. <<a, b, c>> \in Seq({a, b, c, d})  OBVIOUS
  <2>2. \A i \in DOMAIN <<a, b, c>> : <<a, b, c>>[i] \in {a, b, c, d}  OBVIOUS
  <2> QED  BY Zenon, <1>1, <2>1, <2>2, NoCommands
<1>4. Listed(<<d>>)  BY <1>1, OneListed
<1>5. Listed(<<a, b, c>> \o smmu_tlbi_cfgi(s))  BY <1>3, InvalidationListed, JoinListed
<1> QED  BY <1>2, <1>4, <1>5, JoinListed

LEMMA MapStepsListed ==
  ASSUME NEW r, NEW m, r.smmu \in SMMUs
  PROVE  Listed(MapSteps(r, m))
<1> DEFINE a == [do |-> "cd", smmu |-> r.smmu, tab |-> m.tab, ssid |-> m.ssid, val |-> r.pgt]
           b == Store(r, Torn)
           c == Store(r, IF r.stage = "S2" THEN S2(r.pgt) ELSE S1(m.tab, m.s1cdmax))
<1>1. \A x \in {a, b, c} : x.do # "cmd" /\ x.smmu \in SMMUs  BY DEF Store
<1>2. StoreSteps(r, m) = (IF r.stage = "S1" THEN <<a>> ELSE <<>>) \o <<b, c>>  BY DEF StoreSteps
<1> HIDE DEF a, b, c
<1>3. Listed(<<b, c>>)
  <2>1. <<b, c>> \in Seq({a, b, c})  OBVIOUS
  <2>2. \A i \in DOMAIN <<b, c>> : <<b, c>>[i] \in {a, b, c}  OBVIOUS
  <2> QED  BY Zenon, <1>1, <2>1, <2>2, NoCommands
<1>4. Listed(<<a>>) /\ Listed(<<>>)  BY <1>1, OneListed, NothingListed
<1>5. Listed(StoreSteps(r, m))  BY <1>2, <1>3, <1>4, JoinListed
<1> QED  BY <1>5, InvalidationListed, JoinListed DEF MapSteps

-----------------------------------------------------------------------------
(* The context descriptor tables: a list of steps that stores no entry     *)
(* which q does not.                                                       *)
Among(p, q) == \A k \in DOMAIN p : p[k].do = "ste" => \E l \in DOMAIN q : p[k] = q[l]

LEMMA JoinAmong ==
  ASSUME NEW p, NEW r, NEW q, Listed(p), Listed(r), Among(p, q), Among(r, q)
  PROVE  Among(p \o r, q)
<1>1. PICK S : p \in Seq(S)  BY DEF Listed
<1>2. PICK T : r \in Seq(T)  BY DEF Listed
<1> DEFINE b == p \o r
<1>3. /\ DOMAIN p = 1 .. Len(p) /\ DOMAIN r = 1 .. Len(r) /\ DOMAIN b = 1 .. Len(p) + Len(r)
      /\ \A k \in 1 .. Len(p) + Len(r) : b[k] = IF k <= Len(p) THEN p[k] ELSE r[k - Len(p)]
      /\ Len(p) \in Nat /\ Len(r) \in Nat
  BY <1>1, <1>2
<1> HIDE DEF b
<1>4. \A k \in DOMAIN b : (k \in DOMAIN p /\ b[k] = p[k]) \/ (k - Len(p) \in DOMAIN r /\ b[k] = r[k - Len(p)])
  BY <1>3
<1>5. Among(b, q)  BY <1>4 DEF Among
<1> QED  BY <1>5 DEF b

LEMMA LastAmong ==
  ASSUME NEW q, Listed(q), NEW n \in 1 .. Len(q)
  PROVE  Among(SubSeq(q, n, Len(q)), q)
<1>1. PICK S : q \in Seq(S)  BY DEF Listed
<1> DEFINE r == SubSeq(q, n, Len(q))
<1>2. /\ Len(q) \in Nat /\ n \in Nat /\ DOMAIN q = 1 .. Len(q) /\ DOMAIN r = 1 .. Len(q) - n + 1
      /\ \A i \in 1 .. Len(q) - n + 1 : r[i] = q[n + i - 1]
  BY <1>1
<1> HIDE DEF r
<1>3. \A i \in DOMAIN r : n + i - 1 \in DOMAIN q /\ r[i] = q[n + i - 1]  BY <1>2
<1>4. Among(r, q)  BY <1>3 DEF Among
<1> QED  BY <1>4 DEF r

LEMMA TailAmong ==
  ASSUME NEW q, Listed(q), q # <<>>
  PROVE  Among(Tail(q), q)
<1>1. PICK S : q \in Seq(S)  BY DEF Listed
<1>2. /\ DOMAIN q = 1 .. Len(q) /\ DOMAIN Tail(q) = 1 .. Len(q) - 1 /\ Len(q) \in Nat
      /\ \A i \in 1 .. Len(q) - 1 : Tail(q)[i] = q[i + 1]
  BY <1>1
<1>3. \A i \in DOMAIN Tail(q) : i + 1 \in DOMAIN q /\ Tail(q)[i] = q[i + 1]  BY <1>2
<1> QED  BY <1>3 DEF Among

LEMMA NothingAmong == ASSUME NEW q PROVE Among(<<>>, q)
BY DEF Among

LEMMA OneAmong ==
  ASSUME NEW q, NEW x, x.do # "ste"
  PROVE  Among(<<x>>, q)
<1>1. \A i \in DOMAIN <<x>> : <<x>>[i] = x  OBVIOUS
<1> QED  BY <1>1 DEF Among

LEMMA InvalidationAmong ==
  ASSUME NEW s \in SMMUs, NEW q
  PROVE  Among(smmu_tlbi_cfgi(s), q)
<1> DEFINE a == Cmd(s, "CFGI_ALL")
           b == Cmd(s, "TLBI_EL2_ALL")
           c == Cmd(s, "TLBI_NSNH_ALL")
           d == Cmd(s, "CMD_SYNC")
           e == Step("poll", s)
<1>1. \A x \in {a, b, c, d, e} : x.do # "ste"  BY DEF Cmd, Step
<1>2. smmu_tlbi_cfgi(s) = <<a>> \o (IF Hw(s).hyp THEN <<b>> ELSE <<>>) \o <<c, d, e>>
  BY DEF smmu_tlbi_cfgi
<1> HIDE DEF a, b, c, d, e
<1>3. Among(<<a>> \o <<b>> \o <<c, d, e>>, q)
  <2> DEFINE p == <<a>> \o <<b>> \o <<c, d, e>>
  <2>1. DOMAIN p = 1 .. 5 /\ p[1] = a /\ p[2] = b /\ p[3] = c /\ p[4] = d /\ p[5] = e  OBVIOUS
  <2> HIDE DEF p
  <2>2. \A i \in 1 .. 5 : i = 1 \/ i = 2 \/ i = 3 \/ i = 4 \/ i = 5  OBVIOUS
  <2>3. Among(p, q)  BY <1>1, <2>1, <2>2 DEF Among
  <2> QED  BY <2>3 DEF p
<1>4. Among(<<a>> \o <<>> \o <<c, d, e>>, q)
  <2> DEFINE p == <<a>> \o <<>> \o <<c, d, e>>
  <2>1. DOMAIN p = 1 .. 4 /\ p[1] = a /\ p[2] = c /\ p[3] = d /\ p[4] = e  OBVIOUS
  <2> HIDE DEF p
  <2>2. \A i \in 1 .. 4 : i = 1 \/ i = 2 \/ i = 3 \/ i = 4  OBVIOUS
  <2>3. Among(p, q)  BY <1>1, <2>1, <2>2 DEF Among
  <2> QED  BY <2>3 DEF p
<1> QED  BY Zenon, <1>2, <1>3, <1>4

LEMMA ResetAmong ==
  ASSUME NEW s \in SMMUs, NEW q
  PROVE  Among(smmu_reset(s), q)
<1> DEFINE a == Cr0(s, {}, "skip")
           b == Step("program", s)
           c == Cr0(s, {"CMDQEN"}, "skip")
           d == Cr0(s, {"CMDQEN", "SMMUEN"}, "skip")
<1>1. \A x \in {a, b, c, d} : x.do # "ste" /\ x.do # "cmd" /\ x.smmu \in SMMUs  BY DEF Cr0, Step
<1>2. smmu_reset(s) = <<a, b, c>> \o smmu_tlbi_cfgi(s) \o <<d>>  BY DEF smmu_reset
<1> HIDE DEF a, b, c, d
<1>3. Listed(<<a, b, c>>) /\ Among(<<a, b, c>>, q)
  <2>1. <<a, b, c>> \in Seq({a, b, c, d})  OBVIOUS
  <2>2. \A i \in DOMAIN <<a, b, c>> : <<a, b, c>>[i] \in {a, b, c, d}  OBVIOUS
  <2>3. Among(<<a, b, c>>, q)  BY <1>1, <2>2 DEF Among
  <2> QED  BY Zenon, <1>1, <2>1, <2>2, <2>3, NoCommands
<1>4. Listed(<<d>>) /\ Among(<<d>>, q)  BY <1>1, OneListed, OneAmong
<1>5. Listed(<<a, b, c>> \o smmu_tlbi_cfgi(s))  BY <1>3, InvalidationListed, JoinListed
<1>6. Among(<<a, b, c>> \o smmu_tlbi_cfgi(s), q)
  BY <1>3, InvalidationListed, InvalidationAmong, JoinAmong
<1> QED  BY <1>2, <1>4, <1>5, <1>6, JoinAmong

\* val_smmu_map stores an entry for its own stream, that points to the table of
\* the master.
LEMMA MapStores ==
  ASSUME NEW r, NEW m, r.smmu \in SMMUs, NEW k \in DOMAIN MapSteps(r, m)
  PROVE  LET h == MapSteps(r, m)[k]
         IN  h.do = "ste" /\ h.val.config = "S1" =>
               h.smmu = r.smmu /\ h.sid = r.sid /\ h.val.tab = m.tab /\ r.stage # "S2"
<1> DEFINE a == [do |-> "cd", smmu |-> r.smmu, tab |-> m.tab, ssid |-> m.ssid, val |-> r.pgt]
           b == Store(r, Torn)
           c == Store(r, IF r.stage = "S2" THEN S2(r.pgt) ELSE S1(m.tab, m.s1cdmax))
           q == <<b, c>>
<1>1. /\ a.do = "cd" /\ b.do = "ste" /\ b.val.config = "torn" /\ c.do = "ste"
      /\ c.val.config = "S1" => c.smmu = r.smmu /\ c.sid = r.sid /\ c.val.tab = m.tab /\ r.stage # "S2"
  BY DEF Store, Torn, S1, S2
<1>2. StoreSteps(r, m) = (IF r.stage = "S1" THEN <<a>> ELSE <<>>) \o <<b, c>>  BY DEF StoreSteps
<1>3. a.smmu \in SMMUs /\ b.smmu \in SMMUs /\ c.smmu \in SMMUs  BY DEF Store
<1> HIDE DEF a, b, c
<1>4. Listed(<<b, c>>) /\ Among(<<b, c>>, q)
  <2>1. <<b, c>> \in Seq({b, c})  OBVIOUS
  <2>2. \A i \in DOMAIN <<b, c>> : <<b, c>>[i] \in {b, c}  OBVIOUS
  <2>3. Among(<<b, c>>, q)  BY DEF Among
  <2> QED  BY Zenon, <1>1, <1>3, <2>1, <2>2, <2>3, NoCommands
<1>5. Listed(<<a>>) /\ Among(<<a>>, q) /\ Listed(<<>>) /\ Among(<<>>, q)
  BY <1>1, <1>3, OneListed, NothingListed, OneAmong, NothingAmong
<1>6. Listed(StoreSteps(r, m)) /\ Among(StoreSteps(r, m), q)
  <2> HIDE DEF q
  <2> QED  BY <1>2, <1>4, <1>5, JoinListed, JoinAmong
<1>7. Among(MapSteps(r, m), q)
  <2> HIDE DEF q
  <2> QED  BY <1>6, InvalidationListed, InvalidationAmong, JoinAmong DEF MapSteps
<1>8. MapSteps(r, m)[k].do = "ste" => MapSteps(r, m)[k] \in {b, c}
  <2>1. \A l \in DOMAIN q : q[l] \in {b, c}  OBVIOUS
  <2> HIDE DEF q
  <2> QED  BY <1>7, <2>1 DEF Among
<1> QED  BY <1>1, <1>8

-----------------------------------------------------------------------------
(* The list of masters.                                                    *)
LEMMA MinOf ==
  ASSUME NEW T \in SUBSET Nat, T # {}
  PROVE  Min(T) \in T /\ \A y \in T : Min(T) <= y
<1> DEFINE R == OpToRel(<, Nat)
<1>1. R = {p \in Nat \X Nat : p[1] < p[2]}  BY DEF OpToRel
<1>2. IsWellFoundedOn(R, Nat)  BY Zenon, NatLessThanWellFounded
<1> HIDE DEF R
<1>3. PICK x \in T : \A y \in T : ~(<<y, x>> \in R)  BY Zenon, <1>2, WFMin
<1>4. ASSUME NEW y \in T PROVE x <= y
  <2>1. x \in Nat /\ y \in Nat  OBVIOUS
  <2>2. ~(<<y, x>> \in R)  BY <1>3
  <2>3. y < x => <<y, x>> \in R  BY <1>1, <2>1
  <2> QED  BY <2>1, <2>2, <2>3
<1>5. \E z \in T : \A y \in T : z <= y  BY <1>4
<1> QED  BY Zenon, <1>5 DEF Min

LEMMA MoreTables ==
  ASSUME NEW T, NEW U, T \subseteq U, masters \in Seq(Master(T))
  PROVE  masters \in Seq(Master(U))
<1>1. \A i \in DOMAIN masters : masters[i] \in Master(U)
  <2>1. \A i \in DOMAIN masters : masters[i] \in Master(T)  OBVIOUS
  <2>2. Master(T) \subseteq Master(U)  BY DEF Master
  <2> QED  BY <2>1, <2>2
<1>2. DOMAIN masters = 1 .. Len(masters) /\ Len(masters) \in Nat /\ masters = [i \in 1 .. Len(masters) |-> masters[i]]
  OBVIOUS
<1> QED  BY <1>1, <1>2

\* The node that smmu_master_at returns: the first with the stream id, or a new
\* one at the head.
LEMMA MasterAt ==
  ASSUME NEW T, masters \in Seq(Master(T)), 0 \in T, NEW sid
  PROVE  LET found == smmu_master_at(sid)
         IN  /\ found.list \in Seq(Master(T)) /\ found.at \in DOMAIN found.list
             /\ Known(sid) => /\ found.list = masters /\ found.at \in DOMAIN masters
                              /\ masters[found.at].sid = sid
             /\ ~Known(sid) => found.list = <<Zero>> \o masters /\ found.at = 1
<1>1. CASE Known(sid)
  <2> DEFINE I == {i \in DOMAIN masters : masters[i].sid = sid}
  <2>1. DOMAIN masters = 1 .. Len(masters) /\ Len(masters) \in Nat  OBVIOUS
  <2>2. I \in SUBSET Nat /\ I # {}  BY <1>1, <2>1 DEF Known
  <2>3. Min(I) \in I  BY <2>2, MinOf
  <2> QED  BY <1>1, <2>3 DEF smmu_master_at
<1>2. CASE ~Known(sid)
  <2>1. Zero \in Master(T)  BY DEF Zero, Master, None
  <2>2. <<Zero>> \o masters \in Seq(Master(T)) /\ 1 \in DOMAIN (<<Zero>> \o masters)  BY <2>1
  <2> QED  BY <1>2, <2>2 DEF smmu_master_at
<1> QED  BY <1>1, <1>2

\* What a call of val_smmu_map makes of a master is a master.
LEMMA MasterAfterType ==
  ASSUME NEW T, NEW r \in sc.maps, sc \in Scenarios, NEW m \in Master(T), NEW t \in T, NEW reached
  PROVE  MasterAfter(r, m, t, reached) \in Master(T)
<1>1. r.ssid \in Nat  BY SmmuAssumption
<1> QED  BY ZenonT(30), <1>1 DEF MasterAfter, Master

-----------------------------------------------------------------------------
(* What the calls do to the list of masters.                               *)

\* The j-th node of a list of masters has the table t; where tables are freed at
\* all, it is the node that val_smmu_unmap finds for stream i of SMMU s.
Owner(M, j, s, i, t) ==
  /\ M[j].tab = t /\ t # 0
  /\ sc.unmaps # {} => M[j].smmu = s /\ M[j].sid = i
Owned(M, s, i, t) == \E j \in DOMAIN M : Owner(M, j, s, i, t)

\* The allocated tables L and the nodes with a table are in step, and a node is
\* used for a stream that some call maps, on an SMMU the driver believes in.
MastersOk(M, L) ==
  /\ \A j \in DOMAIN M :
       /\ M[j].tab # 0 => M[j].tab \in L /\ M[j].smmu # 0
       /\ M[j].smmu # 0 => Hw(M[j].smmu).v3 /\ \E r \in sc.maps : r.sid = M[j].sid /\ r.smmu = M[j].smmu
       /\ M[j].tab # 0 => \A l \in DOMAIN M : M[l].tab = M[j].tab => l = j
  /\ \A t \in L : \E j \in DOMAIN M : M[j].tab = t

\* A node that smmu_master_at adds at the head is nobody's owner.
LEMMA Prepended ==
  ASSUME NEW T, NEW M \in Seq(Master(T)), NEW L, MastersOk(M, L), 0 \notin L
  PROVE  /\ MastersOk(<<Zero>> \o M, L)
         /\ \A s, i, t : Owned(M, s, i, t) => Owned(<<Zero>> \o M, s, i, t)
<1> DEFINE N == <<Zero>> \o M
<1>1. /\ DOMAIN M = 1 .. Len(M) /\ Len(M) \in Nat /\ DOMAIN N = 1 .. Len(M) + 1 /\ N[1] = Zero
      /\ \A k \in 1 .. Len(M) : N[k + 1] = M[k]
  OBVIOUS
<1> HIDE DEF N
<1>2. Zero.tab = 0 /\ Zero.smmu = 0  BY DEF Zero
<1>3. \A j \in DOMAIN N : j = 1 \/ (j - 1 \in DOMAIN M /\ N[j] = M[j - 1])
  <2>1. SUFFICES ASSUME NEW j \in DOMAIN N, j # 1 PROVE j - 1 \in DOMAIN M /\ N[j] = M[j - 1]  OBVIOUS
  <2>2. j - 1 \in 1 .. Len(M) /\ (j - 1) + 1 = j  BY <1>1, <2>1
  <2> QED  BY <1>1, <2>2
<1>4. \A k \in DOMAIN M : k + 1 \in DOMAIN N /\ N[k + 1] = M[k]  BY <1>1
<1>5. ASSUME NEW j \in DOMAIN N
      PROVE  /\ N[j].tab # 0 => N[j].tab \in L /\ N[j].smmu # 0
             /\ N[j].smmu # 0 => Hw(N[j].smmu).v3 /\ \E r \in sc.maps : r.sid = N[j].sid /\ r.smmu = N[j].smmu
             /\ N[j].tab # 0 => \A l \in DOMAIN N : N[l].tab = N[j].tab => l = j
  <2>1. CASE j = 1  BY <1>1, <1>2, <2>1
  <2>2. CASE j # 1
    <3>1. j - 1 \in DOMAIN M /\ N[j] = M[j - 1]  BY <1>3, <2>2
    <3>2. /\ N[j].tab # 0 => N[j].tab \in L /\ N[j].smmu # 0
          /\ N[j].smmu # 0 => Hw(N[j].smmu).v3 /\ \E r \in sc.maps : r.sid = N[j].sid /\ r.smmu = N[j].smmu
      BY <3>1 DEF MastersOk
    <3>3. ASSUME N[j].tab # 0, NEW l \in DOMAIN N, N[l].tab = N[j].tab PROVE l = j
      <4>1. l # 1  BY <1>1, <1>2, <3>3
      <4>2. l - 1 \in DOMAIN M /\ N[l] = M[l - 1]  BY <1>3, <4>1
      <4>3. l - 1 = j - 1  BY <3>1, <3>3, <4>2 DEF MastersOk
      <4> QED  BY <1>1, <4>3
    <3> QED  BY <3>2, <3>3
  <2> QED  BY <2>1, <2>2
<1>6. \A t \in L : \E j \in DOMAIN N : N[j].tab = t
  <2> SUFFICES ASSUME NEW t \in L PROVE \E j \in DOMAIN N : N[j].tab = t  OBVIOUS
  <2>1. PICK k \in DOMAIN M : M[k].tab = t  BY DEF MastersOk
  <2> QED  BY <1>4, <2>1
<1>7. MastersOk(N, L)  BY <1>5, <1>6 DEF MastersOk
<1>8. ASSUME NEW s, NEW i, NEW t, Owned(M, s, i, t) PROVE Owned(N, s, i, t)
  <2>1. PICK j \in DOMAIN M : Owner(M, j, s, i, t)  BY <1>8 DEF Owned
  <2>2. j + 1 \in DOMAIN N /\ N[j + 1] = M[j]  BY <1>4
  <2>3. Owner(N, j + 1, s, i, t)  BY <2>1, <2>2 DEF Owner
  <2> QED  BY <2>2, <2>3 DEF Owned
<1> QED  BY <1>7, <1>8 DEF N

\* val_smmu_map takes a node that is free, or one of the same stream, and gives
\* it a table of its own unless it has one.
LEMMA Updated ==
  ASSUME NEW T, NEW M \in Seq(Master(T)), NEW L, MastersOk(M, L), 0 \notin L,
         NEW at \in DOMAIN M, NEW n, n.smmu # 0, Hw(n.smmu).v3,
         \E r \in sc.maps : r.sid = n.sid /\ r.smmu = n.smmu,
         M[at].smmu # 0 => n.smmu = M[at].smmu /\ n.sid = M[at].sid,
         n.tab = M[at].tab \/ (M[at].tab = 0 /\ n.tab \notin L)
  PROVE  /\ MastersOk([M EXCEPT ![at] = n], L \cup ({n.tab} \ {0}))
         /\ \A s, i, t : Owned(M, s, i, t) => Owned([M EXCEPT ![at] = n], s, i, t)
         /\ n.tab # 0 => Owned([M EXCEPT ![at] = n], n.smmu, n.sid, n.tab)
<1> DEFINE N == [M EXCEPT ![at] = n]
           K == L \cup ({n.tab} \ {0})
<1>1. DOMAIN N = DOMAIN M /\ N[at] = n /\ \A j \in DOMAIN M : j # at => N[j] = M[j]  OBVIOUS
<1>2. n.tab # 0 => n.tab \in K  OBVIOUS
<1>3. L \subseteq K /\ (K = L \/ (n.tab \notin L /\ K = L \cup {n.tab}))  OBVIOUS
<1> HIDE DEF N, K
<1>4. \A j \in DOMAIN M : j # at /\ M[j].tab # 0 => M[j].tab # n.tab
  <2> SUFFICES ASSUME NEW j \in DOMAIN M, j # at, M[j].tab # 0, M[j].tab = n.tab PROVE FALSE  OBVIOUS
  <2>1. M[j].tab \in L  BY DEF MastersOk
  <2>2. M[j].tab # M[at].tab  BY DEF MastersOk
  <2> QED  BY <2>1, <2>2
<1>5. ASSUME NEW j \in DOMAIN N
      PROVE  /\ N[j].tab # 0 => N[j].tab \in K /\ N[j].smmu # 0
             /\ N[j].smmu # 0 => Hw(N[j].smmu).v3 /\ \E r \in sc.maps : r.sid = N[j].sid /\ r.smmu = N[j].smmu
             /\ N[j].tab # 0 => \A l \in DOMAIN N : N[l].tab = N[j].tab => l = j
  <2>1. CASE j = at
    <3>1. N[j] = n  BY <1>1, <2>1
    <3>2. ASSUME n.tab # 0, NEW l \in DOMAIN N, N[l].tab = n.tab PROVE l = at
      BY <1>1, <1>4, <3>2
    <3> QED  BY <1>2, <2>1, <3>1, <3>2
  <2>2. CASE j # at
    <3>1. N[j] = M[j] /\ j \in DOMAIN M  BY <1>1, <2>2
    <3>2. /\ N[j].tab # 0 => N[j].tab \in K /\ N[j].smmu # 0
          /\ N[j].smmu # 0 => Hw(N[j].smmu).v3 /\ \E r \in sc.maps : r.sid = N[j].sid /\ r.smmu = N[j].smmu
      BY <1>3, <3>1 DEF MastersOk
    <3>3. ASSUME N[j].tab # 0, NEW l \in DOMAIN N, N[l].tab = N[j].tab PROVE l = j
      <4>1. CASE l = at  BY <1>1, <1>4, <2>2, <3>1, <3>3, <4>1
      <4>2. CASE l # at
        <5>1. N[l] = M[l] /\ l \in DOMAIN M  BY <1>1, <3>3, <4>2
        <5> QED  BY <3>1, <3>3, <5>1 DEF MastersOk
      <4> QED  BY <4>1, <4>2
    <3> QED  BY <3>2, <3>3
  <2> QED  BY <2>1, <2>2
<1>6. ASSUME NEW t \in K PROVE \E j \in DOMAIN N : N[j].tab = t
  <2>1. CASE t = n.tab  BY <1>1, <2>1
  <2>2. CASE t # n.tab
    <3>1. t \in L /\ t # 0  BY <1>3, <2>2
    <3>2. PICK j \in DOMAIN M : M[j].tab = t  BY <3>1 DEF MastersOk
    <3>3. j # at  BY <2>2, <3>1, <3>2
    <3> QED  BY <1>1, <3>2, <3>3
  <2> QED  BY <2>1, <2>2
<1>7. MastersOk(N, K)  BY <1>5, <1>6 DEF MastersOk
<1>8. ASSUME NEW s, NEW i, NEW t, Owned(M, s, i, t) PROVE Owned(N, s, i, t)
  <2>1. PICK j \in DOMAIN M : Owner(M, j, s, i, t)  BY <1>8 DEF Owned
  <2>2. CASE j # at
    <3>1. Owner(N, j, s, i, t)  BY <1>1, <2>1, <2>2 DEF Owner
    <3> QED  BY <1>1, <3>1 DEF Owned
  <2>3. CASE j = at
    <3>1. M[at].tab = t /\ t # 0 /\ (sc.unmaps # {} => M[at].smmu = s /\ M[at].sid = i)
      BY <2>1, <2>3 DEF Owner
    <3>2. M[at].smmu # 0  BY <3>1 DEF MastersOk
    <3>3. n.tab = t /\ n.smmu = M[at].smmu /\ n.sid = M[at].sid  BY <3>1, <3>2
    <3>4. Owner(N, at, s, i, t)  BY <1>1, <3>1, <3>3 DEF Owner
    <3> QED  BY <1>1, <3>4 DEF Owned
  <2> QED  BY <2>2, <2>3
<1>9. n.tab # 0 => Owned(N, n.smmu, n.sid, n.tab)
  <2>1. n.tab # 0 => Owner(N, at, n.smmu, n.sid, n.tab)  BY <1>1 DEF Owner
  <2> QED  BY <1>1, <2>1 DEF Owned
<1> QED  BY Zenon, <1>7, <1>8, <1>9 DEF N, K

\* val_smmu_unmap clears a node and frees its table: the other streams keep theirs.
LEMMA Cleared ==
  ASSUME NEW T, NEW M \in Seq(Master(T)), NEW L, MastersOk(M, L), 0 \notin L, NEW at \in DOMAIN M,
         sc.unmaps # {}
  PROVE  /\ MastersOk([M EXCEPT ![at] = Zero], L \ {M[at].tab})
         /\ \A s, i, t : Owned(M, s, i, t) /\ ~(s = M[at].smmu /\ i = M[at].sid)
                           => Owned([M EXCEPT ![at] = Zero], s, i, t)
<1> DEFINE N == [M EXCEPT ![at] = Zero]
           K == L \ {M[at].tab}
<1>1. DOMAIN N = DOMAIN M /\ N[at] = Zero /\ \A j \in DOMAIN M : j # at => N[j] = M[j]  OBVIOUS
<1>2. \A t : t \in K <=> t \in L /\ t # M[at].tab  OBVIOUS
<1>3. Zero.tab = 0 /\ Zero.smmu = 0  BY DEF Zero
<1> HIDE DEF N, K
<1>4. ASSUME NEW j \in DOMAIN N
      PROVE  /\ N[j].tab # 0 => N[j].tab \in K /\ N[j].smmu # 0
             /\ N[j].smmu # 0 => Hw(N[j].smmu).v3 /\ \E r \in sc.maps : r.sid = N[j].sid /\ r.smmu = N[j].smmu
             /\ N[j].tab # 0 => \A l \in DOMAIN N : N[l].tab = N[j].tab => l = j
  <2>1. CASE j = at  BY <1>1, <1>3, <2>1
  <2>2. CASE j # at
    <3>1. N[j] = M[j] /\ j \in DOMAIN M  BY <1>1, <2>2
    <3>2. M[j].tab # 0 => M[j].tab \in L /\ M[j].tab # M[at].tab  BY <2>2, <3>1 DEF MastersOk
    <3>3. /\ N[j].tab # 0 => N[j].smmu # 0
          /\ N[j].smmu # 0 => Hw(N[j].smmu).v3 /\ \E r \in sc.maps : r.sid = N[j].sid /\ r.smmu = N[j].smmu
      BY <3>1 DEF MastersOk
    <3>4. ASSUME N[j].tab # 0, NEW l \in DOMAIN N, N[l].tab = N[j].tab PROVE l = j
      <4>1. l # at  BY <1>1, <1>3, <3>4
      <4>2. N[l] = M[l] /\ l \in DOMAIN M  BY <1>1, <3>4, <4>1
      <4> QED  BY <3>1, <3>4, <4>2 DEF MastersOk
    <3> QED  BY <1>2, <3>1, <3>2, <3>3, <3>4
  <2> QED  BY <2>1, <2>2
<1>5. ASSUME NEW t \in K PROVE \E j \in DOMAIN N : N[j].tab = t
  <2>1. PICK j \in DOMAIN M : M[j].tab = t  BY <1>2, <1>5 DEF MastersOk
  <2>2. j # at  BY <1>2, <1>5, <2>1
  <2> QED  BY <1>1, <2>1, <2>2
<1>6. MastersOk(N, K)  BY <1>4, <1>5 DEF MastersOk
<1>7. ASSUME NEW s, NEW i, NEW t, Owned(M, s, i, t), ~(s = M[at].smmu /\ i = M[at].sid)
      PROVE  Owned(N, s, i, t)
  <2>1. PICK j \in DOMAIN M : Owner(M, j, s, i, t)  BY <1>7 DEF Owned
  <2>2. j # at  BY <1>7, <2>1 DEF Owner
  <2>3. Owner(N, j, s, i, t)  BY <1>1, <2>1, <2>2 DEF Owner
  <2> QED  BY <1>1, <2>3 DEF Owned
<1> QED  BY Zenon, <1>6, <1>7 DEF N, K

\* The node as val_smmu_map leaves it.
LEMMA NodeAfter ==
  ASSUME NEW T, NEW m \in Master(T), NEW r, r.stage \in {"S1", "S2"}, NEW t, NEW reached \in 0 .. 5
  PROVE  LET m2 == MasterAfter(r, m, t, reached)
         IN  /\ m2.smmu = m.smmu /\ m2.sid = m.sid
             /\ m2.tab = IF r.stage = "S1" /\ reached >= NoCd THEN t ELSE m.tab
<1> USE DEF NoStream, NoTable, NoCd
<1>1. CASE r.stage = "S2"  BY <1>1 DEF MasterAfter, Master
<1>2. CASE r.stage = "S1"
  <2>1. CASE reached < NoTable  BY <1>2, <2>1 DEF MasterAfter, Master
  <2>2. CASE reached = NoTable  BY <1>2, <2>2 DEF MasterAfter, Master
  <2>3. CASE reached >= NoCd  BY <1>2, <2>3 DEF MasterAfter, Master
  <2> QED  BY <2>1, <2>2, <2>3
<1> QED  BY <1>1, <1>2

LEMMA Reaches ==
  ASSUME NEW r, NEW m, NEW nomem
  PROVE  MapReaches(r, m, nomem) \in 0 .. 5
BY DEF MapReaches, Rejected, NoStage, NoStream, NoTable, NoCd, Mapped

\* There is a table left for the call that needs one.
LEMMA TypeStep ==
  ASSUME TypeInv, TodoInv, [Next]_vars
  PROVE  TypeInv' /\ sc' = sc
<1>1. sc' = sc
  BY ZenonT(30) DEF Next, Smmu, Driver, Tests, Ack, Consume, Fetch, smmu_init, smmu_reg_write_sync, Acked, AckTimeout, Program,
     smmu_cmdq_write_cmd, smmu_cmdq_poll_until_consumed, smmu_strtab_write_ste, smmu_cdtab_write_ctx_desc,
     smmu_dev_disable, smmu_free_strtab, Return, val_smmu_init, val_smmu_stop, smmu_set_state, val_smmu_map,
     val_smmu_unmap, vars
<1>2. SMMUs' = SMMUs /\ (\A T : Master(T)' = Master(T))  BY <1>1 DEF SMMUs, Master
<1>3. PICK T : masters \in Seq(Master(T))  BY DEF TypeInv
<1>4. SUFFICES base' \subseteq SMMUs /\ \E U : masters' \in Seq(Master(U))
  BY <1>1, <1>2 DEF TypeInv
<1>5. CASE smmu_init
  <2>1. todo # <<>> /\ Head(todo).smmu \in SMMUs  BY <1>5, TailListed DEF TodoInv, smmu_init, Running
  <2>2. masters' = masters /\ base' \subseteq base \cup {Head(todo).smmu}  BY Zenon, <1>5 DEF smmu_init
  <2> QED  BY ZenonT(30), <1>3, <2>1, <2>2 DEF TypeInv
<1>6. ASSUME NEW r \in sc.maps, val_smmu_map(r) PROVE base' = base /\ \E U : masters' \in Seq(Master(U))
  <2>1. base' = base  BY Zenon, <1>6 DEF val_smmu_map
  <2>2. CASE masters' = masters  BY <1>3, <2>1, <2>2
  <2>3. CASE masters' # masters
    <3> DEFINE found == smmu_master_at(r.sid)
               node  == found.list[found.at]
               m     == IF node.smmu # 0 THEN node
                        ELSE [node EXCEPT !.smmu = r.smmu, !.sid = r.sid, !.ssid_bits = r.ssid_bits]
               t     == IF m.tab # 0 THEN m.tab ELSE Fresh
               U     == T \cup {0, Fresh}
    <3>1. PICK reached : masters' = [found.list EXCEPT ![found.at] = MasterAfter(r, m, t, reached)]
      BY ZenonT(30), <1>6, <2>3 DEF val_smmu_map
    <3>2. r.smmu \in SMMUs  BY Zenon, <1>6, <2>3 DEF val_smmu_map, TypeInv
    <3>3. masters \in Seq(Master(U))  BY <1>3, MoreTables
    <3>4. found.list \in Seq(Master(U)) /\ found.at \in DOMAIN found.list
      <4> HIDE DEF U
      <4>1. 0 \in U  BY DEF U
      <4> QED  BY <3>3, <4>1, MasterAt
    <3> HIDE DEF found
    <3>5. node \in Master(U)  BY <3>4
    <3>6. {r.sid, r.ssid_bits} \subseteq Nat  BY SmmuAssumption DEF TypeInv
    <3>7. m \in Master(U)
      <4> HIDE DEF node
      <4> QED  BY ZenonT(30), <3>2, <3>5, <3>6 DEF Master
    <3>8. t \in U
      <4> HIDE DEF m
      <4> QED  BY <3>7 DEF Master
    <3>9. MasterAfter(r, m, t, reached) \in Master(U)
      <4> HIDE DEF m, t, U
      <4> QED  BY <3>7, <3>8, MasterAfterType DEF TypeInv
    <3>10. masters' \in Seq(Master(U))
      <4> HIDE DEF m, t, U
      <4> QED  BY <3>1, <3>4, <3>9
    <3> QED  BY <2>1, <3>10
  <2> QED  BY <2>2, <2>3
<1>7. ASSUME NEW r \in sc.unmaps, val_smmu_unmap(r) PROVE base' = base /\ \E U : masters' \in Seq(Master(U))
  <2>1. base' = base  BY Zenon, <1>7 DEF val_smmu_unmap
  <2> DEFINE found == smmu_master_at(r.sid)
             U     == T \cup {0}
  <2>2. \/ masters' = masters
        \/ masters' = found.list
        \/ masters' = [found.list EXCEPT ![found.at] = Zero]
    BY <1>7 DEF val_smmu_unmap
  <2>3. masters \in Seq(Master(U))  BY Zenon, <1>3, MoreTables
  <2>4. Zero \in Master(U)  BY DEF Zero, Master, None
  <2>5. found.list \in Seq(Master(U)) /\ found.at \in DOMAIN found.list
    <3> HIDE DEF U
    <3>1. 0 \in U  BY DEF U
    <3> QED  BY <2>3, <3>1, MasterAt
  <2> HIDE DEF found, U
  <2>6. masters' \in Seq(Master(U))  BY <2>2, <2>3, <2>4, <2>5
  <2> QED  BY Zenon, <2>1, <2>6
<1>8. ASSUME base' = base, masters' = masters
      PROVE  base' \subseteq SMMUs /\ \E U : masters' \in Seq(Master(U))
  BY Zenon, <1>3, <1>8 DEF TypeInv
<1> QED
  BY Zenon, <1>5, <1>6, <1>7, <1>8
     DEF Next, Smmu, Driver, Tests, Ack, Consume, Fetch, smmu_reg_write_sync, Acked, AckTimeout, Program,
     smmu_cmdq_write_cmd, smmu_cmdq_poll_until_consumed, smmu_strtab_write_ste, smmu_cdtab_write_ctx_desc,
     smmu_dev_disable, smmu_free_strtab, Return, val_smmu_init, val_smmu_stop, smmu_set_state,
     vars, drv, TypeInv

-----------------------------------------------------------------------------
(* The kinds of step.                                                     *)
queue == <<prod, cons, buf, pend>>

Polls ==
  /\ todo # <<>> /\ Head(todo).do = "poll" /\ todo' = Tail(todo) /\ call' = call
  /\ LET s == Head(todo).smmu IN smmu_queue_empty(prod[s], cons[s]) \/ ~sc.prompt
  /\ UNCHANGED queue

\* The running call goes on, and issues no command.
GoesOn ==
  /\ todo # <<>> /\ Head(todo).do \notin {"cmd", "poll"}
  /\ Listed(todo') /\ call' = call /\ UNCHANGED queue

Starts == call = Idle /\ call' # Idle /\ Listed(todo') /\ UNCHANGED queue

Rests == UNCHANGED <<todo, queue>> /\ (call' = call \/ todo = <<>>)

LEMMA StepKinds ==
  ASSUME TypeInv, TodoInv, [Next]_vars
  PROVE  \/ \E s \in SMMUs : Consume(s)
         \/ smmu_cmdq_write_cmd \/ Program \/ Polls \/ GoesOn \/ Starts \/ Rests
<1> USE DEF queue
<1>1. todo # <<>> => Listed(Tail(todo)) /\ Head(todo).smmu \in SMMUs  BY TailListed DEF TodoInv
<1>2. CASE \E s \in SMMUs : Ack(s) \/ Fetch(s)  BY <1>2 DEF Ack, Fetch, Rests, regs, hist
<1>3. CASE UNCHANGED vars  BY <1>3 DEF vars, Rests, regs, hist
<1>4. CASE Return  BY <1>4 DEF Return, Rests, regs
<1>5. CASE smmu_cmdq_poll_until_consumed
  BY Zenon, <1>5 DEF smmu_cmdq_poll_until_consumed, Polls, Running, Done, regs, hist
<1>6. CASE smmu_init
  <2>1. todo # <<>> /\ Head(todo).do = "init" /\ call' = call /\ UNCHANGED queue
    BY Zenon, <1>6 DEF smmu_init, Running, regs
  <2>2. Listed(smmu_reset(Head(todo).smmu) \o Tail(todo))  BY <1>1, <2>1, ResetListed, JoinListed
  <2>3. Listed(todo')  BY Zenon, <1>1, <1>6, <2>1, <2>2, NothingListed DEF smmu_init, Done
  <2> QED  BY ZenonT(30), <2>1, <2>3 DEF GoesOn
<1>7. CASE smmu_reg_write_sync
  <2> DEFINE h == Head(todo)
             x == [h EXCEPT !.do = "ack"]
  <2>1. todo # <<>> /\ h.do = "cr0" /\ todo' = <<x>> \o Tail(todo) /\ call' = call /\ UNCHANGED queue
    BY <1>7 DEF smmu_reg_write_sync, Running, hist
  <2>2. x.do # "cmd" /\ x.smmu \in SMMUs  BY <1>1, <2>1
  <2>3. Listed(todo')  BY Zenon, <1>1, <2>1, <2>2, OneListed, JoinListed
  <2> QED  BY <2>1, <2>3 DEF GoesOn
<1>8. CASE Acked
  BY <1>1, <1>8 DEF Acked, Running, Done, GoesOn, regs, hist
<1>9. CASE AckTimeout
  <2>1. todo # <<>> /\ Head(todo).do = "ack" /\ call' = call /\ UNCHANGED queue
    BY <1>9 DEF AckTimeout, Running, regs, hist
  <2> DEFINE next == {i \in DOMAIN todo : todo[i].smmu # Head(todo).smmu}
             n == Min(next)
  <2>2. \/ todo' = Tail(todo) \/ todo' = <<>>
        \/ next # {} /\ todo' = SubSeq(todo, n, Len(todo))
    BY Zenon, <1>9 DEF AckTimeout
  <2>3. PICK S : todo \in Seq(S)  BY DEF TodoInv, Listed
  <2>4. next # {} => n \in 1 .. Len(todo)
    <3>1. DOMAIN todo = 1 .. Len(todo)  BY <2>3
    <3>2. next \in SUBSET Nat  BY <3>1
    <3> QED  BY Zenon, <3>1, <3>2, MinOf
  <2>5. next # {} => Listed(SubSeq(todo, n, Len(todo)))
    <3> HIDE DEF next, n
    <3> QED  BY Zenon, <2>3, <2>4, LastSteps DEF TodoInv, Listed
  <2>6. Listed(todo')
    <3> HIDE DEF next, n
    <3> QED  BY Zenon, <1>1, <2>1, <2>2, <2>5, NothingListed
  <2> QED  BY <2>1, <2>6 DEF GoesOn
<1>10. CASE smmu_strtab_write_ste \/ smmu_cdtab_write_ctx_desc \/ smmu_free_strtab
  BY Zenon, <1>1, <1>10 DEF smmu_strtab_write_ste, smmu_cdtab_write_ctx_desc, smmu_free_strtab,
     Running, Done, GoesOn, regs, hist
<1>11. CASE smmu_dev_disable
  <2> DEFINE s == Head(todo).smmu
             a == Cr0(s, {}, "go")
             b == Step("free", s)
  <2>1. /\ todo # <<>> /\ Head(todo).do = "stop" /\ call' = call /\ UNCHANGED queue
        /\ todo' = (IF s \in base THEN <<a, b>> ELSE <<>>) \o Tail(todo)
    BY <1>11 DEF smmu_dev_disable, Running, regs, hist
  <2>2. \A x \in {a, b} : x.do # "cmd" /\ x.smmu \in SMMUs  BY <1>1, <2>1 DEF Cr0, Step
  <2>3. Listed(<<a, b>>)
    <3> HIDE DEF a, b
    <3>1. <<a, b>> \in Seq({a, b})  OBVIOUS
    <3>2. \A i \in DOMAIN <<a, b>> : <<a, b>>[i] \in {a, b}  OBVIOUS
    <3> QED  BY Zenon, <2>2, <3>1, <3>2, NoCommands
  <2>4. Listed(todo')
    <3> HIDE DEF a, b
    <3> QED  BY <1>1, <2>1, <2>3, NothingListed, JoinListed
  <2> QED  BY <2>1, <2>4 DEF GoesOn
<1>12. CASE val_smmu_init
  <2>1. Listed([s \in SMMUs |-> Step("init", s)])  BY Zenon, RoundsListed DEF TypeInv
  <2>2. Listed(<<>>)  BY NothingListed
  <2> QED  BY <1>12, <2>1, <2>2 DEF val_smmu_init, Ready, Call, Starts, Idle, regs, hist
<1>13. CASE val_smmu_stop
  <2>1. Listed([s \in SMMUs |-> Step("stop", s)])  BY Zenon, RoundsListed DEF TypeInv
  <2> QED  BY <1>13, <2>1 DEF val_smmu_stop, Ready, Call, Starts, Idle, regs, hist
<1>14. ASSUME NEW s \in SMMUs, NEW en, smmu_set_state(s, en) PROVE Starts
  <2>1. \A v : Listed(<<Cr0(s, v, "fail")>>)
    <3>1. \A v : Cr0(s, v, "fail").do # "cmd" /\ Cr0(s, v, "fail").smmu \in SMMUs  BY DEF Cr0
    <3> QED  BY <3>1, OneListed
  <2> QED  BY <1>14, <2>1, NothingListed DEF smmu_set_state, Ready, Call, Starts, Idle, regs, hist
<1>15. ASSUME NEW r \in sc.maps, val_smmu_map(r) PROVE Starts
  <2>1. call = Idle /\ UNCHANGED queue  BY Zenon, <1>15 DEF val_smmu_map, Ready, regs, hist
  <2>2. call' # Idle
    <3>1. call' = [op |-> "map", req |-> r] \/ \E w : call' = [op |-> "map", req |-> r, was |-> w]
      BY Zenon, <1>15 DEF val_smmu_map, Call
    <3>2. call'.op = "map" /\ Idle.op = "idle"  BY <3>1 DEF Idle
    <3> QED  BY <3>2
  <2>3. todo' = <<>> \/ (r.smmu \in SMMUs /\ \E m : todo' = MapSteps(r, m))
    BY Zenon, <1>15 DEF val_smmu_map, Call, TypeInv
  <2>4. Listed(todo')  BY <2>3, NothingListed, MapStepsListed
  <2> QED  BY <2>1, <2>2, <2>4 DEF Starts
<1>16. ASSUME NEW r \in sc.unmaps, val_smmu_unmap(r) PROVE Starts
  <2>1. call = Idle /\ UNCHANGED queue  BY ZenonT(30), <1>16 DEF val_smmu_unmap, Ready, regs, hist
  <2>2. call'.op = "unmap" /\ Idle.op # "unmap"
    <3>1. call' = [op |-> "unmap", req |-> r]  BY ZenonT(30), <1>16 DEF val_smmu_unmap, Call
    <3> QED  BY <3>1 DEF Idle
  <2> DEFINE m == smmu_master_at(r.sid).list[smmu_master_at(r.sid).at]
  <2>3. todo' = <<>> \/ (m.smmu # 0 /\ todo' = smmu_tlbi_cfgi(m.smmu))
    BY <1>16 DEF val_smmu_unmap, Call
  <2>4. m.smmu \in SMMUs \cup {0}
    <3>1. PICK T : masters \in Seq(Master(T))  BY DEF TypeInv
    <3>2. PICK U : U = T \cup {0}  BY Zenon
    <3>3. masters \in Seq(Master(U)) /\ 0 \in U  BY ZenonT(30), <3>1, <3>2, MoreTables
    <3>4. m \in Master(U)  BY <3>3, MasterAt
    <3> HIDE DEF m
    <3> QED  BY <3>4 DEF Master
  <2>5. Listed(todo')
    <3> HIDE DEF m
    <3> QED  BY <2>3, <2>4, NothingListed, InvalidationListed
  <2> QED  BY ZenonT(30), <2>1, <2>2, <2>5 DEF Starts
<1> QED
  BY ZenonT(30), <1>2, <1>3, <1>4, <1>5, <1>6, <1>7, <1>8, <1>9, <1>10, <1>11, <1>12, <1>13, <1>14, <1>15, <1>16
     DEF Next, Smmu, Driver, Tests

LEMMA TodoStep ==
  ASSUME TypeInv, TodoInv, [Next]_vars
  PROVE  TodoInv'
<1>1. sc' = sc  BY TypeStep
<1>2. SUFFICES Listed(todo') /\ (call' = Idle => todo' = <<>>)
  BY <1>1 DEF TodoInv, Listed, StepsOk, Polled, Ends, SMMUs
<1>3. todo # <<>> => Listed(Tail(todo))  BY TailListed DEF TodoInv
<1>4. CASE smmu_cmdq_write_cmd \/ Program \/ Polls
  BY Zenon, <1>3, <1>4 DEF smmu_cmdq_write_cmd, Program, Polls, Running, Done, TodoInv
<1>5. CASE \E s \in SMMUs : Consume(s)  BY <1>5 DEF Consume, TodoInv
<1>6. CASE GoesOn \/ Starts \/ Rests  BY <1>6 DEF GoesOn, Starts, Rests, TodoInv
<1> QED  BY <1>4, <1>5, <1>6, StepKinds

LEMMA StepInit ==
  ASSUME Init
  PROVE  TypeInv /\ TodoInv
<1>1. TypeInv
  <2>1. masters \in Seq(Master({}))  BY DEF Init
  <2> QED  BY <2>1 DEF Init, TypeInv
<1>2. TodoInv
  <2>1. todo = <<>> /\ <<>> \in Seq({}) /\ DOMAIN <<>> = {}  BY DEF Init
  <2> QED  BY <2>1 DEF TodoInv, Listed, StepsOk, Polled
<1> QED  BY <1>1, <1>2
=============================================================================
