-------------------------- MODULE SmmuV3TableProofs --------------------------
(***************************************************************************)
(* The context descriptor tables of the SMMUv3 driver, for any number of   *)
(* SMMUs and any calls of the tests: no table is freed that an SMMU can    *)
(* still read.                                                             *)
(***************************************************************************)
EXTENDS SmmuV3StepProofs, FiniteSetTheorems

-----------------------------------------------------------------------------
(* The inductive invariant.                                                *)

\* Stream tables with an entry for every stream.
Entries(f) == f = [s \in SMMUs |-> [i \in Sids(s) |-> f[s][i]]]

\* Every entry that points to a table, stored or about to be, has a node that
\* owns it.
OwnInv ==
  /\ tables \subseteq SMMUs /\ \A s \in base : Hw(s).v3
  /\ Entries(ste)
  /\ DOMAIN cd = 1 .. sc.calls /\ live \subseteq DOMAIN cd
  /\ IsFiniteSet(live) /\ left \in Nat /\ Cardinality(live) + left <= sc.calls
  /\ MastersOk(masters, live)
  /\ \A s \in SMMUs : \A i \in Sids(s) : ste[s][i].config = "S1" => Owned(masters, s, i, ste[s][i].tab)
  /\ \A k \in DOMAIN todo : todo[k].do = "ste" /\ todo[k].val.config = "S1"
                            => Owned(masters, todo[k].smmu, todo[k].sid, todo[k].val.tab)

-----------------------------------------------------------------------------
(* What the calls do to the tables.                                       *)

\* A call is one fewer to come.
LEMMA CallsLeft ==
  ASSUME TypeInv, OwnInv, left > 0, left' = left - 1
  PROVE  left' \in Nat /\ left \in Nat /\ Cardinality(live) \in Nat /\ sc.calls \in Nat
<1>1. sc.calls \in Nat  BY Zenon, SmmuAssumption DEF TypeInv
<1>2. Cardinality(live) \in Nat  BY Zenon, FS_CardinalityType DEF OwnInv
<1>3. left \in Nat  BY Zenon DEF OwnInv
<1> QED  BY <1>1, <1>2, <1>3

LEMMA NoSteps == DOMAIN <<>> = {}
OBVIOUS

\* There is a table left for the call that needs one.
LEMMA FreshTable ==
  ASSUME OwnInv, sc \in Scenarios, left > 0
  PROVE  Fresh \in DOMAIN cd /\ Fresh \notin live /\ Fresh # 0
<1>1. sc.calls \in Nat  BY SmmuAssumption
<1>2. DOMAIN cd = 1 .. sc.calls /\ IsFiniteSet(1 .. sc.calls) /\ Cardinality(1 .. sc.calls) = sc.calls
  BY <1>1, FS_Interval DEF OwnInv
<1>3. Cardinality(live) \in Nat /\ Cardinality(live) < sc.calls
  BY <1>1, FS_CardinalityType DEF OwnInv
<1>4. live # DOMAIN cd
  <2>1. live = DOMAIN cd => Cardinality(live) = sc.calls  BY <1>2
  <2> QED  BY <1>1, <1>3, <2>1
<1>5. PICK t \in DOMAIN cd : t \notin live  BY ZenonT(30), <1>4 DEF OwnInv
<1>6. t # 0  BY <1>2, <1>5
<1>7. \A m \in Range(masters) : m.tab # t  BY <1>5, <1>6 DEF OwnInv, MastersOk, Range
<1>8. Fresh \in DOMAIN cd /\ Fresh \notin live  BY <1>5, <1>7 DEF Fresh
<1> QED  BY <1>2, <1>8

\* The stream that a call maps can be unmapped: its SMMU has a stream table of
\* one level, and no other SMMU has a device with the same stream id. A test that
\* unmaps relies on both, for smmu_master_at looks for the stream id alone and
\* val_smmu_unmap clears no entry of a table in two levels.
Unmappable(c) ==
  c.unmaps # {} =>
    \A r \in c.maps : c.hw[r.smmu].v3 =>
      /\ ~c.hw[r.smmu].two_level
      /\ \A q \in c.maps : c.hw[q.smmu].v3 /\ q.sid = r.sid => q.smmu = r.smmu

\* The steps that neither allocate nor free a table nor store an entry.
Keeps ==
  /\ UNCHANGED <<ste, masters, live>> /\ DOMAIN cd' = DOMAIN cd
  /\ left' \in Nat /\ left' <= left
  /\ tables' \subseteq SMMUs /\ base' = base /\ Among(todo', todo)

LEMMA OwnKinds ==
  ASSUME TypeInv, TodoInv, OwnInv, [Next]_vars
  PROVE  \/ Keeps \/ smmu_init \/ smmu_strtab_write_ste
         \/ \E r \in sc.maps : val_smmu_map(r)
         \/ \E r \in sc.unmaps : val_smmu_unmap(r)
<1>1. /\ left \in Nat /\ tables \subseteq SMMUs /\ Among(todo, todo)
      /\ todo # <<>> => Listed(Tail(todo)) /\ Head(todo).smmu \in SMMUs /\ Among(Tail(todo), todo)
  BY TailListed, TailAmong DEF OwnInv, TodoInv, Among
<1>2. CASE \E s \in SMMUs : Ack(s) \/ Consume(s) \/ Fetch(s)
  BY <1>1, <1>2 DEF Ack, Consume, Fetch, drv, Keeps
<1>3. CASE UNCHANGED vars  BY <1>1, <1>3 DEF vars, drv, Keeps
<1>4. CASE Return  BY <1>1, <1>4 DEF Return, Keeps
<1>5. CASE smmu_cmdq_poll_until_consumed \/ smmu_cmdq_write_cmd \/ Acked
  <2>1. todo # <<>> /\ todo' = Tail(todo) /\ UNCHANGED <<ste, masters, live, cd, left, tables, base>>
    BY <1>5 DEF smmu_cmdq_poll_until_consumed, smmu_cmdq_write_cmd, Acked, Running, Done, drv
  <2>2. Among(todo', todo)  BY <1>1, <2>1
  <2> QED  BY <1>1, <2>1, <2>2 DEF Keeps
<1>6. CASE Program \/ smmu_free_strtab
  <2>1. /\ todo # <<>> /\ todo' = Tail(todo) /\ UNCHANGED <<ste, masters, live, cd, left, base>>
        /\ tables' \subseteq tables
    BY <1>6 DEF Program, smmu_free_strtab, Running, Done
  <2>2. Among(todo', todo)  BY <1>1, <2>1
  <2> QED  BY <1>1, <2>1, <2>2 DEF Keeps
<1>7. CASE smmu_reg_write_sync
  <2> DEFINE h == Head(todo)
             x == [h EXCEPT !.do = "ack"]
  <2>1. /\ todo # <<>> /\ h.do = "cr0" /\ todo' = <<x>> \o Tail(todo)
        /\ UNCHANGED <<ste, masters, live, cd, left, tables, base>>
    BY <1>7 DEF smmu_reg_write_sync, Running, drv
  <2>2. x.do # "cmd" /\ x.do # "ste" /\ x.smmu \in SMMUs  BY <1>1, <2>1
  <2>3. Among(todo', todo)
    <3> HIDE DEF h, x
    <3>1. Listed(<<x>>) /\ Among(<<x>>, todo)  BY <2>2, OneListed, OneAmong
    <3>2. Among(<<x>> \o Tail(todo), todo)  BY <1>1, <2>1, <3>1, JoinAmong
    <3> QED  BY <2>1, <3>2
  <2> QED  BY <1>1, <2>1, <2>3 DEF Keeps
<1>8. CASE AckTimeout
  <2>1. todo # <<>> /\ UNCHANGED <<ste, masters, live, cd, left, tables, base>>
    BY <1>8 DEF AckTimeout, Running, drv
  <2> DEFINE next == {i \in DOMAIN todo : todo[i].smmu # Head(todo).smmu}
             n == Min(next)
  <2>2. \/ todo' = Tail(todo) \/ todo' = <<>>
        \/ next # {} /\ todo' = SubSeq(todo, n, Len(todo))
    BY Zenon, <1>8 DEF AckTimeout
  <2>3. PICK S : todo \in Seq(S)  BY DEF TodoInv, Listed
  <2>4. next # {} => n \in 1 .. Len(todo)
    <3>1. DOMAIN todo = 1 .. Len(todo)  BY <2>3
    <3>2. next \in SUBSET Nat  BY <3>1
    <3> QED  BY Zenon, <3>1, <3>2, MinOf
  <2>5. Among(todo', todo)
    <3> HIDE DEF next, n
    <3> QED  BY Zenon, <1>1, <2>1, <2>2, <2>4, LastAmong, NothingAmong DEF TodoInv
  <2> QED  BY <1>1, <2>1, <2>5 DEF Keeps
<1>9. CASE smmu_cdtab_write_ctx_desc
  BY <1>1, <1>9 DEF smmu_cdtab_write_ctx_desc, Running, Done, Keeps
<1>10. CASE smmu_dev_disable
  <2> DEFINE s == Head(todo).smmu
             a == Cr0(s, {}, "go")
             b == Step("free", s)
  <2>1. /\ todo # <<>> /\ UNCHANGED <<ste, masters, live, cd, left, tables, base>>
        /\ todo' = (IF s \in base THEN <<a, b>> ELSE <<>>) \o Tail(todo)
    BY <1>10 DEF smmu_dev_disable, Running, drv
  <2>2. \A x \in {a, b} : x.do # "cmd" /\ x.do # "ste" /\ x.smmu \in SMMUs  BY <1>1, <2>1 DEF Cr0, Step
  <2>3. Listed(<<a, b>>) /\ Among(<<a, b>>, todo)
    <3> HIDE DEF a, b
    <3>1. <<a, b>> \in Seq({a, b})  OBVIOUS
    <3>2. \A i \in DOMAIN <<a, b>> : <<a, b>>[i] \in {a, b}  OBVIOUS
    <3>3. Among(<<a, b>>, todo)  BY <2>2, <3>2 DEF Among
    <3> QED  BY Zenon, <2>2, <3>1, <3>2, <3>3, NoCommands
  <2>4. Among(todo', todo)
    <3> HIDE DEF a, b
    <3> QED  BY <1>1, <2>1, <2>3, NothingListed, NothingAmong, JoinAmong
  <2> QED  BY <1>1, <2>1, <2>4 DEF Keeps
<1>11. ASSUME NEW kind, kind # "ste" PROVE Among([s \in SMMUs |-> Step(kind, s)], todo)
  BY <1>11 DEF Among, Step
<1>12. CASE val_smmu_init \/ val_smmu_stop
  <2>1. /\ left > 0 /\ left' = left - 1 /\ UNCHANGED <<ste, masters, live, cd, tables, base>>
        /\ \/ \E kind \in {"init", "stop"} : todo' = [s \in SMMUs |-> Step(kind, s)]
           \/ todo' = <<>>
    BY <1>12 DEF val_smmu_init, val_smmu_stop, Ready, Call, drv
  <2>2. Among(todo', todo)  BY <1>11, <2>1, NothingAmong
  <2>3. left' \in Nat /\ left' <= left  BY <1>1, <2>1
  <2> QED  BY <1>1, <2>1, <2>2, <2>3 DEF Keeps
<1>13. ASSUME NEW s \in SMMUs, NEW en, smmu_set_state(s, en) PROVE Keeps
  <2>1. \A v : Among(<<Cr0(s, v, "fail")>>, todo)
    <3>1. \A v : Cr0(s, v, "fail").do # "ste"  BY Zenon DEF Cr0
    <3> QED  BY <3>1, OneAmong
  <2> QED  BY <1>1, <1>13, <2>1, NothingAmong DEF smmu_set_state, Ready, Call, drv, Keeps
<1> QED
  BY <1>2, <1>3, <1>4, <1>5, <1>6, <1>7, <1>8, <1>9, <1>10, <1>12, <1>13 DEF Next, Smmu, Driver, Tests

\* The parts of OwnInv, in the next state of a step that leaves sc alone.
OwnNext ==
  /\ tables' \subseteq SMMUs /\ \A s \in base' : Hw(s).v3
  /\ Entries(ste')
  /\ DOMAIN cd' = 1 .. sc.calls /\ live' \subseteq DOMAIN cd'
  /\ IsFiniteSet(live') /\ left' \in Nat /\ Cardinality(live') + left' <= sc.calls
  /\ MastersOk(masters', live')
  /\ \A s \in SMMUs : \A i \in Sids(s) : ste'[s][i].config = "S1" => Owned(masters', s, i, ste'[s][i].tab)
  /\ \A k \in DOMAIN todo' : todo'[k].do = "ste" /\ todo'[k].val.config = "S1"
                             => Owned(masters', todo'[k].smmu, todo'[k].sid, todo'[k].val.tab)

\* The scenario stays, so this is what the invariant says of the next state.
LEMMA OwnPrimed ==
  ASSUME sc' = sc, OwnNext
  PROVE  OwnInv'
<1>1. SMMUs' = SMMUs /\ \A s : Hw(s)' = Hw(s)  BY DEF SMMUs, Hw
<1>2. \A s : Sids(s)' = Sids(s)  BY <1>1 DEF Sids
<1>3. MastersOk(masters, live)' = MastersOk(masters', live')  BY DEF MastersOk, Hw
<1>4. Entries(ste)' = Entries(ste')  BY <1>1, <1>2 DEF Entries
<1> QED  BY <1>1, <1>2, <1>3, <1>4 DEF OwnNext, OwnInv, Owned, Owner

LEMMA OwnMap ==
  ASSUME TypeInv, TodoInv, OwnInv, Unmappable(sc), NEW r \in sc.maps, val_smmu_map(r)
  PROVE  OwnNext
<1>1. /\ left > 0 /\ left' = left - 1 /\ tables' = tables /\ base' = base /\ ste' = ste
  BY ZenonT(30) DEF val_smmu_map, Ready, Call
<1>2. left' \in Nat /\ left \in Nat /\ Cardinality(live) \in Nat /\ sc.calls \in Nat
  BY Zenon, <1>1, CallsLeft
<1>3. 0 \notin live /\ DOMAIN cd = 1 .. sc.calls  BY <1>2 DEF OwnInv
<1>4. CASE todo' = <<>> /\ UNCHANGED <<masters, live, cd>>
  <2>1. Cardinality(live') + left' <= sc.calls  BY <1>1, <1>2, <1>4 DEF OwnInv
  <2>2. DOMAIN todo' = {}  BY Zenon, <1>4, NoSteps
  <2> QED  BY ZenonT(30), <1>1, <1>2, <1>4, <2>1, <2>2 DEF OwnInv, OwnNext
<1>5. CASE ~(todo' = <<>> /\ UNCHANGED <<masters, live, cd>>)
  <2> DEFINE found == smmu_master_at(r.sid)
             node  == found.list[found.at]
             m     == IF node.smmu # 0 THEN node
                      ELSE [node EXCEPT !.smmu = r.smmu, !.sid = r.sid, !.ssid_bits = r.ssid_bits]
             t     == IF m.tab # 0 THEN m.tab ELSE Fresh
  <2>1. PICK nomem :
          LET reached == MapReaches(r, m, nomem)
              m2      == MasterAfter(r, m, t, reached)
          IN  /\ masters' = IF reached = Rejected THEN masters
                            ELSE [found.list EXCEPT ![found.at] = m2]
              /\ IF r.stage = "S1" /\ reached >= NoCd THEN WriteCd(r, m, t, reached)
                                                      ELSE UNCHANGED <<live, cd>>
              /\ IF reached = Mapped THEN todo' = MapSteps(r, m2) ELSE todo' = <<>>
    BY ZenonT(30), <1>5 DEF val_smmu_map, Call
  <2> DEFINE reached == MapReaches(r, m, nomem)
             m2      == MasterAfter(r, m, t, reached)
  <2>2. reached \in 0 .. 5  BY Reaches
  <2>3. r.smmu \in base /\ r.smmu \in SMMUs /\ Hw(r.smmu).v3 /\ r.smmu # 0
    <3>1. r.smmu \in base  BY Zenon, <1>5 DEF val_smmu_map, Call
    <3>2. SMMUs = 1 .. Len(sc.hw) /\ Len(sc.hw) \in Nat  BY HwFacts DEF TypeInv
    <3>3. r.smmu \in SMMUs /\ Hw(r.smmu).v3  BY <3>1 DEF TypeInv, OwnInv
    <3>4. \A s \in SMMUs : s # 0  BY <3>2
    <3> QED  BY <3>1, <3>3, <3>4
  <2>4. r.stage \in {"S1", "S2"} /\ {r.sid, r.ssid_bits} \subseteq Nat  BY SmmuAssumption DEF TypeInv
  <2>5. Fresh \in DOMAIN cd /\ Fresh \notin live /\ Fresh # 0  BY <1>1, FreshTable DEF TypeInv
  <2>6. PICK T : masters \in Seq(Master(T)) /\ 0 \in T
    <3>1. PICK U : masters \in Seq(Master(U))  BY DEF TypeInv
    <3>2. PICK T : T = U \cup {0}  BY Zenon
    <3> QED  BY <3>1, <3>2, MoreTables
  <2>7. /\ found.list \in Seq(Master(T)) /\ found.at \in DOMAIN found.list
        /\ Known(r.sid) => found.list = masters /\ node.sid = r.sid
        /\ ~Known(r.sid) => found.list = <<Zero>> \o masters /\ found.at = 1
    BY <2>6, MasterAt
  <2> DEFINE M == found.list
             at == found.at
  <2>8. MastersOk(M, live) /\ \A s, i, u : Owned(masters, s, i, u) => Owned(M, s, i, u)
    <3>1. MastersOk(masters, live)  BY DEF OwnInv
    <3>2. /\ MastersOk(<<Zero>> \o masters, live)
          /\ \A s, i, u : Owned(masters, s, i, u) => Owned(<<Zero>> \o masters, s, i, u)
      BY <1>3, <2>6, <3>1, Prepended
    <3> HIDE DEF found
    <3> QED  BY ZenonT(30), <2>7, <3>1, <3>2
  <2>9. ~Known(r.sid) => node = Zero
    <3>1. (<<Zero>> \o masters)[1] = Zero  BY <2>6
    <3> QED  BY <2>7, <3>1
  <2> HIDE DEF reached, found
  <2>10. node \in Master(T)  BY <2>7
  <2>11. m \in Master(T) /\ m.tab = node.tab
    <3>1. node.smmu # 0 => m = node  OBVIOUS
    <3>2. ASSUME node.smmu = 0 PROVE m \in Master(T) /\ m.tab = node.tab
      <4> HIDE DEF node
      <4> QED  BY Zenon, <2>3, <2>4, <2>10, <3>2 DEF Master
    <3> QED  BY <2>10, <3>1, <3>2
  <2>12. /\ m.smmu # 0 /\ m.sid = r.sid /\ (node.smmu # 0 => m.smmu = node.smmu /\ m.sid = node.sid)
         /\ node.smmu = 0 => m.smmu = r.smmu
    <3>1. CASE node.smmu # 0
      <4>1. Known(r.sid)  BY <2>9, <3>1 DEF Zero
      <4> QED  BY <2>7, <3>1, <4>1
    <3>2. CASE node.smmu = 0
      <4> HIDE DEF node
      <4> QED  BY ZenonT(30), <2>3, <2>10, <3>2 DEF Master
    <3> QED  BY <3>1, <3>2
  <2>13. Hw(m.smmu).v3 /\ \E q \in sc.maps : q.sid = m.sid /\ q.smmu = m.smmu
    <3>1. CASE node.smmu # 0
      <4>1. M[at].smmu # 0  BY ZenonT(30), <3>1
      <4>2. Hw(M[at].smmu).v3 /\ \E q \in sc.maps : q.sid = M[at].sid /\ q.smmu = M[at].smmu
        BY <2>7, <2>8, <4>1 DEF MastersOk
      <4> QED  BY <2>12, <3>1, <4>2
    <3>2. CASE node.smmu = 0  BY ZenonT(30), <2>3, <2>12, <3>2
    <3> QED  BY <3>1, <3>2
  <2>14. sc.unmaps # {} => m.smmu = r.smmu
    <3>1. PICK q \in sc.maps : q.sid = m.sid /\ q.smmu = m.smmu  BY ZenonT(30), <2>13
    <3>2. sc.hw[q.smmu].v3 /\ sc.hw[r.smmu].v3 /\ q.sid = r.sid  BY ZenonT(30), <2>3, <2>12, <2>13, <3>1 DEF Hw
    <3> QED  BY <3>1, <3>2 DEF Unmappable
  <2> HIDE DEF m
  <2>15. /\ m2.smmu = m.smmu /\ m2.sid = m.sid
         /\ m2.tab = IF r.stage = "S1" /\ reached >= NoCd THEN t ELSE m.tab
    BY <2>2, <2>4, <2>11, NodeAfter
  <2>16. m.tab # 0 => m.tab \in live
    <3>1. M[at].tab # 0 => M[at].tab \in live  BY <2>7, <2>8 DEF MastersOk
    <3> QED  BY <2>11, <3>1
  <2>17. t # 0 /\ t \in DOMAIN cd /\ (m.tab # 0 => t = m.tab) /\ (m.tab = 0 => t \notin live)
    BY <2>5, <2>16 DEF OwnInv
  <2>18. /\ live' = IF r.stage = "S1" /\ reached >= NoCd THEN live \cup {t} ELSE live
         /\ DOMAIN cd' = DOMAIN cd
    BY ZenonT(30), <2>1 DEF WriteCd, reached
  <2> HIDE DEF t, m2
  <2>19. live' = live \cup ({m2.tab} \ {0})  BY <2>15, <2>16, <2>17, <2>18
  <2>20. M[at].tab = m.tab /\ (M[at].smmu # 0 => m2.smmu = M[at].smmu /\ m2.sid = M[at].sid)
    BY <2>11, <2>12, <2>15
  <2>21. m2.tab = M[at].tab \/ (M[at].tab = 0 /\ m2.tab \notin live)  BY <2>15, <2>17, <2>20
  <2>22. LET N == [M EXCEPT ![at] = m2]
         IN  /\ MastersOk(N, live')
             /\ \A s, i, u : Owned(M, s, i, u) => Owned(N, s, i, u)
             /\ m2.tab # 0 => Owned(N, m2.smmu, m2.sid, m2.tab)
    <3> HIDE DEF node
    <3>1. m2.smmu # 0 /\ Hw(m2.smmu).v3 /\ \E q \in sc.maps : q.sid = m2.sid /\ q.smmu = m2.smmu
      BY <2>12, <2>13, <2>15
    <3> HIDE DEF M, at
    <3>2. M \in Seq(Master(T)) /\ at \in DOMAIN M  BY <2>7 DEF M, at
    <3> QED  BY ZenonT(30), <1>3, <2>8, <2>19, <2>20, <2>21, <3>1, <3>2, Updated
  <2>23. /\ MastersOk(masters', live')
         /\ \A s, i, u : Owned(masters, s, i, u) => Owned(masters', s, i, u)
    <3>1. CASE reached = Rejected
      <4>1. masters' = masters  BY <2>1, <3>1 DEF reached
      <4>2. live' = live  BY <2>18, <3>1 DEF Rejected, NoCd
      <4> QED  BY <4>1, <4>2 DEF OwnInv
    <3>2. CASE reached # Rejected
      <4>1. masters' = [M EXCEPT ![at] = m2]  BY <2>1, <3>2 DEF reached, m2
      <4> QED  BY ZenonT(30), <2>8, <2>22, <4>1
    <3> QED  BY <3>1, <3>2
  <2>24. live' \subseteq DOMAIN cd' /\ IsFiniteSet(live') /\ Cardinality(live') + left' <= sc.calls
    <3>1. live' \subseteq DOMAIN cd'  BY ZenonT(30), <2>17, <2>18 DEF OwnInv
    <3>2. IsFiniteSet(live) /\ Cardinality(live) + left <= sc.calls  BY DEF OwnInv
    <3>3. /\ IsFiniteSet(live \cup {t})
          /\ Cardinality(live \cup {t}) = IF t \in live THEN Cardinality(live) ELSE Cardinality(live) + 1
      BY <3>2, FS_AddElement
    <3>4. CASE live' = live  BY <1>1, <1>2, <3>1, <3>2, <3>4
    <3>5. CASE live' = live \cup {t}
      <4>1. Cardinality(live') <= Cardinality(live) + 1 /\ Cardinality(live') \in Nat
        BY <1>2, <3>3, <3>5
      <4>2. Cardinality(live') + left' <= sc.calls  BY <1>1, <1>2, <3>2, <4>1
      <4> QED  BY <3>1, <3>3, <3>5, <4>2
    <3> QED  BY <2>18, <3>4, <3>5
  <2>25. ASSUME NEW k \in DOMAIN todo', todo'[k].do = "ste", todo'[k].val.config = "S1"
         PROVE  Owned(masters', todo'[k].smmu, todo'[k].sid, todo'[k].val.tab)
    <3>1. todo' # <<>>
      <4>1. DOMAIN <<>> = {}  OBVIOUS
      <4> QED  BY <2>25, <4>1
    <3>2. reached = Mapped /\ todo' = MapSteps(r, m2)  BY <2>1, <3>1 DEF reached, m2
    <3>3. todo'[k].smmu = r.smmu /\ todo'[k].sid = r.sid /\ todo'[k].val.tab = m2.tab /\ r.stage # "S2"
      BY <2>3, <2>25, <3>2, MapStores
    <3>4. m2.tab = t /\ m2.tab # 0  BY <2>4, <2>15, <2>17, <3>2, <3>3 DEF Mapped, NoCd
    <3>5. reached # Rejected  BY <3>2 DEF Mapped, Rejected
    <3>6. masters' = [M EXCEPT ![at] = m2]  BY <2>1, <3>5 DEF reached, m2
    <3>7. Owned(masters', m2.smmu, m2.sid, m2.tab)  BY <2>22, <3>4, <3>6
    <3>8. Owned(masters', r.smmu, r.sid, m2.tab)  BY ZenonT(30), <2>12, <2>14, <2>15, <3>7 DEF Owned, Owner
    <3> QED  BY <3>3, <3>8
  <2>26. \A s \in SMMUs : \A i \in Sids(s) : ste'[s][i].config = "S1" => Owned(masters', s, i, ste'[s][i].tab)
    BY ZenonT(30), <1>1, <2>23 DEF OwnInv
  <2>27. /\ tables' \subseteq SMMUs /\ \A s \in base' : Hw(s).v3
         /\ Entries(ste')
    BY ZenonT(30), <1>1 DEF OwnInv
  <2> QED  BY ZenonT(30), <1>2, <1>3, <2>18, <2>23, <2>24, <2>25, <2>26, <2>27 DEF OwnNext
<1> QED  BY <1>4, <1>5

\* A store of one entry.
StoreAt(f, x, k, v) == [f EXCEPT ![x][k] = v]

LEMMA EntryStored ==
  ASSUME NEW f, Entries(f), NEW x \in SMMUs, NEW k, NEW v, NEW g, g = StoreAt(f, x, k, v)
  PROVE  /\ Entries(g)
         /\ \A s \in SMMUs : \A i \in Sids(s) : g[s][i] = IF s = x /\ i = k THEN v ELSE f[s][i]
<1>1. DOMAIN f = SMMUs /\ f = [s \in SMMUs |-> f[s]] /\ \A s \in SMMUs : f[s] = [i \in Sids(s) |-> f[s][i]]
  BY DEF Entries
<1>2. DOMAIN g = SMMUs /\ g[x] = [f[x] EXCEPT ![k] = v] /\ \A s \in SMMUs : s # x => g[s] = f[s]
  BY <1>1 DEF StoreAt
<1>3. /\ g[x] = [i \in Sids(x) |-> g[x][i]]
      /\ \A i \in Sids(x) : g[x][i] = IF i = k THEN v ELSE f[x][i]
  <2>1. f[x] = [i \in Sids(x) |-> f[x][i]]  BY <1>1
  <2> QED  BY <1>2, <2>1
<1>4. \A s \in SMMUs : g[s] = [i \in Sids(s) |-> g[s][i]]  BY <1>1, <1>2, <1>3
<1>5. g = [s \in SMMUs |-> g[s]]  BY ZenonT(30), <1>1, <1>2 DEF StoreAt
<1>6. Entries(g)  BY ZenonT(30), <1>4, <1>5 DEF Entries
<1> QED  BY <1>2, <1>3, <1>6

LEMMA OwnUnmap ==
  ASSUME TypeInv, TodoInv, OwnInv, Unmappable(sc), NEW r \in sc.unmaps, val_smmu_unmap(r)
  PROVE  OwnNext
<1>1. /\ left > 0 /\ left' = left - 1 /\ tables' = tables /\ base' = base /\ cd' = cd
  BY Zenon DEF val_smmu_unmap, Ready, Call
<1>2. left' \in Nat /\ left \in Nat /\ Cardinality(live) \in Nat /\ sc.calls \in Nat
  BY Zenon, <1>1, CallsLeft
<1>3. 0 \notin live /\ IsFiniteSet(live) /\ live \subseteq DOMAIN cd /\ Cardinality(live) + left <= sc.calls
  BY <1>2 DEF OwnInv
<1> DEFINE found == smmu_master_at(r.sid)
           M     == found.list
           at    == found.at
           m     == M[at]
<1>4. PICK T : masters \in Seq(Master(T)) /\ 0 \in T
  <2>1. PICK U : masters \in Seq(Master(U))  BY DEF TypeInv
  <2>2. PICK T : T = U \cup {0}  BY ZenonT(30)
  <2> QED  BY <2>1, <2>2, MoreTables
<1>5. /\ M \in Seq(Master(T)) /\ at \in DOMAIN M
      /\ Known(r.sid) => M = masters /\ m.sid = r.sid
      /\ ~Known(r.sid) => M = <<Zero>> \o masters /\ at = 1
  BY <1>4, MasterAt
<1>6. MastersOk(M, live) /\ \A s, i, u : Owned(masters, s, i, u) => Owned(M, s, i, u)
  <2>1. MastersOk(masters, live)  BY DEF OwnInv
  <2>2. /\ MastersOk(<<Zero>> \o masters, live)
        /\ \A s, i, u : Owned(masters, s, i, u) => Owned(<<Zero>> \o masters, s, i, u)
    BY <1>3, <1>4, <2>1, Prepended
  <2> HIDE DEF found
  <2> QED  BY Zenon, <1>5, <2>1, <2>2
<1>7. \/ todo' = <<>> /\ (masters' = masters \/ masters' = M) /\ UNCHANGED <<ste, live>>
      \/ /\ m.smmu # 0 /\ r.sid \in Sids(m.smmu) /\ ClearEntry(m.smmu, r.sid) /\ live' = live \ {m.tab}
         /\ masters' = [M EXCEPT ![at] = Zero] /\ todo' = smmu_tlbi_cfgi(m.smmu)
  BY ZenonT(30) DEF val_smmu_unmap, Call, smmu_cdtab_free
<1> HIDE DEF found
<1>8. CASE todo' = <<>> /\ (masters' = masters \/ masters' = M) /\ UNCHANGED <<ste, live>>
  <2>1. Cardinality(live') + left' <= sc.calls  BY <1>1, <1>2, <1>3, <1>8
  <2>2. DOMAIN todo' = {}  BY <1>8
  <2>3. MastersOk(masters', live') /\ \A s, i, u : Owned(masters, s, i, u) => Owned(masters', s, i, u)
    BY ZenonT(30), <1>6, <1>8 DEF OwnInv
  <2>4. \A s \in SMMUs : \A i \in Sids(s) : ste'[s][i].config = "S1" => Owned(masters', s, i, ste'[s][i].tab)
    BY <1>8, <2>3 DEF OwnInv
  <2> QED  BY ZenonT(30), <1>1, <1>2, <1>8, <2>1, <2>2, <2>3, <2>4 DEF OwnInv, OwnNext
<1>9. CASE /\ m.smmu # 0 /\ r.sid \in Sids(m.smmu) /\ ClearEntry(m.smmu, r.sid) /\ live' = live \ {m.tab}
           /\ masters' = [M EXCEPT ![at] = Zero] /\ todo' = smmu_tlbi_cfgi(m.smmu)
  <2>1. m.smmu \in SMMUs /\ m.sid = r.sid
    <3>1. ~Known(r.sid) => m = Zero
      <4>1. (<<Zero>> \o masters)[1] = Zero  BY <1>4
      <4> QED  BY <1>5, <4>1
    <3>2. Known(r.sid)  BY <1>9, <3>1 DEF Zero
    <3>3. m \in Master(T)  BY <1>5
    <3>4. m.smmu \in SMMUs \cup {0}
      <4> HIDE DEF m
      <4> QED  BY <3>3 DEF Master
    <3> QED  BY ZenonT(30), <1>5, <1>9, <3>2, <3>4
  <2>2. ~Hw(m.smmu).two_level
    <3>1. Hw(m.smmu).v3 /\ \E q \in sc.maps : q.sid = m.sid /\ q.smmu = m.smmu
      BY ZenonT(30), <1>5, <1>6, <1>9 DEF MastersOk
    <3> HIDE DEF m
    <3> QED  BY <3>1 DEF Unmappable, Hw
  <2>3. ste' = [ste EXCEPT ![m.smmu][r.sid] = Abort]  BY <1>9, <2>2 DEF ClearEntry
  <2>4. /\ MastersOk(masters', live')
        /\ \A s, i, t : Owned(M, s, i, t) /\ ~(s = m.smmu /\ i = m.sid) => Owned(masters', s, i, t)
    <3> HIDE DEF M, at
    <3>1. MastersOk(M, live) /\ M \in Seq(Master(T)) /\ at \in DOMAIN M /\ sc.unmaps # {}
      BY Zenon, <1>5, <1>6 DEF M, at
    <3> QED  BY ZenonT(30), <1>3, <1>9, <3>1, Cleared
  <2>5. /\ Entries(ste')
        /\ \A s \in SMMUs : \A i \in Sids(s) :
             ste'[s][i] = IF s = m.smmu /\ i = r.sid THEN Abort ELSE ste[s][i]
    <3> HIDE DEF m
    <3>1. Entries(ste)  BY DEF OwnInv
    <3>2. ste' = StoreAt(ste, m.smmu, r.sid, Abort)  BY <2>3 DEF StoreAt
    <3> QED  BY <2>1, <3>1, <3>2, EntryStored
  <2>6. ASSUME NEW s \in SMMUs, NEW i \in Sids(s), ste'[s][i].config = "S1"
        PROVE  Owned(masters', s, i, ste'[s][i].tab)
    <3> HIDE DEF m, M
    <3>1. Abort.config = "abort"  BY DEF Abort
    <3>2. ~(s = m.smmu /\ i = r.sid) /\ ste'[s][i] = ste[s][i]  BY ZenonT(30), <2>5, <2>6, <3>1
    <3>3. Owned(masters, s, i, ste[s][i].tab)  BY <2>6, <3>2 DEF OwnInv
    <3> QED  BY <1>6, <2>1, <2>4, <3>2, <3>3
  <2>7. \A k \in DOMAIN todo' : todo'[k].do # "ste"
    <3> HIDE DEF m
    <3>1. Among(smmu_tlbi_cfgi(m.smmu), <<>>)  BY <2>1, InvalidationAmong
    <3> QED  BY <1>9, <3>1 DEF Among
  <2>8. IsFiniteSet(live') /\ live' \subseteq DOMAIN cd' /\ Cardinality(live') + left' <= sc.calls
    <3> HIDE DEF m
    <3>1. live' \in SUBSET live  BY <1>9
    <3>2. IsFiniteSet(live') /\ Cardinality(live') <= Cardinality(live)  BY <1>3, <3>1, FS_Subset
    <3>3. Cardinality(live') \in Nat  BY ZenonT(30), <3>2, FS_CardinalityType
    <3> QED  BY <1>1, <1>2, <1>3, <3>1, <3>2, <3>3
  <2>9. tables' \subseteq SMMUs /\ (\A s \in base' : Hw(s).v3) /\ DOMAIN cd' = 1 .. sc.calls
    BY <1>1 DEF OwnInv
  <2> QED  BY ZenonT(30), <1>2, <2>4, <2>5, <2>6, <2>7, <2>8, <2>9 DEF OwnNext
<1> QED  BY ZenonT(30), <1>7, <1>8, <1>9

LEMMA OwnStep ==
  ASSUME TypeInv, TodoInv, OwnInv, Unmappable(sc), [Next]_vars
  PROVE  OwnInv'
<1>1. sc' = sc  BY TypeStep
<1>2. SUFFICES OwnNext  BY <1>1, OwnPrimed
<1>3. left \in Nat /\ Cardinality(live) \in Nat /\ sc.calls \in Nat
  BY ZenonT(30), FS_CardinalityType, SmmuAssumption DEF OwnInv, TypeInv
<1>4. CASE Keeps
  <2>1. Cardinality(live') + left' <= sc.calls  BY <1>3, <1>4 DEF Keeps, OwnInv
  <2>2. ASSUME NEW k \in DOMAIN todo', todo'[k].do = "ste", todo'[k].val.config = "S1"
        PROVE  Owned(masters', todo'[k].smmu, todo'[k].sid, todo'[k].val.tab)
    <3>1. PICK l \in DOMAIN todo : todo'[k] = todo[l]  BY ZenonT(30), <1>4, <2>2 DEF Keeps, Among
    <3>2. Owned(masters, todo[l].smmu, todo[l].sid, todo[l].val.tab)  BY <2>2, <3>1 DEF OwnInv
    <3> QED  BY <1>4, <3>1, <3>2 DEF Keeps
  <2> QED  BY ZenonT(30), <1>4, <2>1, <2>2 DEF Keeps, OwnInv, OwnNext
<1>5. CASE smmu_init
  <2> DEFINE s == Head(todo).smmu
  <2>1. /\ todo # <<>> /\ UNCHANGED <<masters, live, cd, left>>
        /\ base' = base \/ (Hw(s).v3 /\ base' = base \cup {s})
        /\ tables' = tables \/ tables' = tables \cup {s}
        /\ ste' = ste \/ ste' = [ste EXCEPT ![s] = smmu_strtab_init_linear(s)]
        /\ todo' = Tail(todo) \/ todo' = <<>> \/ todo' = smmu_reset(s) \o Tail(todo)
    BY ZenonT(30), <1>5 DEF smmu_init, Running, Done
  <2>2. s \in SMMUs /\ Listed(Tail(todo)) /\ Among(Tail(todo), todo)
    BY Zenon, <2>1, TailListed, TailAmong DEF TodoInv
  <2> HIDE DEF s
  <2>3. Among(smmu_reset(s) \o Tail(todo), todo)  BY <2>2, ResetListed, ResetAmong, JoinAmong
  <2>4. Among(todo', todo)  BY Zenon, <2>1, <2>2, <2>3, NothingAmong
  <2>5. ASSUME NEW k \in DOMAIN todo', todo'[k].do = "ste", todo'[k].val.config = "S1"
        PROVE  Owned(masters', todo'[k].smmu, todo'[k].sid, todo'[k].val.tab)
    <3>1. PICK l \in DOMAIN todo : todo'[k] = todo[l]  BY ZenonT(30), <2>4, <2>5 DEF Among
    <3>2. Owned(masters, todo[l].smmu, todo[l].sid, todo[l].val.tab)  BY <2>5, <3>1 DEF OwnInv
    <3> QED  BY <2>1, <3>1, <3>2
  <2>6. Entries(ste)  BY DEF OwnInv
  <2>7. /\ Entries(ste')
        /\ \A x \in SMMUs : \A i \in Sids(x) : ste'[x][i] = ste[x][i] \/ ste'[x][i] = Abort
    BY <2>1, <2>2, <2>6 DEF smmu_strtab_init_linear, Entries
  <2>8. ASSUME NEW x \in SMMUs, NEW i \in Sids(x), ste'[x][i].config = "S1"
        PROVE  Owned(masters', x, i, ste'[x][i].tab)
    <3>1. Abort.config = "abort"  BY DEF Abort
    <3>2. ste'[x][i] = ste[x][i]  BY ZenonT(30), <2>7, <2>8, <3>1
    <3>3. Owned(masters, x, i, ste[x][i].tab)  BY <2>8, <3>2 DEF OwnInv
    <3> QED  BY <2>1, <3>2, <3>3
  <2>9. tables' \subseteq SMMUs /\ \A x \in base' : Hw(x).v3  BY ZenonT(30), <2>1, <2>2 DEF OwnInv
  <2>10. /\ DOMAIN cd' = 1 .. sc.calls /\ live' \subseteq DOMAIN cd'
         /\ IsFiniteSet(live') /\ left' \in Nat /\ Cardinality(live') + left' <= sc.calls
         /\ MastersOk(masters', live')
    BY ZenonT(30), <2>1 DEF OwnInv
  <2> QED  BY ZenonT(30), <2>5, <2>7, <2>8, <2>9, <2>10 DEF OwnNext
<1>6. CASE smmu_strtab_write_ste
  <2> DEFINE h == Head(todo)
  <2>1. /\ todo # <<>> /\ h.do = "ste" /\ UNCHANGED <<masters, live, cd, left, tables, base>>
        /\ ste' = [ste EXCEPT ![h.smmu][h.sid] = h.val] /\ todo' = Tail(todo)
    BY <1>6 DEF smmu_strtab_write_ste, Running, Done
  <2>2. h.smmu \in SMMUs /\ h = todo[1] /\ 1 \in DOMAIN todo /\ Among(Tail(todo), todo)
    BY <2>1, TailListed, TailAmong DEF TodoInv
  <2>3. h.val.config = "S1" => Owned(masters, h.smmu, h.sid, h.val.tab)
    BY <2>1, <2>2 DEF OwnInv
  <2> HIDE DEF h
  <2>4. ASSUME NEW k \in DOMAIN todo', todo'[k].do = "ste", todo'[k].val.config = "S1"
        PROVE  Owned(masters', todo'[k].smmu, todo'[k].sid, todo'[k].val.tab)
    <3>1. PICK l \in DOMAIN todo : todo'[k] = todo[l]  BY ZenonT(30), <2>1, <2>2, <2>4 DEF Among
    <3>2. Owned(masters, todo[l].smmu, todo[l].sid, todo[l].val.tab)  BY <2>4, <3>1 DEF OwnInv
    <3> QED  BY <2>1, <3>1, <3>2
  <2>5. Entries(ste)  BY DEF OwnInv
  <2>6. /\ Entries(ste')
        /\ \A x \in SMMUs : \A i \in Sids(x) :
             \/ ste'[x][i] = ste[x][i]
             \/ x = h.smmu /\ i = h.sid /\ ste'[x][i] = h.val
    <3>1. ste' = StoreAt(ste, h.smmu, h.sid, h.val)  BY <2>1 DEF StoreAt
    <3> QED  BY <2>2, <2>5, <3>1, EntryStored
  <2>7. ASSUME NEW x \in SMMUs, NEW i \in Sids(x), ste'[x][i].config = "S1"
        PROVE  Owned(masters', x, i, ste'[x][i].tab)
    <3>1. CASE ste'[x][i] = ste[x][i]
      <4>1. Owned(masters, x, i, ste[x][i].tab)  BY <2>7, <3>1 DEF OwnInv
      <4> QED  BY ZenonT(30), <2>1, <3>1, <4>1
    <3>2. CASE x = h.smmu /\ i = h.sid /\ ste'[x][i] = h.val  BY <2>1, <2>3, <2>7, <3>2
    <3> QED  BY <2>6, <3>1, <3>2
  <2>8. /\ tables' \subseteq SMMUs /\ \A x \in base' : Hw(x).v3
        /\ DOMAIN cd' = 1 .. sc.calls /\ live' \subseteq DOMAIN cd'
        /\ IsFiniteSet(live') /\ left' \in Nat /\ Cardinality(live') + left' <= sc.calls
        /\ MastersOk(masters', live')
    BY ZenonT(30), <2>1 DEF OwnInv
  <2> QED  BY <2>4, <2>6, <2>7, <2>8 DEF OwnNext
<1> QED  BY <1>4, <1>5, <1>6, OwnKinds, OwnMap, OwnUnmap

LEMMA OwnInit ==
  ASSUME Init
  PROVE  OwnInv
<1>1. /\ tables = {} /\ base = {} /\ masters = <<>> /\ live = {} /\ todo = <<>> /\ left = sc.calls
      /\ ste = [s \in SMMUs |-> [i \in Sids(s) |-> Abort]] /\ DOMAIN cd = 1 .. sc.calls
  BY DEF Init
<1>2. sc.calls \in Nat  BY SmmuAssumption DEF Init
<1>3. IsFiniteSet(live) /\ Cardinality(live) + left <= sc.calls  BY <1>1, <1>2, FS_EmptySet
<1>4. DOMAIN masters = {} /\ DOMAIN todo = {}  BY <1>1
<1>5. MastersOk(masters, live)  BY <1>1, <1>4 DEF MastersOk
<1>6. \A s \in SMMUs : \A i \in Sids(s) : ste[s][i].config = "abort"  BY <1>1 DEF Abort
<1> QED  BY ZenonT(30), <1>1, <1>2, <1>3, <1>4, <1>5, <1>6 DEF OwnInv, Entries

\* No context descriptor table is freed while a stream table entry still points
\* to it, and none is leaked or shared: every allocated table has one master, on
\* every path of val_smmu_map, the ones that fail half way included, and of
\* val_smmu_unmap. This asks of the callers that what they unmap can be.
THEOREM TablesHaveOneOwner == (\A c \in Scenarios : Unmappable(c)) => (Spec => []TablesOwned)
<1> SUFFICES ASSUME \A c \in Scenarios : Unmappable(c) PROVE Spec => []TablesOwned  OBVIOUS
<1> DEFINE I == TypeInv /\ TodoInv /\ OwnInv
<1>1. Init => I  BY StepInit, OwnInit
<1>2. I /\ [Next]_vars => I'
  <2> SUFFICES ASSUME I, [Next]_vars PROVE I'  OBVIOUS
  <2>1. Unmappable(sc)  BY DEF TypeInv
  <2> QED  BY <2>1, TypeStep, TodoStep, OwnStep
<1>3. I => TablesOwned
  <2> SUFFICES ASSUME I PROVE TablesOwned  OBVIOUS
  <2>1. 0 \notin live  BY DEF OwnInv
  <2>2. \A s \in tables : \A i \in Sids(s) : ste[s][i].config = "S1" => ste[s][i].tab \in live
    <3> SUFFICES ASSUME NEW s \in tables, NEW i \in Sids(s), ste[s][i].config = "S1"
                 PROVE  ste[s][i].tab \in live
      OBVIOUS
    <3>1. Owned(masters, s, i, ste[s][i].tab)  BY ZenonT(30) DEF OwnInv
    <3>2. PICK j \in DOMAIN masters : masters[j].tab = ste[s][i].tab /\ ste[s][i].tab # 0
      BY <3>1 DEF Owned, Owner
    <3> QED  BY <3>2 DEF OwnInv, MastersOk
  <2>3. ASSUME NEW t \in live PROVE Cardinality({i \in DOMAIN masters : masters[i].tab = t}) = 1
    <3>1. PICK j \in DOMAIN masters : masters[j].tab = t  BY ZenonT(30) DEF OwnInv, MastersOk
    <3>2. \A l \in DOMAIN masters : masters[l].tab = t => l = j  BY Zenon, <2>1, <3>1 DEF OwnInv, MastersOk
    <3>3. {i \in DOMAIN masters : masters[i].tab = t} = {j}  BY <3>1, <3>2
    <3> QED  BY <3>3, FS_Singleton
  <2>4. \A m \in Range(masters) : m.tab # 0 => m.tab \in live
    <3>1. MastersOk(masters, live)  BY Zenon DEF OwnInv
    <3>2. \A j \in DOMAIN masters : masters[j].tab # 0 => masters[j].tab \in live  BY <3>1 DEF MastersOk
    <3> QED  BY Zenon, <3>2 DEF Range
  <2> QED  BY <2>2, <2>3, <2>4 DEF TablesOwned
<1> QED  BY <1>1, <1>2, <1>3, PTL DEF Spec
=============================================================================
