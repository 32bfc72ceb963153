------------------------------- MODULE SmmuV3 -------------------------------
(***************************************************************************)
(* The SMMUv3 driver the tests at EL2 use (val/sys_arch_src/smmu_v3) and   *)
(* the SMMUs it drives. The driver runs on one PE; every SMMU runs beside  *)
(* it: it acknowledges writes of CR0, consumes the commands of its queue,  *)
(* and reads stream table entries and context descriptors into its         *)
(* configuration cache and from there into its TLB whenever it likes.      *)
(*                                                                         *)
(* A call of the driver is one step up to its first store the SMMU can     *)
(* see; each of those stores, commands and polls is a step of its own,     *)
(* queued in todo. A page table is a name.                                 *)
(***************************************************************************)
EXTENDS Integers, Sequences, FiniteSets, FiniteSetsExt, Functions

CONSTANTS Scenarios,  \* the machines, with the calls the tests make on each
          Log2nent,   \* IDR1.CMDQS: the command queue has 2^Log2nent entries
          Split       \* STRTAB_SPLIT, 8 in the code

Nent == 2 ^ Log2nent

ASSUME SmmuAssumption ==
  /\ Log2nent \in Nat /\ Split \in Nat /\ Nent \in Nat \ {0}
  /\ \A c \in Scenarios :
       /\ c.prompt \in BOOLEAN /\ c.calls \in Nat
       /\ c.hw \in Seq(Range(c.hw)) /\ c.hw # <<>>
       /\ \A r \in c.maps :
            {r.sid, r.ssid, r.ssid_bits} \subseteq Nat /\ r.stage \in {"S1", "S2"}

VARIABLES sc,             \* hw, the SMMUs, and the calls made; prompt, they answer in time
          g_smmu,         \* null, live or freed
          base,           \* SMMUs the driver believes in: smmu->base # 0
          cr0, ack,       \* SMMU_CR0 and SMMU_CR0ACK
          prod, cons,     \* SMMU_CMDQ_PROD and SMMU_CMDQ_CONS
          buf,            \* the entries of the command queue
          tables, prog,   \* SMMUs with an allocated stream table; told of it
          l2, l1,         \* blocks with an l2ptr; with a valid level 1 descriptor
          ste,            \* stream table entries
          masters,        \* g_smmu_master_list_head, the head first
          live, cd, \* context descriptor tables: allocated ones, contents
          conf, tlb,      \* what an SMMU has cached
          call, todo, ret,\* the running call, its remaining steps, its result
          left,           \* calls that may still be made
          pend,           \* history: commands issued and not consumed
          promised        \* history: what the calls that returned have promised

drv  == <<g_smmu, base, tables, prog, l2, l1, ste, masters, live, cd>>
regs == <<cr0, ack, prod, cons, buf>>
hist == <<pend, promised>>
vars == <<sc, drv, regs, conf, tlb, call, todo, ret, left, hist>>

-----------------------------------------------------------------------------
(* The SMMU.                                                               *)
SMMUs  == DOMAIN sc.hw
Hw(s)  == sc.hw[s]
Sids(s)  == 0 .. 2 ^ Hw(s).sid_bits - 1
Ssids(s) == 0 .. 2 ^ Hw(s).ssid_bits - 1
\* The substreams that devices use; what an SMMU caches for others is left out.
Streams(s) == ({r.sid : r \in {q \in sc.maps : q.smmu = s}} \cap Sids(s)) \X Ssids(s)
Block(s, sid) == IF Hw(s).two_level THEN sid \div 2 ^ Split ELSE 0

None   == "none"
Abort  == [config |-> "abort"]
Torn   == [config |-> "torn"]
S2(p)  == [config |-> "S2", pgt |-> p]
S1(t, max) == [config |-> "S1", tab |-> t, cdmax |-> max]

\* What a walk of the tables in memory gives for a substream of a stream.
\* Level 1 descriptors that were never written hold anything.
Walk(s, sid, ssid) ==
  LET e == ste[s][sid]
  IN IF Hw(s).two_level /\ Block(s, sid) \notin l1[s] THEN "junk"
     ELSE IF e.config \in {"abort", "torn"} THEN e.config
     ELSE IF e.config = "S2" THEN e.pgt
     ELSE IF ssid >= 2 ^ e.cdmax THEN "fault"
     ELSE IF e.tab \notin live THEN "junk"
     ELSE cd[e.tab][ssid]

Ack(s) ==
  /\ ack[s] # cr0[s]
  /\ ack' = [ack EXCEPT ![s] = cr0[s]]
  /\ UNCHANGED <<sc, drv, cr0, prod, cons, buf, conf, tlb, call, todo, ret, left, hist>>

Consume(s) ==
  /\ "CMDQEN" \in ack[s] /\ prod[s] # cons[s]
  /\ LET c == buf[s][cons[s] % Nent]
     IN /\ conf' = [conf EXCEPT ![s] = IF c = "CFGI_ALL" THEN [k \in Streams(s) |-> None] ELSE @]
        /\ tlb'  = [tlb  EXCEPT ![s] = IF c = "TLBI_NSNH_ALL" THEN [k \in Streams(s) |-> None] ELSE @]
  /\ cons' = [cons EXCEPT ![s] = (@ + 1) % (2 * Nent)]
  /\ pend' = [pend EXCEPT ![s] = IF @ = <<>> THEN @ ELSE Tail(@)]
  /\ UNCHANGED <<sc, drv, cr0, ack, prod, buf, call, todo, ret, left, promised>>

Fetch(s) ==
  /\ "SMMUEN" \in ack[s] /\ s \in tables \cap prog
  /\ \E k \in Streams(s) :
       \/ /\ conf[s][k] = None
          /\ conf' = [conf EXCEPT ![s][k] = Walk(s, k[1], k[2])]
          /\ tlb' = tlb
       \/ /\ conf[s][k] # None /\ tlb[s][k] = None
          /\ tlb' = [tlb EXCEPT ![s][k] = conf[s][k]]
          /\ conf' = conf
  /\ UNCHANGED <<sc, drv, regs, call, todo, ret, left, hist>>

-----------------------------------------------------------------------------
(* The command queue.                                                      *)
IncProdNoWrap(p) == (p + 1) % Nent
smmu_cmdq_inc_prod(p) == (p + 1) % (2 * Nent)

\* Both look at the index and at the wrap bit above it.
smmu_queue_full(p, c)  == p % Nent = c % Nent /\ p \div Nent # c \div Nent
smmu_queue_empty(p, c) == p % Nent = c % Nent /\ p \div Nent = c \div Nent

Step(kind, s) == [do |-> kind, smmu |-> s]
Cmd(s, c)     == [do |-> "cmd", smmu |-> s, cmd |-> c]

TlbiFirst(s) == <<Cmd(s, "TLBI_NSNH_ALL"), Cmd(s, "CFGI_ALL"), Cmd(s, "CMD_SYNC"), Step("poll", s)>>

smmu_tlbi_cfgi(s) ==
  <<Cmd(s, "CFGI_ALL")>>
  \o (IF Hw(s).hyp THEN <<Cmd(s, "TLBI_EL2_ALL")>> ELSE <<>>)
  \o <<Cmd(s, "TLBI_NSNH_ALL"), Cmd(s, "CMD_SYNC"), Step("poll", s)>>

Running(kind) == todo # <<>> /\ Head(todo).do = kind
Done == todo' = Tail(todo)

\* The test for a full queue is made on the driver's copy of the two indices,
\* which are 0 from smmu_cmd_queue_init on: it never holds the command back.
smmu_cmdq_write_cmd ==
  /\ Running("cmd") /\ ~smmu_queue_full(0, 0)
  /\ LET s == Head(todo).smmu
         c == Head(todo).cmd
     IN /\ buf'  = [buf EXCEPT ![s][prod[s] % Nent] = c]
        /\ prod' = [prod EXCEPT ![s] = smmu_cmdq_inc_prod(@)]
        /\ pend' = [pend EXCEPT ![s] = Append(@, c)]
  /\ Done
  /\ UNCHANGED <<sc, drv, cr0, ack, cons, conf, tlb, call, ret, left, promised>>

\* A poll that times out only prints a message.
smmu_cmdq_poll_until_consumed ==
  /\ Running("poll")
  /\ LET s == Head(todo).smmu
     IN smmu_queue_empty(prod[s], cons[s]) \/ ~sc.prompt
  /\ Done
  /\ UNCHANGED <<sc, drv, regs, conf, tlb, call, ret, left, hist>>

-----------------------------------------------------------------------------
(* SMMU_CR0: a write is polled for its acknowledgement. What a timeout     *)
(* does is the caller's: smmu_reset returns at once, and what it returns   *)
(* makes smmu_init go on (skip); smmu_set_state fails; val_smmu_stop does  *)
(* not look (go).                                                          *)
Cr0(s, v, late) == [do |-> "cr0", smmu |-> s, val |-> v, late |-> late]

smmu_reg_write_sync ==
  /\ Running("cr0")
  /\ LET h == Head(todo)
     IN /\ cr0' = [cr0 EXCEPT ![h.smmu] = h.val]
        /\ todo' = <<[h EXCEPT !.do = "ack"]>> \o Tail(todo)
  /\ UNCHANGED <<sc, drv, ack, prod, cons, buf, conf, tlb, call, ret, left, hist>>

Acked ==
  /\ Running("ack") /\ ack[Head(todo).smmu] = Head(todo).val
  /\ Done
  /\ UNCHANGED <<sc, drv, regs, conf, tlb, call, ret, left, hist>>

AckTimeout ==
  /\ Running("ack") /\ ~sc.prompt
  /\ LET h    == Head(todo)
         next == {i \in DOMAIN todo : todo[i].smmu # h.smmu}
     IN /\ todo' = IF h.late # "skip" THEN Tail(todo)
                   ELSE IF next = {} THEN <<>> ELSE SubSeq(todo, Min(next), Len(todo))
        /\ ret' = IF h.late = "fail" THEN 1 ELSE ret
  /\ UNCHANGED <<sc, drv, regs, conf, tlb, call, left, hist>>

NoQueue(s) ==
  <<Cr0(s, {}, "skip"), Step("program", s)>> \o smmu_tlbi_cfgi(s) \o <<Cr0(s, {"CMDQEN", "SMMUEN"}, "skip")>>

smmu_reset(s) ==
  <<Cr0(s, {}, "skip"), Step("program", s), Cr0(s, {"CMDQEN"}, "skip")>>
  \o smmu_tlbi_cfgi(s) \o <<Cr0(s, {"CMDQEN", "SMMUEN"}, "skip")>>

\* The base registers are written, and the queue's indices are cleared.
Program ==
  /\ Running("program")
  /\ LET s == Head(todo).smmu
     IN /\ prog' = prog \cup {s}
        /\ prod' = [prod EXCEPT ![s] = 0] /\ cons' = [cons EXCEPT ![s] = 0]
        /\ pend' = [pend EXCEPT ![s] = <<>>]
  /\ Done
  /\ UNCHANGED <<sc, g_smmu, base, tables, l2, l1, ste, masters, live, cd,
                 cr0, ack, buf, conf, tlb, call, ret, left, promised>>

-----------------------------------------------------------------------------
(* Calls. Call starts one that has steps left to make, Return ends it.     *)
Idle == [op |-> "idle"]
Ready == call = Idle /\ left > 0 /\ g_smmu # "freed"
Call(c, steps, r) == call' = c /\ todo' = steps /\ ret' = r /\ left' = left - 1

\* The structures, then one round for each SMMU, unless there is no memory.
val_smmu_init ==
  /\ Ready /\ g_smmu = "null"
  /\ \/ g_smmu' = "live" /\ Call([op |-> "init"], [s \in SMMUs |-> Step("init", s)], 0)
     \/ UNCHANGED g_smmu /\ Call([op |-> "init"], <<>>, 1)
  /\ UNCHANGED <<sc, base, tables, prog, l2, l1, ste, masters, live, cd,
                 regs, conf, tlb, hist>>

\* Fewer features end the probe; no entry translates in a new stream table.
smmu_probe(s) == Hw(s).s1p \/ Hw(s).s2p
smmu_strtab_init_linear(s) == [i \in Sids(s) |-> Abort]
\* A level 1 table is not cleared: its streams promise nothing until mapped.
smmu_strtab_init_2level(s) == [k \in Streams(s) |-> IF Hw(s).two_level THEN "any" ELSE "abort"]

\* One round of val_smmu_init: an SMMU that is not a v3 is passed over, one
\* that cannot be probed or has no memory for its tables ends the loop.
smmu_init ==
  /\ Running("init")
  /\ LET s == Head(todo).smmu
     IN \/ /\ ~Hw(s).v3
           /\ Done /\ UNCHANGED <<base, tables, ste, ret, promised>>
        \/ /\ Hw(s).v3
           /\ ret' = 1 /\ todo' = <<>> /\ UNCHANGED <<base, tables, ste, promised>>
        \/ /\ Hw(s).v3 /\ smmu_probe(s)
           /\ base' = base \cup {s} /\ tables' = tables \cup {s}
           /\ ste' = [ste EXCEPT ![s] = smmu_strtab_init_linear(s)]
           /\ promised' = [promised EXCEPT ![s] = smmu_strtab_init_2level(s)]
           /\ todo' = smmu_reset(s) \o Tail(todo)
           /\ ret' = ret
  /\ UNCHANGED <<sc, g_smmu, prog, l2, l1, masters, live, cd,
                 regs, conf, tlb, call, left, pend>>

smmu_set_state(s, en) ==
  /\ Ready
  /\ LET val == IF en THEN cr0[s] \cup {"SMMUEN"} ELSE cr0[s] \ {"SMMUEN"}
     IN IF s \in base THEN Call([op |-> "state"], <<Cr0(s, val, "fail")>>, 0)
                      ELSE Call([op |-> "state"], <<>>, 1)
  /\ UNCHANGED <<sc, drv, regs, conf, tlb, hist>>

val_smmu_stop ==
  /\ Ready /\ g_smmu = "live" /\ sc.stops
  /\ Call([op |-> "stop"], [s \in SMMUs |-> Step("stop", s)], 0)
  /\ UNCHANGED <<sc, drv, regs, conf, tlb, hist>>

\* One round of val_smmu_stop.
smmu_dev_disable ==
  /\ Running("stop")
  /\ LET s == Head(todo).smmu
     IN todo' = (IF s \in base THEN <<Cr0(s, {}, "go"), Step("free", s)>> ELSE <<>>) \o Tail(todo)
  /\ UNCHANGED <<sc, drv, regs, conf, tlb, call, ret, left, hist>>

smmu_free_strtab ==
  /\ Running("free")
  /\ tables' = tables \ {Head(todo).smmu}
  /\ Done
  /\ UNCHANGED <<sc, g_smmu, base, prog, l2, l1, ste, masters, live, cd,
                 regs, conf, tlb, call, ret, left, hist>>

-----------------------------------------------------------------------------
(* Masters. A node that was never used, or was cleared by an unmap, is     *)
(* all zero: it has stream id 0 and no SMMU.                               *)
Zero == [sid |-> 0, smmu |-> 0, ssid_bits |-> 0, stage |-> None, ssid |-> 0,
         s1cdmax |-> 0, tab |-> 0]

\* The list after smmu_master_at(sid), and the place of the master in it.
Known(sid) == \E i \in DOMAIN masters : masters[i].sid = sid
smmu_master_at(sid) ==
  IF Known(sid)
  THEN [list |-> masters, at |-> Min({i \in DOMAIN masters : masters[i].sid = sid})]
  ELSE [list |-> <<Zero>> \o masters, at |-> 1]

Fresh == CHOOSE t \in DOMAIN cd : t \notin live /\ \A m \in Range(masters) : m.tab # t

\* With many substreams the context descriptors are in two levels, and a leaf
\* is allocated for the first substream mapped of it. A leaf holds one
\* descriptor here: what else an uninitialised leaf holds is not seen.
NewLeaf(m, ssid) == Hw(m.smmu).cd2l /\ m.ssid_bits > 0
                    /\ (m.tab = 0 \/ cd[m.tab][ssid] = "fault")

\* Where val_smmu_map returns, when the allocation nomem is the one that fails.
Rejected == 0
NoStage  == 1
NoStream == 2
NoTable  == 3
NoCd     == 4
Mapped   == 5

MapReaches(r, m, nomem) ==
  IF ~Known(r.sid) /\ nomem = "master" THEN Rejected
  ELSE IF ~(IF r.stage = "S2" THEN Hw(r.smmu).s2p ELSE Hw(r.smmu).s1p) THEN NoStage
  ELSE IF r.sid \notin Sids(r.smmu) THEN NoStream
  ELSE IF Hw(r.smmu).two_level /\ Block(r.smmu, r.sid) \notin l2[r.smmu] /\ nomem = "l2" THEN NoStream
  ELSE IF r.stage = "S2" THEN Mapped
  ELSE IF m.tab = 0 /\ nomem = "cdtab" THEN NoTable
  ELSE IF r.ssid >= 2 ^ m.ssid_bits \/ (NewLeaf(m, r.ssid) /\ nomem = "leaf") THEN NoCd
  ELSE Mapped

\* The node of the master, filled in as far as the call gets.
MasterAfter(r, m, t, reached) ==
  LET staged == IF reached < NoStream THEN m
                ELSE IF r.stage = "S2" THEN [m EXCEPT !.stage = "S2"]
                ELSE [m EXCEPT !.stage = "S1", !.ssid = r.ssid]
      sized  == [staged EXCEPT !.s1cdmax = m.ssid_bits]
  IN IF r.stage = "S2" \/ reached < NoTable THEN staged
     ELSE IF reached = NoTable THEN sized ELSE [sized EXCEPT !.tab = t]

Store(r, v) == [do |-> "ste", smmu |-> r.smmu, sid |-> r.sid, val |-> v]

StoreSteps(r, m) ==
  (IF r.stage = "S1"
   THEN <<[do |-> "cd", smmu |-> r.smmu, tab |-> m.tab, ssid |-> m.ssid, val |-> r.pgt]>> ELSE <<>>)
  \o <<Store(r, Torn), Store(r, IF r.stage = "S2" THEN S2(r.pgt) ELSE S1(m.tab, m.s1cdmax))>>

NoInvalidate(r, m) == StoreSteps(r, m)

MapSteps(r, m) == StoreSteps(r, m) \o smmu_tlbi_cfgi(r.smmu)

\* The context descriptor table: allocated clear, one descriptor overwritten.
WriteCd(r, m, t, reached) ==
  LET held == IF m.tab = 0 THEN [i \in DOMAIN cd[t] |-> "fault"] ELSE cd[t]
  IN /\ live' = live \cup {t}
     /\ cd' = [cd EXCEPT ![t] = IF reached = Mapped THEN [held EXCEPT ![r.ssid] = "torn"] ELSE held]

val_smmu_map(r) ==
  /\ Ready
  /\ \/ /\ g_smmu = "null" \/ r.smmu \notin base
        /\ Call([op |-> "map", req |-> r], <<>>, 1)
        /\ UNCHANGED <<l2, l1, masters, live, cd>>
     \/ /\ r.smmu \in base
        /\ \E nomem \in {None, "master", "l2", "cdtab", "leaf"} :
             LET found   == smmu_master_at(r.sid)
                 node    == found.list[found.at]
                 m       == IF node.smmu # 0 THEN node
                            ELSE [node EXCEPT !.smmu = r.smmu, !.sid = r.sid, !.ssid_bits = r.ssid_bits]
                 reached == MapReaches(r, m, nomem)
                 t       == IF m.tab # 0 THEN m.tab ELSE Fresh
                 m2      == MasterAfter(r, m, t, reached)
                 block   == IF reached >= NoTable THEN {Block(r.smmu, r.sid)} ELSE {}
             IN /\ masters' = IF reached = Rejected THEN masters
                              ELSE [found.list EXCEPT ![found.at] = m2]
                /\ l2' = [l2 EXCEPT ![r.smmu] = @ \cup block]
                /\ l1' = [l1 EXCEPT ![r.smmu] = @ \cup (block \ l2[r.smmu])]
                /\ IF r.stage = "S1" /\ reached >= NoCd THEN WriteCd(r, m, t, reached)
                                                        ELSE UNCHANGED <<live, cd>>
                /\ IF reached = Mapped
                   THEN Call([op |-> "map", req |-> r, was |-> ste[r.smmu][r.sid].config],
                             MapSteps(r, m2), 0)
                   ELSE Call([op |-> "map", req |-> r], <<>>, 1)
  /\ UNCHANGED <<sc, g_smmu, base, tables, prog, ste, regs, conf, tlb, hist>>

\* Words 1 to 3 of an entry are stored before word 0; so are those of a
\* context descriptor.
smmu_strtab_write_ste ==
  /\ Running("ste")
  /\ LET h == Head(todo) IN ste' = [ste EXCEPT ![h.smmu][h.sid] = h.val]
  /\ Done
  /\ UNCHANGED <<sc, g_smmu, base, tables, prog, l2, l1, masters, live, cd,
                 regs, conf, tlb, call, ret, left, hist>>

smmu_cdtab_write_ctx_desc ==
  /\ Running("cd")
  /\ LET h == Head(todo) IN cd' = [cd EXCEPT ![h.tab][h.ssid] = h.val]
  /\ Done
  /\ UNCHANGED <<sc, g_smmu, base, tables, prog, l2, l1, ste, masters, live,
                 regs, conf, tlb, call, ret, left, hist>>

\* What the store of an aborting entry at sid * STRTAB_STE_DWORDS of the
\* table hits: in a table of two levels that is an array of level 1
\* descriptors of one word, and the entry is three words long.
ClearsNothing(s, sid) == UNCHANGED <<ste, l1>>

ClearEntry(s, sid) ==
  IF Hw(s).two_level THEN /\ l1' = [l1 EXCEPT ![s] = @ \ (8 * sid .. 8 * sid + 2)]
                          /\ ste' = ste
                     ELSE /\ ste' = [ste EXCEPT ![s][sid] = Abort]
                          /\ l1' = l1

smmu_cdtab_free(m) == live' = live \ {m.tab}

val_smmu_unmap(r) ==
  /\ Ready
  /\ \/ /\ ~Known(r.sid)  \* no memory for a node
        /\ Call([op |-> "unmap", req |-> r], <<>>, 0)
        /\ UNCHANGED <<l1, ste, masters, live>>
     \/ LET found == smmu_master_at(r.sid)
            m     == found.list[found.at]
        IN IF m.smmu = 0 \/ r.sid \notin Sids(m.smmu)
           THEN /\ masters' = found.list
                /\ Call([op |-> "unmap", req |-> r], <<>>, 0)
                /\ UNCHANGED <<l1, ste, live>>
           ELSE /\ ClearEntry(m.smmu, r.sid)
                /\ smmu_cdtab_free(m)
                /\ masters' = [found.list EXCEPT ![found.at] = Zero]
                /\ Call([op |-> "unmap", req |-> r], smmu_tlbi_cfgi(m.smmu), 0)
  /\ UNCHANGED <<sc, g_smmu, base, tables, prog, l2, cd, regs, conf, tlb, hist>>

\* What the caller may count on once the call has returned: after a stage 1
\* mapping over another configuration, nothing about the other substreams.
Promise ==
  LET r == call.req
  IN CASE call.op = "map" /\ ret = 0 ->
            [promised EXCEPT ![r.smmu] = [k \in Streams(r.smmu) |->
               IF k[1] # r.sid THEN @[k]
               ELSE IF r.stage = "S2" \/ k[2] = r.ssid THEN r.pgt
               ELSE IF call.was = "S1" THEN @[k] ELSE "any"]]
       [] call.op = "unmap" /\ r.smmu \in base ->
            [promised EXCEPT ![r.smmu] = [k \in Streams(r.smmu) |->
               IF k[1] = r.sid /\ @[k] # "any" THEN "abort" ELSE @[k]]]
       [] OTHER -> promised

Return ==
  /\ call # Idle /\ todo = <<>>
  /\ call' = Idle
  /\ g_smmu' = IF call.op = "stop" THEN "freed" ELSE g_smmu
  /\ promised' = Promise
  /\ UNCHANGED <<sc, base, tables, prog, l2, l1, ste, masters, live, cd, regs, conf, tlb,
                 todo, ret, left, pend>>

-----------------------------------------------------------------------------
\* The firmware may leave an SMMU running, with its own configuration cached.
Init ==
  /\ sc \in Scenarios
  /\ g_smmu = "null" /\ base = {} /\ tables = {} /\ prog = {}
  /\ cr0 \in [SMMUs -> {{}, {"CMDQEN", "SMMUEN"}}] /\ ack = cr0
  /\ prod = [s \in SMMUs |-> 0] /\ cons = prod
  /\ buf = [s \in SMMUs |-> [i \in 0 .. Nent - 1 |-> None]]
  /\ l2 = [s \in SMMUs |-> {}] /\ l1 = l2
  /\ ste = [s \in SMMUs |-> [i \in Sids(s) |-> Abort]]
  /\ masters = <<>> /\ live = {}
  /\ cd = [t \in 1 .. sc.calls |-> [i \in 0 .. 1 |-> "fault"]]
  /\ conf = [s \in SMMUs |-> [k \in Streams(s) |-> "firmware"]] /\ tlb = conf
  /\ call = Idle /\ todo = <<>> /\ ret = 0 /\ left = sc.calls
  /\ pend = [s \in SMMUs |-> <<>>]
  /\ promised = [s \in SMMUs |-> [k \in Streams(s) |-> "any"]]

Smmu == \E s \in SMMUs : Ack(s) \/ Consume(s)

Driver ==
  \/ smmu_init \/ smmu_reg_write_sync \/ Acked \/ AckTimeout \/ Program
  \/ smmu_cmdq_write_cmd \/ smmu_cmdq_poll_until_consumed
  \/ smmu_strtab_write_ste \/ smmu_cdtab_write_ctx_desc \/ smmu_dev_disable \/ smmu_free_strtab
  \/ Return

Tests ==
  \/ val_smmu_init \/ val_smmu_stop
  \/ \E s \in SMMUs, en \in sc.states : smmu_set_state(s, en)
  \/ \E r \in sc.maps : val_smmu_map(r)
  \/ \E r \in sc.unmaps : val_smmu_unmap(r)

Next == Smmu \/ (\E s \in SMMUs : Fetch(s)) \/ Driver \/ Tests

\* An enabled SMMU answers; the PE runs the driver.
Spec == Init /\ [][Next]_vars /\ WF_vars(Smmu) /\ WF_vars(Driver)

-----------------------------------------------------------------------------
\* An SMMU that translates with the driver's tables uses nothing the firmware
\* left in its caches.
NoFirmwareConfig ==
  sc.prompt => \A s \in prog : "SMMUEN" \in ack[s] =>
    \A k \in Streams(s) : conf[s][k] # "firmware" /\ tlb[s][k] # "firmware"

\* The stream table of an SMMU is freed only when it no longer reads it.
StopSafe == sc.prompt => \A s \in prog \ tables : "SMMUEN" \notin ack[s]

\* What val_smmu_map and val_smmu_unmap promise holds between calls, whatever
\* the SMMU had cached before: a mapped substream translates with the page
\* table last given for it, an unmapped one aborts, and a map that failed has
\* changed nothing. This needs every step of tlbi_cfgi, in its order. During a
\* call neither what the firmware left (NoFirmwareConfig) nor a stream table
\* that val_smmu_stop has freed (StopSafe) is used.
AsPromised ==
  /\ NoFirmwareConfig /\ StopSafe
  /\ sc.prompt /\ call = Idle /\ g_smmu = "live" =>
       \A s \in base : "SMMUEN" \in ack[s] =>
         \A k \in Streams(s) : promised[s][k] # "any" =>
           {conf[s][k], tlb[s][k], Walk(s, k[1], k[2])} \subseteq {None, promised[s][k]}

\* Between two calls every stream the caller has unmapped aborts.
UnmapClears ==
  sc.prompt /\ call = Idle /\ g_smmu = "live" =>
    \A s \in base : \A k \in Streams(s) :
      promised[s][k] = "abort" => Walk(s, k[1], k[2]) = "abort"

\* No command is overwritten in the queue before the SMMU has consumed it, and
\* the SMMU consumes them in the order they were issued; between calls it has
\* consumed them all: a poll that ended saw the queue empty, not full.
QueueFaithful ==
  sc.prompt =>
    \A s \in SMMUs :
      /\ Len(pend[s]) = (prod[s] - cons[s]) % (2 * Nent)
      /\ \A i \in DOMAIN pend[s] : buf[s][(cons[s] + i - 1) % Nent] = pend[s][i]
      /\ call = Idle => pend[s] = <<>>

\* No stream table entry the SMMU can read points to a context descriptor
\* table that was freed, and every allocated table belongs to one master.
TablesOwned ==
  /\ \A s \in tables : \A i \in Sids(s) :
       ste[s][i].config = "S1" => ste[s][i].tab \in live
  /\ \A t \in live : Cardinality({i \in DOMAIN masters : masters[i].tab = t}) = 1
  /\ \A m \in Range(masters) : m.tab # 0 => m.tab \in live

\* Every call returns.
Returns == call # Idle ~> call = Idle
=============================================================================
