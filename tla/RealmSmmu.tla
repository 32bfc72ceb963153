----------------------------- MODULE RealmSmmu -----------------------------
(***************************************************************************)
(* The SMMU driver that runs at EL3 on the realm register frame            *)
(* (smmuv3_realm.c), and the SMMU. It is a port of the EL2 driver that     *)
(* SmmuV3 models, with these differences: every SMMU it initialises is     *)
(* the one at ROOT_IOVIRT_SMMUV3_BASE, so each initialisation programs the *)
(* same frame with a queue and a table of its own; entries bypass instead  *)
(* of aborting; a mapping invalidates its own entry before everything; the *)
(* reset leaves CMDQEN as it is.                                           *)
(***************************************************************************)
EXTENDS Integers, Sequences, FiniteSets, SequencesExt

CONSTANTS RlmScenarios, \* the SMMU and the calls made on the driver
          RlmNent       \* entries of the command queue, a power of two

ASSUME RlmAssumption == RlmNent \in {2 ^ i : i \in 0 .. 19}

VARIABLES rsc,
          rcr0, rack,       \* SMMU_R_CR0 and SMMU_R_CR0ACK
          nscr0,            \* SMMU_CR0, of the non-secure frame
          rprod, rcons,     \* SMMU_R_CMDQ_PROD and SMMU_R_CMDQ_CONS
          rqueue, rstrtab,  \* the SMMU structure whose queue and table the frame has
          g_smmu,           \* SMMU structures: [ok, live]; <<>> before val_smmu_init
          qbuf,             \* the entries of each structure's command queue
          rste, rl1,        \* its stream table: entries; blocks with a level 2 table
          rmasters,         \* g_smmu_master_list_head, the head first
          rcd, rlive,       \* context descriptor tables: contents; allocated ones
          g_sid,
          rconf, rcdc, rtlb,  \* what the SMMU has cached: stream table entries,
                            \* context descriptors and translations
          rtodo, rcall, rret, rleft,
          rasked            \* history: what the calls that returned asked for

drvvars == <<g_smmu, rste, rl1, rmasters, rcd, rlive>>
frame   == <<rcr0, rack, nscr0, rprod, rcons, rqueue, rstrtab, qbuf>>
caches  == <<rconf, rcdc, rtlb>>
ctl     == <<rcall, rret, rleft, g_sid>>
rlmvars == <<rsc, drvvars, frame, caches, ctl, rtodo, rasked>>

-----------------------------------------------------------------------------
(* The SMMU.                                                               *)
Sids     == 0 .. 2 ^ rsc.sid_bits - 1
BlockOf(sid) == IF rsc.two_level THEN sid \div 2 ^ rsc.split ELSE 0
Bypass   == [config |-> "bypass"]
S2(p)    == [config |-> "S2", pgt |-> p]
S1(t)    == [config |-> "S1", tab |-> t]
Firmware == [config |-> "firmware"]
Junk     == [config |-> "junk"]
NoEntry  == [config |-> "none"]

\* What the programmed tables hold; a level 1 table is not cleared. A table that
\* was freed may hold anything.
ReadSte(sid) == IF BlockOf(sid) \in rl1[rstrtab] THEN rste[rstrtab][sid] ELSE Junk
ReadCd(t)    == IF t \in rlive THEN rcd[t] ELSE "junk"
\* What an entry, with its descriptor, translates with.
Means(e, cd) == CASE e.config = "S1" -> cd [] e.config = "S2" -> e.pgt [] OTHER -> e.config
RlmWalk(sid) ==
  LET e == ReadSte(sid) IN Means(e, IF e.config = "S1" THEN ReadCd(e.tab) ELSE "none")

RlmAck ==
  /\ rack # rcr0 /\ rack' = rcr0
  /\ UNCHANGED <<rsc, drvvars, rcr0, nscr0, rprod, rcons, rqueue, rstrtab, qbuf, caches, ctl, rtodo, rasked>>

Emptied == [s \in Sids |-> "none"]

RlmConsume ==
  /\ "CMDQEN" \in rack /\ rprod # rcons
  /\ LET c == qbuf[rqueue][rcons % RlmNent]
     IN /\ LET dropped == {s \in Sids : c.op = "CFGI_ALL" \/ (c.op = "CFGI_STE" /\ c.sid = s)}
           IN /\ rconf' = [s \in Sids |-> IF s \in dropped THEN NoEntry ELSE rconf[s]]
              /\ rcdc' = [s \in Sids |-> IF s \in dropped THEN "none" ELSE rcdc[s]]
        /\ rtlb' = IF c.op = "TLBI_NSNH_ALL" THEN Emptied ELSE rtlb
  /\ rcons' = (rcons + 1) % (2 * RlmNent)
  /\ UNCHANGED <<rsc, drvvars, rcr0, rack, nscr0, rprod, rqueue, rstrtab, qbuf, ctl, rtodo, rasked>>

\* An entry, the descriptor it points to and a translation are cached in steps
\* of their own, at any time: a cached entry leads to a descriptor later.
RlmFetch(sid) ==
  /\ "SMMUEN" \in rack /\ rstrtab # 0
  /\ \/ rconf[sid] = NoEntry /\ rconf' = [rconf EXCEPT ![sid] = ReadSte(sid)] /\ UNCHANGED <<rcdc, rtlb>>
     \/ rconf[sid].config = "S1" /\ rcdc[sid] = "none"
        /\ rcdc' = [rcdc EXCEPT ![sid] = ReadCd(rconf[sid].tab)] /\ UNCHANGED <<rconf, rtlb>>
     \/ Means(rconf[sid], rcdc[sid]) # "none" /\ rtlb[sid] = "none"
        /\ rtlb' = [rtlb EXCEPT ![sid] = Means(rconf[sid], rcdc[sid])] /\ UNCHANGED <<rconf, rcdc>>
  /\ UNCHANGED <<rsc, drvvars, frame, ctl, rtodo, rasked>>

-----------------------------------------------------------------------------
(* Steps of the driver, queued in rtodo. Commands go to the queue of the   *)
(* structure used, at the index the frame's register holds.                *)
smmu_cmdq_build_cmd(op) == [op |-> op, sid |-> IF g_sid \in Sids THEN g_sid ELSE 0]
Do(kind, s)  == [do |-> kind, smmu |-> s]
Cmd(s, op)   == [do |-> "cmd", smmu |-> s, op |-> op]
Cr0(s, on, off) == [do |-> "cr0", smmu |-> s, on |-> on, off |-> off]

smmu_cmdq_inc_prod(p)  == (p + 1) % (2 * RlmNent)
smmu_queue_full(p, c)  == p % RlmNent = c % RlmNent /\ p \div RlmNent # c \div RlmNent
smmu_queue_empty(p, c) == p % RlmNent = c % RlmNent /\ p \div RlmNent = c \div RlmNent

At(kind) == rtodo # <<>> /\ Head(rtodo).do = kind
Next1    == rtodo' = Tail(rtodo)

\* Whether the queue is full is asked of indices that stay 0.
smmu_cmdq_write_cmd ==
  /\ At("cmd") /\ ~smmu_queue_full(0, 0)
  /\ qbuf' = [qbuf EXCEPT ![Head(rtodo).smmu][rprod % RlmNent] = smmu_cmdq_build_cmd(Head(rtodo).op)]
  /\ rprod' = smmu_cmdq_inc_prod(rprod)
  /\ Next1
  /\ UNCHANGED <<rsc, drvvars, rcr0, rack, nscr0, rcons, rqueue, rstrtab, caches, ctl, rasked>>

\* A timeout prints.
smmu_cmdq_poll_until_consumed ==
  /\ At("poll") /\ (smmu_queue_empty(rprod, rcons) \/ ~rsc.prompt)
  /\ Next1
  /\ UNCHANGED <<rsc, drvvars, frame, caches, ctl, rasked>>

smmu_tlbi_cached_ste(s)   == <<Cmd(s, "CFGI_STE"), Cmd(s, "CMD_SYNC"), Do("poll", s)>>
smmu_tlbi_prefetch_cfg(s) == <<Cmd(s, "CFGI_STE"), Do("poll", s)>>

\* Mutant: the TLB is left alone.
CfgiOnly(s) == <<Cmd(s, "CFGI_ALL"), Cmd(s, "CMD_SYNC"), Do("poll", s)>>

smmu_tlbi_cfgi(s) ==
  <<Cmd(s, "CFGI_ALL")>> \o (IF rsc.hyp THEN <<Cmd(s, "TLBI_EL2_ALL")>> ELSE <<>>)
  \o <<Cmd(s, "TLBI_NSNH_ALL"), Cmd(s, "CMD_SYNC"), Do("poll", s)>>

\* A write of CR0, and the poll of its acknowledgement.
smmu_reg_write_sync ==
  /\ At("cr0")
  /\ rcr0' = (rcr0 \cup Head(rtodo).on) \ Head(rtodo).off
  /\ rtodo' = <<Do("ack", Head(rtodo).smmu)>> \o Tail(rtodo)
  /\ UNCHANGED <<rsc, drvvars, rack, nscr0, rprod, rcons, rqueue, rstrtab, qbuf, caches, ctl, rasked>>

\* A timeout ends smmu_reset, with a value smmu_init takes for success;
\* smmu_dev_disable goes on.
RlmAcked ==
  /\ At("ack")
  /\ \/ rack = rcr0 /\ Next1
     \/ ~rsc.prompt /\ rtodo' = SelectSeq(Tail(rtodo), LAMBDA t : t.smmu # Head(rtodo).smmu \/ t.do = "free")
  /\ UNCHANGED <<rsc, drvvars, frame, caches, ctl, rasked>>

smmu_reset(s) ==
  <<Cr0(s, {}, {"SMMUEN"}), Do("program", s), Cr0(s, {"CMDQEN"}, {}), Cr0(s, {"EVENTQEN"}, {})>>
  \o smmu_tlbi_cfgi(s) \o <<Cr0(s, {"SMMUEN"}, {})>>

\* The bases and indices are written. With the queue enabled a write of its
\* base or of its indices may take effect or not.
Program ==
  /\ At("program")
  /\ LET s == Head(rtodo).smmu IN
       /\ rstrtab' = s
       /\ rqueue' \in IF "CMDQEN" \in rack THEN {rqueue, s} ELSE {s}
       /\ \/ rprod' = 0 /\ rcons' = 0
          \/ "CMDQEN" \in rack /\ UNCHANGED <<rprod, rcons>>
  /\ Next1
  /\ UNCHANGED <<rsc, drvvars, rcr0, rack, nscr0, qbuf, caches, ctl, rasked>>

-----------------------------------------------------------------------------
(* Calls.                                                                  *)
NoCall == [op |-> "none"]
RlmReady == rcall = NoCall /\ rleft > 0 /\ \A i \in 1 .. Len(g_smmu) : g_smmu[i].live
Enter(op, steps, r) == rcall' = [op |-> op] /\ rtodo' = steps /\ rret' = r /\ rleft' = rleft - 1
EnterFor(sid, what, steps) ==
  rcall' = [op |-> "entry", sid |-> sid, what |-> what] /\ rtodo' = steps /\ rret' = 0 /\ rleft' = rleft - 1

\* val_smmu_init: structures, unless there are no SMMUs or no memory, then one
\* round for each. Structures of an earlier call are given up, its masters stay.
\* (A later call without memory leaves a null pointer that the next one follows.)
val_smmu_init ==
  /\ RlmReady
  /\ LET n == Len(g_smmu) IN
     /\ n + rsc.num <= rsc.structs
     /\ \/ (rsc.num = 0 \/ n = 0) /\ Enter("init", <<>>, 1) /\ UNCHANGED g_smmu
        \/ /\ rsc.num # 0
           /\ g_smmu' = g_smmu \o [i \in 1 .. rsc.num |-> [ok |-> FALSE, live |-> TRUE]]
           /\ Enter("init", [i \in 1 .. rsc.num |-> Do("init", n + i)], 0)
  /\ UNCHANGED <<rsc, rste, rl1, rmasters, rcd, rlive, frame, caches, g_sid, rasked>>

smmu_cmd_queue_init == [i \in 0 .. RlmNent - 1 |-> [op |-> "none", sid |-> 0]]
smmu_probe == rsc.v3 /\ (rsc.s1p \/ rsc.s2p)
\* All entries of a linear table bypass; of two levels only the first is there.
smmu_strtab_init_linear  == [i \in Sids |-> Bypass]
smmu_strtab_init_2level  == IF rsc.two_level THEN {} ELSE {0}

\* smmu_init of one structure: it may fail for want of memory, which ends the
\* loop.
smmu_init ==
  /\ At("init")
  /\ LET s == Head(rtodo).smmu IN
     \/ /\ ~rsc.v3 /\ Next1 /\ UNCHANGED <<g_smmu, qbuf, rste, rl1, rret, rasked>>
     \/ /\ rsc.v3 /\ (~smmu_probe \/ rsc.nomem)
        /\ rret' = 1 /\ rtodo' = <<>> /\ UNCHANGED <<g_smmu, qbuf, rste, rl1, rasked>>
     \/ /\ smmu_probe
        /\ g_smmu' = [g_smmu EXCEPT ![s].ok = TRUE]
        /\ qbuf' = [qbuf EXCEPT ![s] = smmu_cmd_queue_init]
        /\ rste' = [rste EXCEPT ![s] = smmu_strtab_init_linear]
        /\ rl1' = [rl1 EXCEPT ![s] = smmu_strtab_init_2level]
        /\ rasked' = [i \in Sids |-> IF rsc.two_level THEN "any" ELSE "bypass"]
        /\ rtodo' = smmu_reset(s) \o Tail(rtodo) /\ UNCHANGED rret
  /\ UNCHANGED <<rsc, rmasters, rcd, rlive, rcr0, rack, nscr0, rprod, rcons, rqueue, rstrtab, caches,
                 rcall, rleft, g_sid>>

\* smmu_set_state reads and writes CR0 of the other frame.
smmu_set_state(en) ==
  /\ RlmReady /\ g_smmu # <<>>
  /\ IF Last(g_smmu).ok
       THEN nscr0' = (IF en THEN nscr0 \cup {"SMMUEN"} ELSE nscr0 \ {"SMMUEN"}) /\ Enter("state", <<>>, 0)
       ELSE UNCHANGED nscr0 /\ Enter("state", <<>>, 1)
  /\ UNCHANGED <<rsc, drvvars, rcr0, rack, rprod, rcons, rqueue, rstrtab, qbuf, caches, g_sid, rasked>>

NewMaster == [sid |-> 0, smmu |-> 0, tab |-> 0, ssid_bits |-> 0]
KnownSid(sid) == \E i \in 1 .. Len(rmasters) : rmasters[i].sid = sid

smmu_master_at(sid) ==
  IF KnownSid(sid) THEN [list |-> rmasters, at |-> SelectInSeq(rmasters, LAMBDA m : m.sid = sid)]
  ELSE [list |-> <<NewMaster>> \o rmasters, at |-> 1]

StoreSte(s, sid, e) == [do |-> "ste", smmu |-> s, sid |-> sid, entry |-> e]

\* Bypass: the entry, word 0 first, and no command. Otherwise words 1 to 3,
\* word 0, and the entry is invalidated twice.
smmu_strtab_write_ste(s, sid, e) ==
  <<StoreSte(s, sid, e)>> \o
  IF e = Bypass THEN <<>> ELSE smmu_tlbi_cached_ste(s) \o smmu_tlbi_prefetch_cfg(s)

FreeTab == CHOOSE t \in DOMAIN rcd : t \notin rlive

StructAt(index) == Len(g_smmu) - rsc.num + index
Usable(index)   == g_smmu # <<>> /\ index \in 1 .. rsc.num /\ g_smmu[StructAt(index)].ok

\* smmu_cdtab_write_ctx_desc fails for a substream out of range, or for want of
\* a leaf table, which is taken when a descriptor is first written.
smmu_cdtab_write_ctx_desc(r, m, nomem) ==
  /\ r.ssid < 2 ^ m.ssid_bits
  /\ ~(nomem = "leaf" /\ rsc.cd2l /\ (m.tab = 0 \/ rcd[m.tab] = "fault"))

\* Where val_smmu_rlm_map returns 1, when the allocation nomem fails.
MapFails(r, m, s, nomem) ==
  CASE \/ r.stage = "S2" /\ ~rsc.s2p
       \/ r.stage = "S1" /\ ~rsc.s1p
       \/ r.sid \notin Sids
       \/ nomem = "level2" /\ BlockOf(r.sid) \notin rl1[s]  -> "check"
    [] r.stage = "S1" /\ nomem = "table" /\ m.tab = 0        -> "cdtab"
    [] r.stage = "S1" /\ ~smmu_cdtab_write_ctx_desc(r, m, nomem) -> "ctx_desc"
    [] OTHER -> "none"

\* The table of a master is allocated, cleared, for its first mapping and kept
\* when the descriptor cannot be written.
MapSteps(r, s, found, m, at) ==
  LET tab == IF m.tab # 0 THEN m.tab ELSE FreeTab
      e   == CASE r.stage = "S2" -> S2(r.pgt) [] r.stage = "S1" -> S1(tab) [] OTHER -> Bypass
      has == r.stage = "S1" /\ at \in {"ctx_desc", "none"}
  IN /\ rmasters' = [found.list EXCEPT ![found.at] = IF has THEN [m EXCEPT !.tab = tab] ELSE m]
     /\ rl1' = IF at = "check" THEN rl1 ELSE [rl1 EXCEPT ![s] = @ \cup {BlockOf(r.sid)}]
     /\ rlive' = IF has THEN rlive \cup {tab} ELSE rlive
     /\ rcd' = CASE has /\ at = "none" -> [rcd EXCEPT ![tab] = r.pgt]
                 [] has /\ m.tab = 0   -> [rcd EXCEPT ![tab] = "fault"]
                 [] OTHER -> rcd
     /\ IF at # "none" THEN Enter("map", <<>>, 1)
        ELSE EnterFor(r.sid, IF e = Bypass THEN "bypass" ELSE r.pgt,
               smmu_strtab_write_ste(s, r.sid, e) \o smmu_tlbi_cfgi(s))

val_smmu_rlm_map(r) ==
  /\ RlmReady /\ g_sid' = r.sid
  /\ \/ /\ ~Usable(r.index)
        /\ Enter("map", <<>>, 1) /\ UNCHANGED <<rl1, rmasters, rcd, rlive>>
     \/ /\ Usable(r.index) /\ rsc.nomem /\ ~KnownSid(r.sid)
        /\ Enter("map", <<>>, 1) /\ UNCHANGED <<rl1, rmasters, rcd, rlive>>
     \/ /\ Usable(r.index)
        /\ \E nomem \in {"none"} \cup (IF rsc.nomem THEN {"level2", "table", "leaf"} ELSE {}) :
             LET s     == StructAt(r.index)
                 found == smmu_master_at(r.sid)
                 node  == found.list[found.at]
                 m     == IF node.smmu # 0 THEN node
                          ELSE [node EXCEPT !.smmu = s, !.sid = r.sid, !.ssid_bits = r.ssid_bits]
             IN MapSteps(r, s, found, m, MapFails(r, m, s, nomem))
  /\ UNCHANGED <<rsc, g_smmu, rste, frame, caches, rasked>>

\* The service passes the stream and bypass; stage2 and the index are whatever
\* the stack holds.
val_smmu_root_config_service(sid) ==
  \E stage \in {"bypass", "S2"}, index \in {1, 0} :
    val_smmu_rlm_map([sid |-> sid, stage |-> stage, index |-> index, pgt |-> "ttbr_el3",
                      ssid |-> 0, ssid_bits |-> 0])

WriteEntry ==
  /\ At("ste")
  /\ LET h == Head(rtodo) IN rste' = [rste EXCEPT ![h.smmu][h.sid] = h.entry]
  /\ Next1
  /\ UNCHANGED <<rsc, g_smmu, rl1, rmasters, rcd, rlive, frame, caches, ctl, rasked>>

UnmapSteps(m, sid) ==
  smmu_strtab_write_ste(m.smmu, sid, Bypass)
  \o <<[do |-> "cdfree", smmu |-> m.smmu, tab |-> m.tab]>> \o smmu_tlbi_cfgi(m.smmu)

\* The entry is made to bypass; the table is indexed as a linear one.
val_smmu_unmap(sid) ==
  /\ RlmReady /\ Usable(1) /\ ~rsc.two_level
  /\ LET found == smmu_master_at(sid)
         m     == found.list[found.at]
     IN IF m.smmu = 0 \/ sid \notin Sids
          THEN rmasters' = found.list /\ Enter("unmap", <<>>, 0)
          ELSE /\ rmasters' = [found.list EXCEPT ![found.at] = NewMaster]
               /\ EnterFor(sid, "bypass", UnmapSteps(m, sid))
  /\ UNCHANGED <<rsc, g_smmu, rste, rl1, rcd, rlive, frame, caches, g_sid, rasked>>

smmu_cdtab_free ==
  /\ At("cdfree")
  /\ rlive' = rlive \ {Head(rtodo).tab}
  /\ Next1
  /\ UNCHANGED <<rsc, g_smmu, rste, rl1, rmasters, rcd, frame, caches, ctl, rasked>>

val_smmu_stop ==
  /\ RlmReady /\ rsc.stops /\ g_smmu # <<>>
  /\ Enter("stop", FlattenSeq([i \in 1 .. Len(g_smmu) |->
       IF g_smmu[i].ok THEN <<Cr0(i, {}, rcr0), Do("free", i)>> ELSE <<>>]), 0)
  /\ UNCHANGED <<rsc, drvvars, frame, caches, g_sid, rasked>>

smmu_free_strtab ==
  /\ At("free")
  /\ g_smmu' = [g_smmu EXCEPT ![Head(rtodo).smmu] = [ok |-> FALSE, live |-> FALSE]]
  /\ Next1
  /\ UNCHANGED <<rsc, rste, rl1, rmasters, rcd, rlive, frame, caches, ctl, rasked>>

RlmReturn ==
  /\ rcall # NoCall /\ rtodo = <<>>
  /\ rcall' = NoCall
  /\ rasked' = IF rcall.op = "entry" THEN [rasked EXCEPT ![rcall.sid] = rcall.what] ELSE rasked
  /\ UNCHANGED <<rsc, drvvars, frame, caches, rtodo, rret, rleft, g_sid>>

-----------------------------------------------------------------------------
RlmInit ==
  /\ rsc \in RlmScenarios
  /\ rcr0 = rsc.cr0 /\ rack = rcr0 /\ nscr0 = {} /\ rprod = 0 /\ rcons = 0
  /\ rqueue = 0 /\ rstrtab = 0 /\ g_smmu = <<>>
  /\ qbuf = [s \in 0 .. rsc.structs |-> smmu_cmd_queue_init]
  /\ rste = [s \in 1 .. rsc.structs |-> smmu_strtab_init_linear]
  /\ rl1 = [s \in 1 .. rsc.structs |-> {}]
  /\ rmasters = <<>> /\ rcd = [t \in 1 .. rsc.calls |-> "fault"] /\ rlive = {} /\ g_sid = 0
  /\ rconf = [i \in Sids |-> Firmware] /\ rcdc = Emptied /\ rtlb = [i \in Sids |-> "firmware"]
  /\ rtodo = <<>> /\ rcall = NoCall /\ rret = 0 /\ rleft = rsc.calls
  /\ rasked = [i \in Sids |-> "any"]

RlmSmmu == RlmAck \/ RlmConsume \/ \E sid \in rsc.active : RlmFetch(sid)

RlmDriver ==
  \/ smmu_cmdq_write_cmd \/ smmu_cmdq_poll_until_consumed \/ smmu_reg_write_sync \/ RlmAcked
  \/ Program \/ smmu_init \/ WriteEntry \/ smmu_cdtab_free \/ smmu_free_strtab \/ RlmReturn

RlmCalls ==
  \/ val_smmu_init \/ val_smmu_stop
  \/ \E en \in rsc.states : smmu_set_state(en)
  \/ \E r \in rsc.maps : val_smmu_rlm_map(r)
  \/ \E sid \in rsc.services : val_smmu_root_config_service(sid)
  \/ \E sid \in rsc.unmaps : val_smmu_unmap(sid)

RlmNext == RlmSmmu \/ RlmDriver \/ RlmCalls
RlmDone == rcall = NoCall /\ UNCHANGED rlmvars

-----------------------------------------------------------------------------
\* On an SMMU that was initialised once, with its queue off, a stream translates
\* as the last call for it asked, whatever was cached before, between calls and
\* while one for another stream is in progress: no entry, descriptor or
\* translation the SMMU has cached, and no table it reads, is older, was freed or
\* never written. Not so during val_smmu_unmap of the stream itself, which frees
\* the descriptors before it invalidates the entry.
RlmAsAsked ==
  rsc.prompt /\ "SMMUEN" \in rack /\ rstrtab # 0 /\ rcall.op \notin {"init", "stop"} =>
    \A sid \in rsc.active :
      rasked[sid] # "any" /\ (rcall.op = "entry" => rcall.sid # sid) =>
        /\ {Means(rconf[sid], rcdc[sid]), rtlb[sid], RlmWalk(sid)} \subseteq {"none", rasked[sid]}
        /\ rcdc[sid] # "junk"
=============================================================================
