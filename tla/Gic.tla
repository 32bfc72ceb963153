-------------------------------- MODULE Gic --------------------------------
(***************************************************************************)
(* The interrupt controller as one PE uses it: the GIC information table   *)
(* (acs_gic.c and pal_gic.c of both platforms), the GICv2 and GICv3        *)
(* drivers, and the bare-metal IRQ dispatch (rme_exception.c). Interrupt   *)
(* identifiers are the architecture's; register blocks are numbered by     *)
(* their 64KB frames. The steps of a call interleave with the interrupts.  *)
(***************************************************************************)
EXTENDS Naturals, Sequences, FiniteSets, SequencesExt

CONSTANTS GicPlatforms,  \* the machines
          IntIds,        \* the interrupts looked at
          MaxInstalls,   \* bound on the calls of the tests
          MaxRaised      \* bound on the interrupts the devices raise

DefaultPriority == 128
PriorityMask    == 255
EspiStart == 4096
EppiStart == 1056
LpiStart  == 8192

VARIABLES gp,              \* the machine, and what its firmware left
          gic_info,        \* g_gic_info_table
          irq,             \* the interrupt registers of the GIC
          pe,              \* the PE: vector, HCR_EL2.IMO, DAIF, CPU interface
          g_intr_handler,
          gcall,           \* the call in progress
          glog             \* history

gicvars == <<gp, gic_info, irq, pe, g_intr_handler, gcall, glog>>

-----------------------------------------------------------------------------
(* The information table.                                                  *)
GicEntry(type, base, length, id) == [type |-> type, base |-> base, length |-> length, entry_id |-> id]

MadtEntries(s) ==
  CASE s.kind = "GICC" -> (IF s.cpuif # 0 THEN <<GicEntry("CPUIF", s.cpuif, 0, 0)>> ELSE <<>>)
                          \o (IF s.rd # 0 THEN <<GicEntry("GICC_GICRD", s.rd, 0, 0)>> ELSE <<>>)
                          \o (IF s.gich # 0 THEN <<GicEntry("GICH", s.gich, 0, 0)>> ELSE <<>>)
    [] s.kind = "GICR" -> <<GicEntry("GICR_GICRD", s.base, s.length, 0)>>
    [] s.kind = "other" -> <<>>
    [] OTHER -> <<GicEntry(s.kind, s.base, 0, s.id)>>

Count(entries, types) == Cardinality({i \in 1 .. Len(entries) : entries[i].type \in types})

\* Every structure of the MADT in its order.
pal_uefi_gic_create_info_table(madt) ==
  LET entries == FlattenSeq([i \in 1 .. Len(madt) |-> MadtEntries(madt[i])])
  IN [entries |-> entries, num_gicd |-> Count(entries, {"GICD"}), num_its |-> Count(entries, {"GICITS"}),
      num_gicrd |-> Count(entries, {"GICR_GICRD", "GICC_GICRD"}), version |-> gp.version]

\* The lists of the platform's configuration, type after type.
pal_bm_gic_create_info_table(cfg) ==
  LET Of(kind) == SelectSeq(FlattenSeq([i \in 1 .. Len(cfg) |-> MadtEntries(cfg[i])]), LAMBDA e : e.type = kind)
      entries  == Of("CPUIF") \o Of("GICR_GICRD") \o Of("GICD") \o Of("GICITS") \o Of("GICH") \o Of("MSI_FRAME")
  IN [entries |-> entries, num_gicd |-> Count(entries, {"GICD"}), num_its |-> Count(entries, {"GICITS"}),
      num_gicrd |-> Count(entries, {"GICR_GICRD"}), version |-> gp.version]

FirstBase(type) ==
  LET i == SelectInSeq(gic_info.entries, LAMBDA e : e.type = type)
  IN IF i = 0 THEN 0 ELSE gic_info.entries[i].base

val_get_gicd_base  == FirstBase("GICD")
val_get_gich_base  == FirstBase("GICH")
val_get_cpuif_base == FirstBase("CPUIF")

\* The index-th GICR structure, unless a GICC structure comes before it.
val_get_gicr_base(index) ==
  LET e    == gic_info.entries
      hits == {i \in 1 .. Len(e) : \/ e[i].type = "GICC_GICRD"
                                   \/ e[i].type = "GICR_GICRD" /\ Count(SubSeq(e, 1, i - 1), {"GICR_GICRD"}) = index}
      i    == CHOOSE k \in hits : \A n \in hits : k <= n
  IN IF hits = {} THEN [base |-> 0, length |-> 0]
     ELSE [base |-> e[i].base, length |-> IF e[i].type = "GICC_GICRD" THEN 0 ELSE e[i].length]

\* The PE a redistributor frame is of; other frames read as zero.
AffinityAt(base) == IF base \in DOMAIN gp.frames THEN gp.frames[base] ELSE 0

\* The first of the frames a walk over a region reads that is the PE's.
FrameOf(p, base, length, granularity) ==
  LET read == IF length = 0 THEN {base} ELSE {base + granularity * k : k \in 0 .. (length - 1) \div granularity}
      hits == {a \in read : AffinityAt(a) = p}
  IN IF hits = {} THEN 0 ELSE CHOOSE a \in hits : \A b \in hits : a <= b

\* Control and SGI frames only, in the first structure only.
v3_get_pe_gicr_base == LET r == val_get_gicr_base(0) IN FrameOf(gp.pe, r.base, r.length, 2)

\* Mutant: the structures after the first are not walked.
FirstOnly(p) == LET r == val_get_gicr_base(0) IN FrameOf(p, r.base, r.length, 2)

\* All the GICR structures.
val_gic_get_pe_rdbase(p) ==
  LET found(i) == LET r == val_get_gicr_base(i) IN IF r.length = 0 THEN 0 ELSE FrameOf(p, r.base, r.length, 2)
      hits     == {i \in 0 .. gic_info.num_gicrd - 1 : found(i) # 0}
      first    == val_get_gicr_base(0)
  IN IF gic_info.num_gicrd = 0 THEN (IF first.length = 0 THEN FrameOf(p, first.base, 0, 2) ELSE 0)
     ELSE IF hits = {} THEN 0 ELSE found(CHOOSE i \in hits : \A j \in hits : i <= j)

-----------------------------------------------------------------------------
(* Kinds of interrupts.                                                    *)
\* The table's version, else the one GICD_PIDR2 gives.
val_gic_get_info(type) ==
  CASE type = "version"     -> IF gic_info.version # 0 THEN gic_info.version ELSE gp.pidr2
    [] type = "affinity_ns" -> irq.are
    [] type = "group1_ns"   -> irq.grp
    [] type = "sgi"         -> {i \in irq.en : i < 16}
    [] type = "num_its"     -> gic_info.num_its

V3 == val_gic_get_info("version") \in {3, 4}
val_get_max_intid == 32 * (gp.lines + 1)

val_rme_gic_espi_support == V3 /\ gp.espi
val_rme_gic_max_espi_val == IF V3 THEN 32 * (gp.espi_range + 1) + 4095 ELSE 0
val_rme_gic_max_eppi_val == IF V3 /\ gp.eppi = 1 THEN 1087 ELSE IF V3 /\ gp.eppi = 2 THEN 1119 ELSE 0
val_rme_gic_eppi_support == V3 /\ gp.eppi # 0

v3_is_extended_spi(id) == id >= EspiStart /\ id <= val_rme_gic_max_espi_val
v3_is_extended_ppi(id) == id >= EppiStart /\ id <= val_rme_gic_max_eppi_val
IsSpi(id) == id >= 32 /\ id < 1020

val_rme_gic_check_espi_interrupt(id) == val_rme_gic_espi_support /\ v3_is_extended_spi(id)
val_rme_gic_check_eppi_interrupt(id) == val_rme_gic_eppi_support /\ v3_is_extended_ppi(id)
val_gic_is_valid_espi(id) == val_rme_gic_check_espi_interrupt(id)
val_gic_is_valid_eppi(id) == val_rme_gic_check_eppi_interrupt(id)

Extended(id) == v3_is_extended_spi(id) \/ v3_is_extended_ppi(id)
\* The registers of a redistributor's SGI frame that are behind offsets of
\* other interrupts are of none.
InSgiFrame(id) == id < 32 \/ v3_is_extended_ppi(id)

-----------------------------------------------------------------------------
(* Register writes of the two drivers: sets of interrupts to sets.         *)
\* The redistributor of the PE is in the first structure of the table.
HaveRd == v3_get_pe_gicr_base # 0

v3_disable_extended_interrupt_source(en, id) == IF v3_is_extended_spi(id) \/ HaveRd THEN en \ {id} ELSE en

\* An extended SPI is enabled through GICD_ICENABLERE, which disables it.
v3_enable_extended_interrupt_source(en, id) ==
  IF v3_is_extended_spi(id) THEN en \ {id} ELSE IF HaveRd THEN en \cup {id} ELSE en

v3_DisableInterruptSource(en, id) ==
  IF Extended(id) THEN v3_disable_extended_interrupt_source(en, id)
  ELSE IF IsSpi(id) \/ (HaveRd /\ InSgiFrame(id)) THEN en \ {id} ELSE en

v3_EnableInterruptSource(en, id) ==
  IF Extended(id) THEN v3_enable_extended_interrupt_source(en, id)
  ELSE IF IsSpi(id) \/ (HaveRd /\ InSgiFrame(id)) THEN en \cup {id} ELSE en

v2_DisableInterruptSource(en, id) == IF id < 1020 THEN en \ {id} ELSE en
v2_EnableInterruptSource(en, id)  == IF id < 1020 THEN en \cup {id} ELSE en

val_rme_gic_disableInterruptSource(en, id) ==
  IF V3 THEN v3_DisableInterruptSource(en, id) ELSE v2_DisableInterruptSource(en, id)
val_rme_gic_enableInterruptSource(en, id) ==
  IF V3 THEN v3_EnableInterruptSource(en, id) ELSE v2_EnableInterruptSource(en, id)

\* The redistributor's priorities are written in its control frame, where
\* there are none: only those of SPIs change.
v3_set_extended_interrupt_priority(prio, id) == IF v3_is_extended_spi(id) THEN DefaultPriority ELSE prio
v3_SetInterruptPriority(prio, id) ==
  IF Extended(id) THEN v3_set_extended_interrupt_priority(prio, id) ELSE IF IsSpi(id) THEN DefaultPriority ELSE prio
Prioritised(prio, ids) == [i \in IntIds |-> IF i \in ids THEN v3_SetInterruptPriority(prio[i], i) ELSE prio[i]]

Routed(route, ids, p) == [i \in IntIds |-> IF i \in ids /\ IsSpi(i) THEN p ELSE route[i]]
\* Extended SPIs are routed at an offset that is not that of their registers.
v3_route_extended_interrupt(route, id) == IF IsSpi(id) THEN gp.pe ELSE route

Below(n) == {i \in IntIds : i < n}
ExtendedIds == {i \in IntIds : Extended(i)}
DisableAll(ids) == {i \in irq.en : i \notin ids \/ i \in val_rme_gic_disableInterruptSource({i}, i)}

-----------------------------------------------------------------------------
(* val_gic_create_info_table and, on bare metal, the initialisation.       *)
At(step) == gcall' = [gcall EXCEPT !.at = step]

val_gic_create_info_table ==
  /\ gcall.at = "start"
  /\ gic_info' = IF gp.bm THEN pal_bm_gic_create_info_table(gp.table) ELSE pal_uefi_gic_create_info_table(gp.table)
  /\ At(IF gic_info'.num_gicd = 0 THEN "failed" ELSE IF gp.bm THEN "disable" ELSE "ready")
  /\ UNCHANGED <<gp, irq, pe, g_intr_handler, glog>>

\* v3_extended_init is the first step of v3_Init.
v3_extended_init ==
  IF val_rme_gic_espi_support \/ val_rme_gic_eppi_support
  THEN [irq EXCEPT !.en = DisableAll(ExtendedIds), !.prio = Prioritised(@, ExtendedIds),
                   !.route = [i \in IntIds |-> IF i \in ExtendedIds THEN v3_route_extended_interrupt(@[i], i) ELSE @[i]]]
  ELSE irq

InitIds == Below(val_get_max_intid)

v3_Init ==
  /\ gcall.at = "disable" /\ V3
  /\ irq' = [v3_extended_init EXCEPT !.en = {i \in DisableAll(InitIds) : i \in v3_extended_init.en}]
  /\ At("vector") /\ UNCHANGED <<gp, gic_info, pe, g_intr_handler, glog>>

v2_Init ==
  /\ gcall.at = "disable" /\ ~V3
  /\ irq' = [irq EXCEPT !.en = DisableAll(InitIds)]
  /\ At("vector") /\ UNCHANGED <<gp, gic_info, pe, g_intr_handler, glog>>

\* The vectors, HCR_EL2.IMO at EL2, and DAIF: interrupts can be taken from here.
rme_gic_vector_table_init ==
  /\ gcall.at = "vector"
  /\ pe' = [pe EXCEPT !.vectors = TRUE, !.imo = @ \/ gp.el2, !.masked = FALSE]
  /\ At("group") /\ UNCHANGED <<gp, gic_info, irq, g_intr_handler, glog>>

v3_Group ==
  /\ gcall.at = "group" /\ V3
  /\ irq' = [irq EXCEPT !.prio = Prioritised(@, InitIds), !.are = TRUE, !.grp = TRUE]
  /\ At("wake") /\ UNCHANGED <<gp, gic_info, pe, g_intr_handler, glog>>

\* The power and the sleep bit; the loop ends when the children are awake.
WakeUpRD ==
  /\ gcall.at = "wake"
  /\ irq' = [irq EXCEPT !.sleep = @ /\ ~HaveRd]
  /\ At(IF ~HaveRd THEN "route" ELSE "waking")
  /\ UNCHANGED <<gp, gic_info, pe, g_intr_handler, glog>>
Woken == gcall.at = "waking" /\ ~irq.children /\ At("route") /\ UNCHANGED <<gp, gic_info, irq, pe, g_intr_handler, glog>>

v3_Route ==
  /\ gcall.at = "route"
  /\ irq' = [irq EXCEPT !.prio = Prioritised(@, InitIds), !.route = Routed(@, InitIds, gp.pe)]
  /\ At("cpuif") /\ UNCHANGED <<gp, gic_info, pe, g_intr_handler, glog>>

val_gic_cpuif_init ==
  /\ gcall.at = "cpuif"
  /\ pe' = [pe EXCEPT !.pmr = PriorityMask, !.enabled = TRUE]
  /\ At("ready") /\ UNCHANGED <<gp, gic_info, irq, g_intr_handler, glog>>

\* The priorities, the targets if the distributor has any, the CPU interface
\* and the distributor.
v2_Group ==
  /\ gcall.at = "group" /\ ~V3
  /\ irq' = [irq EXCEPT !.prio = [i \in IntIds |-> IF i \in InitIds THEN DefaultPriority ELSE @[i]],
                        !.route = IF gp.targets THEN Routed(@, InitIds, gp.pe) ELSE @,
                        !.grp = TRUE]
  /\ pe' = [pe EXCEPT !.pmr = PriorityMask, !.enabled = TRUE]
  /\ At("ready") /\ UNCHANGED <<gp, gic_info, g_intr_handler, glog>>

-----------------------------------------------------------------------------
(* The calls of the tests.                                                 *)
val_gic_is_valid_lpi(id, max_lpi) == id >= LpiStart /\ id <= max_lpi

ValidId(id, max_lpi) ==
  id # 0 /\ (id <= val_get_max_intid \/ val_gic_is_valid_lpi(id, max_lpi) \/ val_gic_is_valid_espi(id)
             \/ val_gic_is_valid_eppi(id))

val_gic_install_isr(id, max_lpi) ==
  /\ gcall.at = "ready" /\ glog.installs < MaxInstalls
  /\ gcall' = [gcall EXCEPT !.id = id, !.at = IF ~ValidId(id, max_lpi) THEN "ready"
                                              ELSE IF gp.bm THEN "inst_disable" ELSE "pal_install"]
  /\ glog' = [glog EXCEPT !.installs = @ + 1]
  /\ UNCHANGED <<gp, gic_info, irq, pe, g_intr_handler>>

\* Mutant: the handler is registered while the source is left as it is.
SourceLeft ==
  /\ gcall.at = "inst_disable" /\ At("inst_register")
  /\ UNCHANGED <<gp, gic_info, irq, pe, g_intr_handler, glog>>

InstallDisables ==
  /\ gcall.at = "inst_disable"
  /\ irq' = [irq EXCEPT !.en = val_rme_gic_disableInterruptSource(@, gcall.id)]
  /\ At("inst_register") /\ UNCHANGED <<gp, gic_info, pe, g_intr_handler, glog>>

InstallRegisters ==
  /\ gcall.at = "inst_register"
  /\ g_intr_handler' = [g_intr_handler EXCEPT ![gcall.id] = TRUE]
  /\ At("inst_enable") /\ UNCHANGED <<gp, gic_info, irq, pe, glog>>

InstallEnables ==
  /\ gcall.at = "inst_enable"
  /\ irq' = [irq EXCEPT !.en = val_rme_gic_enableInterruptSource(@, gcall.id)]
  /\ At("ready") /\ glog' = [glog EXCEPT !.installed = @ \cup {gcall.id}]
  /\ UNCHANGED <<gp, gic_info, pe, g_intr_handler>>

\* The firmware's interrupt driver, if there is one; registering a handler
\* enables the source. The distributor's bit is set in any case.
pal_gic_install_isr ==
  /\ gcall.at = "pal_install"
  /\ g_intr_handler' = [g_intr_handler EXCEPT ![gcall.id] = @ \/ gp.protocol]
  /\ irq' = [irq EXCEPT !.en = @ \cup (IF gp.protocol \/ (gcall.id > 31 /\ gcall.id < 1024) THEN {gcall.id} ELSE {})]
  /\ At("ready") /\ glog' = [glog EXCEPT !.installed = IF gp.protocol THEN @ \cup {gcall.id} ELSE @]
  /\ UNCHANGED <<gp, gic_info, pe>>

Test(new) == gcall.at = "ready" /\ irq' = new /\ UNCHANGED <<gp, gic_info, pe, g_intr_handler, gcall>>

v3_clear_extended_spi_interrupt(id) == [irq EXCEPT !.pend = @ \ {id}, !.act = @ \ {id}]
\* Shared peripheral interrupts and extended ones only.
val_gic_clear_interrupt(id) ==
  /\ Test(IF val_gic_is_valid_espi(id) THEN v3_clear_extended_spi_interrupt(id)
          ELSE IF id > 31 /\ id < 1020 THEN [irq EXCEPT !.pend = @ \ {id}, !.act = @ \ {id}] ELSE irq)
  /\ UNCHANGED glog

\* GICD_ICFGR holds the type of SPIs (of PPIs only without affinity routing);
\* what lies at the offset of an extended SPI is of another register.
val_gic_set_intr_trigger(id, edge) ==
  /\ Test([irq EXCEPT !.edge = IF ~IsSpi(id) THEN @ ELSE IF edge THEN @ \cup {id} ELSE @ \ {id}])
  /\ glog' = [glog EXCEPT !.edge = IF edge /\ IsSpi(id) THEN @ \cup {id} ELSE @ \ {id}]

INTR_TRIGGER(id) == IF id \in irq.edge THEN "EDGE_RISING" ELSE "LEVEL_HIGH"
val_gic_get_intr_trigger_type(id) == IF id > val_get_max_intid THEN "err" ELSE INTR_TRIGGER(id)
val_gic_get_espi_intr_trigger_type(id) == IF v3_is_extended_spi(id) THEN INTR_TRIGGER(id) ELSE "err"

val_gic_route_interrupt_to_pe(id, p) ==
  /\ Test(IF id > 31 THEN [irq EXCEPT !.route = Routed(@, {id}, p)] ELSE irq)
  /\ glog' = [glog EXCEPT !.sent = IF p = gp.pe THEN @ \ {id} ELSE @ \cup {id}]

-----------------------------------------------------------------------------
(* The hardware.                                                           *)
Implemented(id) == (id < val_get_max_intid /\ id < 1020) \/ Extended(id) \/ id >= LpiStart

\* Nothing but the pending bit is missing for the PE to take the interrupt.
Ready(id) ==
  /\ Implemented(id) /\ id \notin irq.act
  /\ id \in irq.en \cup (IF irq.lpis THEN irq.lpi ELSE {})
  /\ IsSpi(id) \/ v3_is_extended_spi(id) => irq.route[id] = gp.pe
  /\ irq.grp /\ irq.prio[id] < pe.pmr /\ pe.enabled /\ ~pe.masked /\ pe.vectors
  /\ V3 => ~irq.sleep /\ ~irq.children

Raise(id) ==
  /\ glog.raised < MaxRaised /\ id \notin irq.pend
  /\ irq' = [irq EXCEPT !.pend = @ \cup {id}] /\ glog' = [glog EXCEPT !.raised = @ + 1]
  /\ UNCHANGED <<gp, gic_info, pe, g_intr_handler, gcall>>

Wakes ==
  /\ ~irq.sleep /\ irq.children /\ irq' = [irq EXCEPT !.children = FALSE]
  /\ UNCHANGED <<gp, gic_info, pe, g_intr_handler, gcall, glog>>

\* One exception: acknowledge, the handler if there is one, end of interrupt.
\* DAIF is set from the entry to the return.
default_irq_handler(id) ==
  /\ id \in irq.pend /\ Ready(id)
  /\ irq' = [irq EXCEPT !.pend = @ \ {id}]
  /\ glog' = [glog EXCEPT !.stray = IF g_intr_handler[id] THEN @ ELSE @ \cup {id},
                          !.torn = IF gcall.id = id /\ gcall.at = "inst_register" THEN @ \cup {id} ELSE @]
  /\ UNCHANGED <<gp, gic_info, pe, g_intr_handler, gcall>>

-----------------------------------------------------------------------------
GicInit ==
  /\ gp \in GicPlatforms
  /\ gic_info = [entries |-> <<>>, num_gicd |-> 0, num_its |-> 0, num_gicrd |-> 0, version |-> 0]
  /\ irq = [en |-> gp.en, pend |-> gp.pend, act |-> gp.act, prio |-> [i \in IntIds |-> 0], edge |-> {},
            route |-> [i \in IntIds |-> IF gp.bm THEN 1 - gp.pe ELSE gp.pe], are |-> ~gp.bm, grp |-> ~gp.bm,
            sleep |-> gp.bm, children |-> gp.bm, lpi |-> {}, lpis |-> FALSE]
  /\ pe = [vectors |-> ~gp.bm, imo |-> ~gp.bm, masked |-> gp.bm, pmr |-> IF gp.bm THEN 0 ELSE 240, enabled |-> ~gp.bm]
  /\ g_intr_handler = [i \in IntIds |-> ~gp.bm /\ i \in gp.en]
  /\ gcall = [at |-> "start", id |-> 0]
  /\ glog = [installs |-> 0, installed |-> {}, raised |-> 0, stray |-> {}, torn |-> {}, sent |-> {}, edge |-> {}]

Setup == \/ val_gic_create_info_table \/ v3_Init \/ v2_Init \/ rme_gic_vector_table_init
         \/ v3_Group \/ WakeUpRD \/ Woken \/ v3_Route \/ val_gic_cpuif_init \/ v2_Group
Installing == InstallDisables \/ InstallRegisters \/ InstallEnables \/ pal_gic_install_isr
Hardware == \/ Wakes \/ \E id \in gp.raises : Raise(id)
            \/ \E id \in IntIds : default_irq_handler(id)
Tests == \E id \in gp.calls : \/ val_gic_clear_interrupt(id)
                              \/ \E e \in BOOLEAN : val_gic_set_intr_trigger(id, e)
                              \/ \E p \in {0, 1} : val_gic_route_interrupt_to_pe(id, p)

-----------------------------------------------------------------------------

\* IrqSound. Whatever the firmware left enabled and pending, the dispatcher of
\* bare metal never takes an interrupt nobody registered a handler for, nor one
\* whose handler is being replaced (LPIs excepted: the drivers cannot disable
\* them); and once val_gic_install_isr has returned,
\* the interrupt is taken as soon as it is pending: source, group, priority,
\* route, CPU interface and redistributor are all set. Excepted are extended
\* SPIs, active interrupts, and those a test has sent to another PE. The
\* trigger types read back are the ones val_gic_set_intr_trigger was last given
\* for an SPI, and no call for another interrupt changes them.
IrqSound ==
  /\ gp.bm /\ (V3 => HaveRd) => glog.stray = {} /\ \A id \in glog.torn : id >= LpiStart
  /\ gcall.at = "ready" /\ (V3 => HaveRd) =>
       \A id \in glog.installed : \/ Ready(id) \/ ~Implemented(id) \/ v3_is_extended_spi(id)
                                  \/ id \in irq.act \cup glog.sent \/ id >= LpiStart
  /\ \A id \in gp.calls :
       IF v3_is_extended_spi(id) THEN val_gic_get_espi_intr_trigger_type(id) = "LEVEL_HIGH"
       ELSE val_gic_get_intr_trigger_type(id) = IF id \in glog.edge THEN "EDGE_RISING" ELSE "LEVEL_HIGH"

\* The addresses the firmware's table gives for a kind of frame; 0 for none.
Listed(kinds, field) ==
  LET hits == {gp.table[i][field] : i \in {k \in 1 .. Len(gp.table) : gp.table[k].kind \in kinds}}
  IN IF hits \subseteq {0} THEN {0} ELSE hits \ {0}

\* A structure's frames are walked two by two also when there are four for a PE:
\* the third reads as the PE of affinity zero, when that one comes later.
StrideMatters(p) == gp.vlpis /\ p = 0 /\ \E a, b \in DOMAIN gp.frames : a < b /\ gp.frames[b] = 0

\* FramesFound. On a machine that lists its redistributors in GICR structures,
\* one or several, val_gic_get_pe_rdbase gives the frame of each PE, and
\* v3_get_pe_gicr_base that of its own PE if the first structure has it; of one
\* that lists them in GICC structures neither gives the frame of another PE.
\* Left out is the PE of affinity zero behind another with virtual LPI frames
\* (StrideMatters). The distributor, the hypervisor and the CPU interface frames
\* are found when the firmware's table has them, and only then.
FramesFound ==
  gic_info.entries # <<>> =>
    /\ \A p \in {q \in {gp.frames[a] : a \in DOMAIN gp.frames} : ~StrideMatters(q)} :
         LET a == val_gic_get_pe_rdbase(p)
         IN /\ a # 0 => a \in DOMAIN gp.frames /\ gp.frames[a] = p
            /\ Count(gic_info.entries, {"GICC_GICRD"}) = 0 => a # 0
    /\ v3_get_pe_gicr_base # 0 => gp.frames[v3_get_pe_gicr_base] = gp.pe
    /\ val_get_gicd_base \in Listed({"GICD"}, "base")
    /\ val_get_gich_base \in Listed({"GICC"}, "gich") /\ val_get_cpuif_base \in Listed({"GICC"}, "cpuif")
=============================================================================
