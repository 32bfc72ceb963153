-------------------------------- MODULE Its --------------------------------
(***************************************************************************)
(* Message signalled interrupts on top of Gic: val_gic_its_configure, the  *)
(* tables and the command queue of each ITS (rme_gic_its.c), the LPI       *)
(* tables of the redistributor (rme_gic_redistributor.c) and the MSI-X     *)
(* tables of the devices (acs_gic_support.c). The ITS takes the commands   *)
(* one by one while the driver goes on; an MSI arrives when it likes.      *)
(***************************************************************************)
EXTENDS Gic, FiniteSetsExt

CONSTANTS QueueSlots,   \* commands in the 32KB of a queue
          PollLimit,    \* WAIT_ITS_COMMAND_DONE
          MaxRequests   \* bound on the calls of val_gic_request_msi

VARIABLES its_info,       \* g_gic_its_info and g_its_setup_done
          g_cwriter_ptr,
          queue,          \* the memory of the command queues and behind them
          gits,           \* the registers and the tables of each ITS
          ConfigTable,    \* LPIs whose byte is enabled
          msix,           \* per device: the MSI-X entry and the command register
          icall, ilog

itsvars == <<its_info, g_cwriter_ptr, queue, gits, ConfigTable, msix, icall, ilog>>

-----------------------------------------------------------------------------
(* The size of the tables, for each GITS_BASER in its order. TableSize has *)
(* 32 bits; it is kept here in units of 256 bytes.                         *)
MaxPages == 256
Units(bytes) == (bytes + 255) \div 256
\* A table of one level, and what TableSize keeps of it.
Needed(bits, entry) == 2 ^ (bits - 7) * entry
TableSize(bits, entry) == Needed(bits, entry) % 2 ^ 24

GET_NUM_BITS(value) == CHOOSE k \in 0 .. 31 : (value \div 2 ^ k) % 2 = 1 /\ value % 2 ^ k = 0

\* The sizes are tried upwards; the last one the register keeps is used.
PageSize(baser) == IF 65536 \in baser.pages THEN 65536 ELSE IF 16384 \in baser.pages THEN 16384 ELSE 4096

Level2Entries(page, entry) == page \div entry

\* indirect: some register up to this one can do two levels.
ItsTable(baser, bits, indirect) ==
  LET page  == PageSize(baser)
      limit == Units(page) * MaxPages
      flat  == TableSize(bits, baser.entry)
      two   == flat > limit /\ indirect
      lvl1  == bits + 1 - GET_NUM_BITS(Level2Entries(page, baser.entry))
      size  == IF two THEN Min({Units(2 ^ lvl1 * 8), limit}) ELSE Min({flat, limit})
  IN [pages |-> (size + Units(page) - 1) \div Units(page), page |-> page, indirect |-> two,
      filled |-> IF two THEN 2 ^ lvl1 ELSE 0]

\* Registers of other types are left alone.
ArmGicSetItsTables(typer) ==
  [k \in {j \in 1 .. Len(typer.baser) : typer.baser[j].type \in {"device", "collection"}} |->
     ItsTable(typer.baser[k], IF typer.baser[k].type = "device" THEN typer.devbits ELSE typer.cidbits,
              \E j \in 1 .. k : typer.baser[j].indirect)]

-----------------------------------------------------------------------------
(* val_gic_its_configure.                                                  *)
NoInfo == [num |-> 0, rdbase |-> 0, dbase |-> 0, its |-> <<>>, done |-> FALSE, null |-> TRUE]

val_its_get_curr_rdbase(e) == FrameOf(gp.pe, e.base, IF e.type = "GICR_GICRD" THEN e.length ELSE 0, IF gp.vlpis THEN 4 ELSE 2)

\* The first structure with the PE's redistributor, the last distributor.
CollectIts ==
  LET e    == gic_info.entries
      rds  == {i \in 1 .. Len(e) : e[i].type \in {"GICR_GICRD", "GICC_GICRD"} /\ val_its_get_curr_rdbase(e[i]) # 0}
      gicd == {i \in 1 .. Len(e) : e[i].type = "GICD"}
      found == SelectSeq(e, LAMBDA x : x.type = "GICITS")
  IN [NoInfo EXCEPT !.null = FALSE, !.num = Len(found),
        !.its = [i \in 1 .. Len(found) |-> [base |-> found[i].base, id |-> found[i].entry_id, idbits |-> 0, tables |-> <<>>]],
        !.rdbase = IF rds = {} THEN 0 ELSE val_its_get_curr_rdbase(e[Min(rds)]),
        !.dbase = IF gicd = {} THEN 0 ELSE e[Max(gicd)].base]

val_its_gicd_lpi_support == gp.its.gicd_lpis
val_its_gicr_lpi_support == gp.its.gicr_lpis

\* GITS_TYPER gives the bits of each ITS, GICD_TYPER those of the tables.
SetInitialConfiguration(info) ==
  [info EXCEPT !.its = [i \in 1 .. info.num |-> [@[i] EXCEPT !.idbits = gp.its.typer[i].idbits]]]

\* Without memory for the write pointers it stops and returns 0.
val_its_init(info) ==
  IF gp.its.nomem = "cwriter" \/ gp.its.idbits < 14 THEN info
  ELSE LET set == SetInitialConfiguration(info)
       IN IF gp.its.nomem \in {"config", "pending", "queue", "table", "itt"} THEN set
          ELSE [set EXCEPT !.done = TRUE,
                           !.its = [i \in 1 .. info.num |-> [@[i] EXCEPT !.tables = ArmGicSetItsTables(gp.its.typer[i])]]]

val_gic_its_configure ==
  /\ gcall.at = "ready" /\ icall.at = "unset"
  /\ LET info == CollectIts
         able == info.num # 0 /\ info.rdbase # 0 /\ info.dbase # 0 /\ val_its_gicd_lpi_support /\ val_its_gicr_lpi_support
     IN its_info' = IF gp.its.nomem = "info" THEN NoInfo ELSE IF able THEN val_its_init(info) ELSE info
  /\ icall' = [icall EXCEPT !.at = "idle"]
  /\ UNCHANGED <<g_cwriter_ptr, queue, gits, ConfigTable, msix, ilog>> /\ UNCHANGED gicvars

\* The fewest bits of an ITS and 14. A shift by 32 has no defined result: the
\* instruction shifts by nothing, and the limit is 0.
val_its_get_max_lpi ==
  IF its_info.null \/ its_info.num = 0 \/ ~its_info.done THEN 0
  ELSE LET bits == Min({31} \cup {its_info.its[i].idbits + 14 : i \in 1 .. its_info.num})
       IN IF bits = 31 THEN 0 ELSE 2 ^ bits + (2 ^ bits - 1)

get_its_index(its_id) ==
  LET hits == {i \in 1 .. its_info.num : its_info.its[i].id = its_id} IN IF hits = {} THEN 0 ELSE Min(hits)

val_its_get_translater_addr(i) == its_info.its[i].base

\* An address, or the processor's number; the commands take the low 32 bits.
GetRDBaseFormat(i) == IF gp.its.typer[i].pta THEN (IF gp.its.high THEN 0 ELSE its_info.rdbase) ELSE gp.pe

-----------------------------------------------------------------------------
(* Commands.                                                               *)
WriteCmdQMAPD(dev, valid) == [op |-> "MAPD", dev |-> dev, id |-> 0, valid |-> valid, rd |-> 0]
WriteCmdQMAPC(rd)         == [op |-> "MAPC", dev |-> 0, id |-> 0, valid |-> TRUE, rd |-> rd]
WriteCmdQMAPI(dev, id)    == [op |-> "MAPTI", dev |-> dev, id |-> id, valid |-> TRUE, rd |-> 0]
WriteCmdQINV(dev, id)     == [op |-> "INV", dev |-> dev, id |-> id, valid |-> TRUE, rd |-> 0]
WriteCmdQDISCARD(dev, id) == [op |-> "DISCARD", dev |-> dev, id |-> id, valid |-> TRUE, rd |-> 0]
WriteCmdQSYNC(rd)         == [op |-> "SYNC", dev |-> 0, id |-> 0, valid |-> TRUE, rd |-> rd]

\* Mutant: the redistributor is not told to read the LPI's byte again.
NoInvalidate(i, dev, id) ==
  <<WriteCmdQMAPD(dev, TRUE), WriteCmdQMAPC(GetRDBaseFormat(i)), WriteCmdQMAPI(dev, id), WriteCmdQSYNC(GetRDBaseFormat(i))>>

CreateCommands(i, dev, id) ==
  <<WriteCmdQMAPD(dev, TRUE), WriteCmdQMAPC(GetRDBaseFormat(i)), WriteCmdQMAPI(dev, id), WriteCmdQINV(dev, id),
    WriteCmdQSYNC(GetRDBaseFormat(i))>>

ClearCommands(i, dev, id) == <<WriteCmdQDISCARD(dev, id), WriteCmdQMAPD(dev, FALSE), WriteCmdQSYNC(GetRDBaseFormat(i))>>

Go(step) == icall' = [icall EXCEPT !.at = step, !.polls = 0]

\* The commands go behind the last ones; the pointer only ever goes up.
WriteCommands ==
  /\ icall.at = "commands"
  /\ LET i   == icall.its
         new == IF icall.op = "request" THEN CreateCommands(i, icall.r.dev, icall.r.id)
                ELSE ClearCommands(i, icall.r.dev, icall.r.id)
         at  == g_cwriter_ptr[i]
     IN /\ queue' = [queue EXCEPT ![i] = [k \in DOMAIN @ |-> IF k \in at .. at + Len(new) - 1 THEN new[k - at + 1] ELSE @[k]]]
        /\ g_cwriter_ptr' = [g_cwriter_ptr EXCEPT ![i] = @ + Len(new)]
  /\ Go("doorbell") /\ UNCHANGED <<its_info, gits, ConfigTable, msix, ilog>> /\ UNCHANGED gicvars

\* GITS_CWRITER is given the pointer.
Doorbell ==
  /\ icall.at = "doorbell"
  /\ gits' = [gits EXCEPT ![icall.its].cwriter = g_cwriter_ptr[icall.its]]
  /\ Go("poll") /\ UNCHANGED <<its_info, g_cwriter_ptr, queue, ConfigTable, msix, ilog>> /\ UNCHANGED gicvars

Polled == IF icall.op = "request" THEN "fill" ELSE "clear"

PollTillCommandQueueDone ==
  /\ icall.at = "poll"
  /\ LET g == gits[icall.its]
     IN IF g.creadr = g.cwriter /\ ~g.stalled THEN Go(Polled) /\ UNCHANGED <<gits, ilog>>
        ELSE IF icall.polls = PollLimit
          THEN Go(Polled) /\ ilog' = [ilog EXCEPT !.gave_up = TRUE] /\ UNCHANGED gits
        ELSE /\ icall' = [icall EXCEPT !.polls = @ + 1]
             /\ gits' = [gits EXCEPT ![icall.its].stalled = FALSE] /\ UNCHANGED ilog
  /\ UNCHANGED <<its_info, g_cwriter_ptr, queue, ConfigTable, msix>> /\ UNCHANGED gicvars

-----------------------------------------------------------------------------
(* val_gic_request_msi and val_gic_free_msi.                               *)
Settled == gcall.at = "ready" /\ icall.at = "idle"

\* The tests map one message of a device at a time.
val_gic_request_msi(r) ==
  /\ Settled /\ ilog.requests < MaxRequests /\ ~\E l \in ilog.live : l.dev = r.dev \/ l.id = r.id
  /\ LET i == IF its_info.null THEN 0 ELSE get_its_index(r.its)
     IN icall' = IF i = 0 \/ its_info.rdbase = 0 \/ its_info.dbase = 0 THEN icall
                 ELSE [icall EXCEPT !.op = "request", !.r = r, !.its = i, !.at = IF its_info.done THEN "config" ELSE "fill"]
  /\ ilog' = [ilog EXCEPT !.requests = @ + 1]
  /\ UNCHANGED <<its_info, g_cwriter_ptr, queue, gits, ConfigTable, msix>> /\ UNCHANGED gicvars

SetConfigTable ==
  /\ icall.at = "config" /\ icall.op = "request"
  /\ ConfigTable' = ConfigTable \cup {icall.r.id}
  /\ Go("enable") /\ UNCHANGED <<its_info, g_cwriter_ptr, queue, gits, msix, ilog>> /\ UNCHANGED gicvars

\* GICR_CTLR.EnableLPIs, then GITS_CTLR: the redistributor reads the table, the
\* ITS the queue.
EnableLPIsRD ==
  /\ icall.at = "enable"
  /\ gits' = [gits EXCEPT ![icall.its].enabled = TRUE]
  /\ irq' = [irq EXCEPT !.lpis = TRUE]
  /\ Go("commands") /\ UNCHANGED <<its_info, g_cwriter_ptr, queue, ConfigTable, msix, ilog>>
  /\ UNCHANGED <<gp, gic_info, pe, g_intr_handler, gcall, glog>>

Live(l) == ilog' = [ilog EXCEPT !.live = @ \cup {l}, !.freed = @ \ {l}]

\* Without the capability the call fails, and the LPI stays mapped.
fill_msi_x_table ==
  /\ icall.at = "fill"
  /\ LET d == icall.r.dev
     IN IF d \notin gp.its.msix
        THEN /\ msix' = [msix EXCEPT ![d].bme = TRUE] /\ Go("idle") /\ ilog' = [ilog EXCEPT !.left = @ \cup {icall.r}]
        ELSE /\ msix' = [msix EXCEPT ![d] = [@ EXCEPT !.bme = TRUE, !.enabled = TRUE, !.data = icall.r.id,
                                                       !.addr = val_its_get_translater_addr(icall.its)]]
             /\ Go("unmask") /\ UNCHANGED ilog
  /\ UNCHANGED <<its_info, g_cwriter_ptr, queue, gits, ConfigTable>> /\ UNCHANGED gicvars
Unmask ==
  /\ icall.at = "unmask" /\ msix' = [msix EXCEPT ![icall.r.dev].masked = FALSE]
  /\ Go("idle") /\ Live(icall.r)
  /\ UNCHANGED <<its_info, g_cwriter_ptr, queue, gits, ConfigTable>> /\ UNCHANGED gicvars

val_gic_free_msi(r) ==
  /\ Settled
  /\ icall' = [icall EXCEPT !.op = "free", !.r = r, !.its = get_its_index(r.its),
                            !.at = IF its_info.done THEN "config" ELSE "clear"]
  /\ UNCHANGED <<its_info, g_cwriter_ptr, queue, gits, ConfigTable, msix, ilog>> /\ UNCHANGED gicvars

ClearConfigTable ==
  /\ icall.at = "config" /\ icall.op = "free"
  /\ ConfigTable' = ConfigTable \ {icall.r.id}
  /\ Go("commands") /\ UNCHANGED <<its_info, g_cwriter_ptr, queue, gits, msix, ilog>> /\ UNCHANGED gicvars

clear_msi_x_table ==
  /\ icall.at = "clear"
  /\ msix' = [msix EXCEPT ![icall.r.dev] = [@ EXCEPT !.enabled = FALSE, !.addr = 0, !.data = 0, !.masked = TRUE]]
  /\ Go("idle") /\ ilog' = [ilog EXCEPT !.live = @ \ {icall.r}, !.freed = @ \cup {icall.r}]
  /\ UNCHANGED <<its_info, g_cwriter_ptr, queue, gits, ConfigTable>> /\ UNCHANGED gicvars

\* The exerciser is told to send once the handler is in place.
GENERATE_MSI(l) ==
  /\ Settled /\ g_intr_handler[l.id] /\ ilog' = [ilog EXCEPT !.told = @ \cup {l.dev}]
  /\ UNCHANGED <<its_info, g_cwriter_ptr, queue, gits, ConfigTable, msix, icall>> /\ UNCHANGED gicvars

InstallLpi(id) == icall.at = "idle" /\ val_gic_install_isr(id, val_its_get_max_lpi) /\ UNCHANGED itsvars

-----------------------------------------------------------------------------
(* The hardware.                                                           *)
\* The devices of an ITS share one interrupt translation table. Where its entries
\* lie is left out: the 32KB the code gives it end before the first LPI's.
ItsDone(i, c, g) ==
  CASE c.op = "MAPD"    -> [g EXCEPT !.devs = IF c.valid THEN @ \cup {c.dev} ELSE @ \ {c.dev}]
    [] c.op = "MAPC"    -> [g EXCEPT !.coll = c.rd]
    [] c.op = "MAPTI"   -> [g EXCEPT !.itt = IF c.dev \in g.devs THEN @ \cup {c.id} ELSE @]
    [] c.op = "DISCARD" -> [g EXCEPT !.itt = IF c.dev \in g.devs THEN @ \ {c.id} ELSE @]
    [] OTHER            -> g

ItsTakes(i) ==
  LET g == gits[i]
      c == queue[i][g.creadr]
      known == c.dev \in g.devs /\ c.id \in g.itt
  IN /\ g.enabled /\ ~g.stalled /\ g.creadr # g.cwriter
     /\ gits' = [gits EXCEPT ![i] = [ItsDone(i, c, g) EXCEPT !.creadr = (@ + 1) % QueueSlots]]
     /\ irq' = IF c.op = "INV" /\ known
                 THEN [irq EXCEPT !.lpi = IF c.id \in ConfigTable THEN @ \cup {c.id} ELSE @ \ {c.id}]
               ELSE IF c.op = "DISCARD" /\ known THEN [irq EXCEPT !.pend = @ \ {c.id}] ELSE irq
     /\ UNCHANGED <<its_info, g_cwriter_ptr, queue, ConfigTable, msix, icall, ilog>>
     /\ UNCHANGED <<gp, gic_info, pe, g_intr_handler, gcall, glog>>

ItsStalls(i) ==
  /\ gp.its.stalls /\ gits[i].enabled /\ ~gits[i].stalled /\ gits[i].creadr # gits[i].cwriter
  /\ gits' = [gits EXCEPT ![i].stalled = TRUE]
  /\ UNCHANGED <<its_info, g_cwriter_ptr, queue, ConfigTable, msix, icall, ilog>> /\ UNCHANGED gicvars

\* The redistributor may read a byte it does not hold.
RdFetch(id) ==
  /\ irq.lpis /\ id >= LpiStart /\ (id \in irq.lpi) # (id \in ConfigTable)
  /\ irq' = [irq EXCEPT !.lpi = IF id \in ConfigTable THEN @ \cup {id} ELSE @ \ {id}]
  /\ UNCHANGED itsvars /\ UNCHANGED <<gp, gic_info, pe, g_intr_handler, gcall, glog>>

MsiSent(d) ==
  /\ d \in ilog.told
  /\ ilog' = [ilog EXCEPT !.told = @ \ {d},
                !.flying = IF msix[d].enabled /\ ~msix[d].masked /\ msix[d].bme
                           THEN @ \cup {[dev |-> d, addr |-> msix[d].addr, data |-> msix[d].data]} ELSE @]
  /\ UNCHANGED <<its_info, g_cwriter_ptr, queue, gits, ConfigTable, msix, icall>> /\ UNCHANGED gicvars

RealRdBase(i) == IF gp.its.typer[i].pta THEN its_info.rdbase ELSE gp.pe

MsiArrives(msg) ==
  LET hits == {i \in 1 .. its_info.num : its_info.its[i].base = msg.addr /\ gits[i].enabled /\ msg.dev \in gits[i].devs
                                         /\ msg.data \in gits[i].itt /\ gits[i].coll = RealRdBase(i)}
  IN /\ msg \in ilog.flying
     /\ ilog' = [ilog EXCEPT !.flying = @ \ {msg}]
     /\ irq' = IF hits # {} /\ irq.lpis THEN [irq EXCEPT !.pend = @ \cup {msg.data}] ELSE irq
     /\ UNCHANGED <<its_info, g_cwriter_ptr, queue, gits, ConfigTable, msix, icall>>
     /\ UNCHANGED <<gp, gic_info, pe, g_intr_handler, gcall, glog>>

-----------------------------------------------------------------------------
Slots == 0 .. QueueSlots + 7
Devices == {r.dev : r \in UNION {p.its.reqs : p \in GicPlatforms}}

ItsInit ==
  /\ its_info = NoInfo /\ g_cwriter_ptr = <<0, 0>> /\ ConfigTable = {}
  /\ queue = [i \in 1 .. 2 |-> [k \in Slots |-> WriteCmdQSYNC(0)]]
  /\ gits = [i \in 1 .. 2 |-> [enabled |-> FALSE, cwriter |-> 0, creadr |-> 0, stalled |-> FALSE, devs |-> {},
                               itt |-> {}, coll |-> 99]]
  /\ msix = [d \in Devices |-> [bme |-> FALSE, enabled |-> FALSE, masked |-> TRUE, addr |-> 0, data |-> 0]]
  /\ icall = [at |-> "unset", op |-> "", r |-> [dev |-> 0, its |-> 0, id |-> 0], its |-> 0, polls |-> 0]
  /\ ilog = [requests |-> 0, live |-> {}, freed |-> {}, left |-> {}, gave_up |-> FALSE, told |-> {}, flying |-> {}]

ItsDriver == \/ val_gic_its_configure \/ WriteCommands \/ Doorbell \/ PollTillCommandQueueDone
             \/ SetConfigTable \/ EnableLPIsRD \/ fill_msi_x_table \/ Unmask \/ ClearConfigTable \/ clear_msi_x_table
             \/ \E r \in gp.its.reqs : val_gic_request_msi(r)
             \/ \E l \in ilog.live : val_gic_free_msi(l) \/ GENERATE_MSI(l)
             \/ \E id \in gp.installs : InstallLpi(id)
ItsHardware == \/ \E i \in 1 .. 2 : ItsTakes(i) \/ ItsStalls(i)
               \/ \E id \in IntIds : RdFetch(id)
               \/ \E d \in Devices : MsiSent(d)
               \/ \E msg \in ilog.flying : MsiArrives(msg)

-----------------------------------------------------------------------------
\* ItsTablesHold. The device and the collection table of each ITS have an entry
\* for every identifier GITS_TYPER announces, and the level 1 table has room for
\* all the pointers ArmGicSetItsTables writes; unless the table cannot be had
\* (too large for one level, and no second one), or level 1 is itself too large,
\* or the size of one level does not fit in TableSize.
ItsTablesHold ==
  its_info.done =>
    \A i \in 1 .. its_info.num : \A k \in DOMAIN its_info.its[i].tables :
      LET t    == its_info.its[i].tables[k]
          b    == gp.its.typer[i].baser[k]
          bits == IF b.type = "device" THEN gp.its.typer[i].devbits ELSE gp.its.typer[i].cidbits
          page == PageSize(b)
      IN IF t.indirect
         THEN t.filled * 8 > page * MaxPages \/
              (t.filled * 8 <= t.pages * t.page /\ t.filled * (page \div b.entry) >= 2 ^ (bits + 1))
         ELSE \/ t.pages * Units(t.page) >= Needed(bits, b.entry)
              \/ t.pages = MaxPages /\ ~b.indirect
              \/ Needed(bits, b.entry) >= 2 ^ 24

\* MsiMapped. Between calls, when val_gic_its_configure set the ITSs up, no poll
\* was given up and the redistributor lies below 4GB or the ITS names it by
\* number: every message val_gic_request_msi returned success for is translated
\* (device, event, collection of this PE), is enabled in what the redistributor
\* holds and is in the device's unmasked MSI-X entry; and no interrupt can come
\* of a message val_gic_free_msi has returned for, not even from a write still on
\* its way (if no later request for the identifier failed). The tables of the ITS
\* have room for it all (ItsTablesHold), the interrupt translation table aside.
MsiMapped ==
  /\ ItsTablesHold
  /\ Settled /\ its_info.done /\ ~ilog.gave_up /\ (gp.its.high => \A i \in 1 .. its_info.num : ~gp.its.typer[i].pta) =>
    /\ \A l \in ilog.live :
         LET i == get_its_index(l.its)
             g == gits[i]
         IN /\ g.enabled /\ l.dev \in g.devs /\ l.id \in g.itt /\ g.coll = RealRdBase(i)
            /\ irq.lpis /\ l.id \in irq.lpi
            /\ msix[l.dev] = [bme |-> TRUE, enabled |-> TRUE, masked |-> FALSE, addr |-> its_info.its[i].base, data |-> l.id]
    /\ \A l \in ilog.freed : ~(\E k \in ilog.live \cup ilog.left : k.id = l.id) =>
         /\ \A i \in 1 .. 2 : l.id \notin gits[i].itt
         /\ l.id \notin irq.pend
=============================================================================
