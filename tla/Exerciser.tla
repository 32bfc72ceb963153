----------------------------- MODULE Exerciser -----------------------------
(***************************************************************************)
(* The PCIe exercisers: the table of them (val/src/acs_exerciser.c) and    *)
(* the requests the tests make of one (pal_exerciser.c).  A request reads  *)
(* a register of the exerciser, in its BAR 0 or in its configuration       *)
(* space, and writes it back with some fields changed.  ecsr holds the     *)
(* registers in BAR 0, field by field; ecfg those in configuration space.  *)
(* A bus address is counted in pages, and a register holds 32 bits of it.  *)
(* last is a history of what was asked: the last request of each group.    *)
(***************************************************************************)
EXTENDS CfgSpace

CONSTANTS MaxRequests, EX_ADDRS

VARIABLES etable,   \* g_exerciser_info_table: the sequence of [bdf, initialized]
          ecsr, ecfg, last, requests

exVars == <<etable, ecsr, ecfg, last, requests>>

Ecsr == [addr |-> 0, len |-> 0, go |-> FALSE, from |-> FALSE, nosnoop |-> FALSE,
         pasid |-> FALSE, pasidval |-> 0, plen |-> 0, at |-> {}, ridval |-> 0, ridvalid |-> FALSE,
         msi |-> FALSE, msiindex |-> {}, intx |-> FALSE, ats |-> FALSE, ras |-> FALSE]
\* stray: a bit was set in a register that nobody chose.
Ecfg == [err |-> 0, fatal |-> 0, inject |-> FALSE, poison |-> FALSE, pasid |-> FALSE,
         stray |-> FALSE]
-----------------------------------------------------------------------------
(* Which function a configuration access of the platform layer reaches:    *)
(* some use the first window, others the first window with the bus number. *)

Ecam1(b) == Answers(pcie.ecam[1].base + PageInWindow(b))

pal_exerciser_get_ecam(b) ==
  LET hits == {i \in 1..Len(pcie.ecam) : b.bus >= pcie.ecam[i].start /\ b.bus <= pcie.ecam[i].end}
  IN  IF hits = {} THEN 0 ELSE pcie.ecam[First(hits)].base

EcamByBus(b) == Answers(pal_exerciser_get_ecam(b) + PageInWindow(b))

pal_is_bdf_exerciser(b) == Ecam1(b) # NoFn /\ pcie.fn[Ecam1(b)].exerciser

pal_exerciser_find_pcie_capability(id, b) ==
  LET f == Ecam1(b) IN IF f = NoFn THEN 0 ELSE Listed(pcie.fn[f].ecap, 256, id)

\* The base addresses are read with their type bits masked away, so the first
\* one always passes for a memory BAR, present or not.
pal_exerciser_get_data_mmio(b) == pcie.fn[b].bars[1].base

\* The first memory BAR of another function: an I/O BAR is passed over, a
\* BAR that is not there reads as a memory BAR at 0 and ends the search.
MemoryBar(b) ==
  LET n == IF val_pcie_function_header_type(b) = 1 THEN 2 ELSE 6
      bars == pcie.fn[Reached(b)].bars
      hits == {i \in 1..Len(bars) : i <= n /\ ~bars[i].io}
  IN  IF hits = {} THEN 0 ELSE bars[First(hits)].base

val_pcie_get_mmio_bar(b) ==
  IF pal_is_bdf_exerciser(b) THEN pal_exerciser_get_data_mmio(b) ELSE MemoryBar(b)
-----------------------------------------------------------------------------
\* The device table from the back to the front.
ExercisersOf(list) == SelectSeq(Reverse(list), pal_is_bdf_exerciser)

val_exerciser_create_info_table ==
  /\ pcie.use \in {"exerciser", "assign"} /\ etable = <<>> /\ requests = 0
  /\ etable' = [i \in 1..Len(ExercisersOf(pcie.list)) |->
                  [bdf |-> ExercisersOf(pcie.list)[i], initialized |-> FALSE]]
  /\ etable' # <<>>
  /\ UNCHANGED <<cfgVars, ecsr, ecfg, last, requests>>

\* The command register is written through the base of the segment's window.
Initialized(s, b) ==
  LET f == Answers(val_pcie_get_ecam_base(b) + PageInWindow(b))
  IN  IF f = NoFn THEN s ELSE HwWrite(s, f, TYPE01_CR, s[f][TYPE01_CR] \cup {CR_MSE, CR_BME})

val_exerciser_init(i) ==
  /\ pcie.use = "exerciser" /\ requests < MaxRequests
  /\ IF etable[i].initialized THEN UNCHANGED <<space, etable>>
     ELSE /\ space' = Initialized(space, etable[i].bdf)
          /\ etable' = [etable EXCEPT ![i].initialized = TRUE]
  /\ requests' = requests + 1
  /\ UNCHANGED <<pcie, job, todo, tally, asked, fresh, noise, calls, sreg, sres, ecsr, ecfg, last>>
-----------------------------------------------------------------------------
(* Requests. *)

Req(group, type, v, w) == [group |-> group, type |-> type, v |-> v, w |-> w]

AtBits == [AT_UNTRANSLATED |-> {0}, AT_TRANSLATED |-> {1}, AT_RESERVED |-> {0, 1}]

Params ==
  {Req("dma", "DMA_ATTRIBUTES", a, n) : a \in EX_ADDRS, n \in {1, 2}}
  \cup {Req("plen", "PASID_ATTRIBUTES", n, 0) : n \in {16, 20}}
  \cup {Req("rid", "TXN_REQ_ID", r, 0) : r \in {8, 9}}
  \cup {Req("rid", "RID_VALID", 0, 0), Req("rid", "RID_NOT_VALID", 0, 0)}
  \cup {Req("at", "TXN_ADDR_TYPE", t, 0) : t \in DOMAIN AtBits}
  \cup {Req("err", "ERROR_INJECT_TYPE", e, f) : e \in {7, 8}, f \in {0, 1}}
  \cup {Req("err", "ENABLE_POISON_MODE", 0, 0), Req("err", "DISABLE_POISON_MODE", 0, 0)}
  \cup {Req("ras", "ENABLE_RAS_CTRL", 0, n) : n \in DOMAIN etable}

Operations ==
  {Req("dir", "START_DMA", d, 0) : d \in {"EDMA_TO_DEVICE", "EDMA_FROM_DEVICE"}}
  \cup {Req("msi", "GENERATE_MSI", index, 0) : index \in {{}, {0}, {1}}}
  \cup {Req("intx", t, 0, 0) : t \in {"GENERATE_L_INTR", "CLEAR_INTR"}}
  \cup {Req("pasid", "PASID_TLP_START", 5, 0), Req("pasid", "PASID_TLP_STOP", 0, 0)}
  \cup {Req("snoop", t, 0, 0) : t \in {"TXN_NO_SNOOP_ENABLE", "TXN_NO_SNOOP_DISABLE"}}
  \cup {Req("dma", "ATS_TXN_REQ", a, 0) : a \in EX_ADDRS}
  \cup {Req("err", "INJECT_ERROR", 0, 0)}

\* Mutant: the other fields of DMACTL1 are not kept.
WholeRegister(r, n) == [r EXCEPT !.plen = (n - 16) % 8, !.nosnoop = FALSE, !.from = FALSE, !.pasid = FALSE]

PasidLength(r, n) == [r EXCEPT !.plen = (n - 16) % 8]

\* pal_mmio_write takes a uint64_t address and a uint32_t to write.
Written(v) == v % ADDR_PAGES

\* What a parameter does to the registers in BAR 0.
pal_exerciser_set_param(r, q) ==
  CASE q.type = "DMA_ATTRIBUTES" -> [r EXCEPT !.addr = Written(q.v), !.len = Written(q.w)]
    [] q.type = "PASID_ATTRIBUTES" -> PasidLength(r, q.v)
    [] q.type = "TXN_REQ_ID" -> [r EXCEPT !.ridval = q.v, !.ridvalid = TRUE]
    [] q.type = "RID_VALID" -> [r EXCEPT !.ridvalid = TRUE]
    [] q.type = "RID_NOT_VALID" -> [r EXCEPT !.ridval = 0, !.ridvalid = FALSE]
    [] q.type = "ENABLE_RAS_CTRL" -> [r EXCEPT !.ras = TRUE]
    [] q.type = "TXN_ADDR_TYPE" -> [r EXCEPT !.at = @ \cup AtBits[q.v]]
    [] OTHER -> r

\* Starting a DMA: the direction, then the trigger, which the exerciser takes
\* back when it is done.
pal_exerciser_start_dma_direction(r, dir) == [r EXCEPT !.from = (dir = "EDMA_FROM_DEVICE"), !.go = FALSE]

\* What an operation does to the registers in BAR 0.  The index of the message
\* interrupt is ORed into what MSICTL holds.
pal_exerciser_ops(r, q) ==
  CASE q.type = "START_DMA" -> pal_exerciser_start_dma_direction(r, q.v)
    [] q.type = "GENERATE_MSI" -> [r EXCEPT !.msi = TRUE, !.msiindex = @ \cup q.v]
    [] q.type = "GENERATE_L_INTR" -> [r EXCEPT !.intx = TRUE]
    [] q.type = "CLEAR_INTR" -> [r EXCEPT !.intx = FALSE]
    [] q.type = "PASID_TLP_START" -> [r EXCEPT !.pasid = TRUE, !.pasidval = q.v]
    [] q.type = "PASID_TLP_STOP" -> [r EXCEPT !.pasid = FALSE]
    [] q.type = "TXN_NO_SNOOP_ENABLE" -> [r EXCEPT !.nosnoop = TRUE]
    [] q.type = "TXN_NO_SNOOP_DISABLE" -> [r EXCEPT !.nosnoop = FALSE]
    [] q.type = "ATS_TXN_REQ" -> [r EXCEPT !.addr = Written(q.v), !.ats = TRUE]
    [] OTHER -> r

\* The DVSEC control register and the PASID capability: ERROR_INJECT_TYPE
\* writes the register anew and DISABLE_POISON_MODE masks it with 0.  Whether the
\* DVSEC was found is not looked at.  In pal_exerciser_set_param its offset is
\* then 0 and the write meets a read-only register of the header; in
\* pal_exerciser_ops it was never given a value.
ConfigChanged(c, q, b) ==
  LET found == pal_exerciser_find_pcie_capability("DVSEC", b) # 0
      dvsec(new) == IF found THEN new ELSE c
  IN  CASE q.type = "ERROR_INJECT_TYPE" ->
             dvsec([c EXCEPT !.err = q.v, !.fatal = q.w, !.inject = FALSE, !.poison = FALSE])
        [] q.type = "ENABLE_POISON_MODE" -> dvsec([c EXCEPT !.poison = TRUE])
        [] q.type = "DISABLE_POISON_MODE" ->
             dvsec([c EXCEPT !.err = 0, !.fatal = 0, !.inject = FALSE, !.poison = FALSE])
        [] q.type = "INJECT_ERROR" ->
             IF found THEN [c EXCEPT !.inject = TRUE] ELSE [c EXCEPT !.stray = TRUE]
        [] q.type \in {"PASID_TLP_START", "PASID_TLP_STOP"} ->
             IF pal_exerciser_find_pcie_capability("PASID", b) = 0 THEN c
             ELSE [c EXCEPT !.pasid = (q.type = "PASID_TLP_START")]
        [] OTHER -> c

Ready(i) == pcie.use = "exerciser" /\ requests < MaxRequests /\ etable[i].initialized

\* BAR 0 is found by segment, the configuration space by bus number alone.
\* ENABLE_RAS_CTRL names the function it is for.
val_exerciser_set_param(i, q) ==
  /\ Ready(i)
  /\ LET b == etable[i].bdf  f == EcamByBus(b)
         to == IF q.type = "ENABLE_RAS_CTRL" THEN etable[q.w].bdf ELSE b IN
       /\ ecsr' = [ecsr EXCEPT ![to] = pal_exerciser_set_param(@, q)]
       /\ ecfg' = IF f = NoFn THEN ecfg ELSE [ecfg EXCEPT ![f] = ConfigChanged(@, q, b)]
       /\ last' = [last EXCEPT ![to][q.group] = q]
  /\ requests' = requests + 1
  /\ UNCHANGED <<cfgVars, etable>>

val_exerciser_ops(i, q) ==
  /\ Ready(i)
  /\ LET b == etable[i].bdf  f == EcamByBus(b) IN
       /\ ecsr' = [ecsr EXCEPT ![b] = pal_exerciser_ops(@, q)]
       /\ ecfg' = IF f = NoFn THEN ecfg ELSE [ecfg EXCEPT ![f] = ConfigChanged(@, q, b)]
       /\ last' = [last EXCEPT ![b][q.group] = q]
  /\ requests' = requests + 1
  /\ UNCHANGED <<cfgVars, etable>>

\* What a test reads back.
pal_exerciser_get_param(b, type) ==
  CASE type = "DMA_ATTRIBUTES" -> <<ecsr[b].addr, ecsr[b].len>>
    [] type = "PASID_ATTRIBUTES" -> <<ecsr[b].plen + 16>>
    [] type = "LEGACY_IRQ" -> <<ecsr[b].intx>>
    [] type = "MSIX_ATTRIBUTES" -> <<ecsr[b].msi, ecsr[b].msiindex>>
    [] type = "ATS_RES_ATTRIBUTES" -> <<ecsr[b].addr>>
-----------------------------------------------------------------------------
Groups == {"dma", "plen", "rid", "at", "err", "dir", "msi", "intx", "pasid", "snoop", "ras"}
NoReq == Req("", "none", 0, 0)

ExInit ==
  /\ etable = <<>>
  /\ ecsr = [f \in Functions |-> Ecsr]
  /\ ecfg = [f \in Functions |-> Ecfg]
  /\ last = [f \in Functions |-> [g \in Groups |-> NoReq]]
  /\ requests = 0

ExNext ==
  \/ val_exerciser_create_info_table
  \/ \E i \in DOMAIN etable : val_exerciser_init(i)
  \/ \E i \in DOMAIN etable, q \in Params : val_exerciser_set_param(i, q)
  \/ \E i \in DOMAIN etable, q \in Operations : val_exerciser_ops(i, q)
-----------------------------------------------------------------------------
\* The exerciser b does what the last request of each group asked.  An address
\* or a length must fit the 32 bits that pal_mmio_write takes; above 4 GB another
\* one is programmed.  Address types and message indices are ORed into their
\* registers, so only that their bits are set is certain.  Errors can be asked of
\* an exerciser with a DVSEC only: the others keep their registers or, after
\* INJECT_ERROR, have a bit changed somewhere.
DoesAsAsked(b) ==
  LET r == ecsr[b]  q == last[b]
      is(g, t) == q[g].type = t
      fits(v) == v < ADDR_PAGES
      has(id) == pal_exerciser_find_pcie_capability(id, b) # 0
  IN  /\ is("dma", "DMA_ATTRIBUTES") /\ fits(q["dma"].v) /\ fits(q["dma"].w) =>
           pal_exerciser_get_param(b, "DMA_ATTRIBUTES") = <<q["dma"].v, q["dma"].w>>
      /\ is("dma", "ATS_TXN_REQ") /\ fits(q["dma"].v) => r.ats /\ r.addr = q["dma"].v
      /\ is("plen", "PASID_ATTRIBUTES") => pal_exerciser_get_param(b, "PASID_ATTRIBUTES")[1] = q["plen"].v
      /\ is("rid", "TXN_REQ_ID") => r.ridvalid /\ r.ridval = q["rid"].v
      /\ is("rid", "RID_NOT_VALID") => ~r.ridvalid
      /\ is("at", "TXN_ADDR_TYPE") => AtBits[q["at"].v] \subseteq r.at
      /\ is("dir", "START_DMA") => (r.from <=> q["dir"].v = "EDMA_FROM_DEVICE")
      /\ r.nosnoop <=> is("snoop", "TXN_NO_SNOOP_ENABLE")
      /\ r.pasid <=> is("pasid", "PASID_TLP_START")
      /\ is("pasid", "PASID_TLP_START") => r.pasidval = q["pasid"].v
      /\ pal_exerciser_get_param(b, "LEGACY_IRQ")[1] <=> is("intx", "GENERATE_L_INTR")
      /\ pal_exerciser_get_param(b, "MSIX_ATTRIBUTES")[1] <=> is("msi", "GENERATE_MSI")
      /\ is("msi", "GENERATE_MSI") => q["msi"].v \subseteq pal_exerciser_get_param(b, "MSIX_ATTRIBUTES")[2]
      /\ r.ras <=> is("ras", "ENABLE_RAS_CTRL")
      /\ has("DVSEC") =>
           /\ is("err", "ENABLE_POISON_MODE") => ecfg[b].poison
           /\ is("err", "DISABLE_POISON_MODE") => ~ecfg[b].poison
           /\ is("err", "ERROR_INJECT_TYPE") => ecfg[b].err = q["err"].v /\ ecfg[b].fatal = q["err"].w
           /\ is("err", "INJECT_ERROR") => ecfg[b].inject
           /\ ~ecfg[b].stray
      /\ ~has("DVSEC") => ~ecfg[b].poison /\ ~ecfg[b].inject
      /\ ecfg[b].pasid <=> is("pasid", "PASID_TLP_START") /\ has("PASID")

\* With one window, the table lists each exerciser of the device table once and
\* nothing else (val_exerciser_create_info_table), every one that was
\* initialised can be accessed and do DMA, and it does as it was last asked,
\* whatever was asked of the others and of its other fields
\* (pal_exerciser_set_param, pal_exerciser_ops), as far as DoesAsAsked says:
\* for addresses below 4 GB, and errors only of exercisers with a DVSEC.
ExercisersAsAsked ==
  (pcie.use = "exerciser" /\ etable # <<>>) =>
    /\ Len(etable) = Cardinality({b \in ToSet(pcie.list) : pcie.fn[b].exerciser})
    /\ {etable[i].bdf : i \in DOMAIN etable} = {b \in ToSet(pcie.list) : pcie.fn[b].exerciser}
    /\ \A i \in DOMAIN etable : etable[i].initialized =>
         /\ {CR_MSE, CR_BME} \subseteq space[etable[i].bdf][TYPE01_CR]
         /\ DoesAsAsked(etable[i].bdf)
=============================================================================
