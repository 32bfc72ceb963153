------------------------------ MODULE CfgSpace ------------------------------
(***************************************************************************)
(* The PCIe configuration space as val/src/acs_pcie.c uses it: finding the *)
(* ECAM window and the page of a function, walking its capability lists,   *)
(* changing bits of its command and control registers, checking bit fields *)
(* against what a table expects of them, and checking that a register is   *)
(* protected from the non-secure world.                                    *)
(*                                                                         *)
(* A register's value is the set of its bits that are 1.  What a write     *)
(* does to a bit is up to the hardware: bits in rw take the value written, *)
(* bits in w1c are cleared by a 1, the others keep theirs.  The function   *)
(* sets its w1c bits by itself when it detects an error, also between two  *)
(* accesses of one operation.  A configuration address is counted in       *)
(* pages of 4 KB.                                                          *)
(***************************************************************************)
EXTENDS Integers, Sequences, SequencesExt, FiniteSets

CONSTANTS Machines,                    \* the systems considered
          PCIE_MAX_DEV, PCIE_MAX_FUNC,
          ADDR_PAGES,                  \* pages a uint32_t address can name
          MaxCalls, MaxErrors          \* bounds on a behaviour

VARIABLES
  pcie,    \* the system, chosen once: its ECAM windows, its functions fn, the
           \* suite's device table list, the bit fields entries to check, the
           \* registers' contents reg, prot and what the tests do, use
  space,   \* the registers of the functions
  job,     \* the operation that is running
  todo,    \* the operations a check still has to do
  tally,   \* [fails, passes] of the check
  asked,   \* bits each function was last asked to have set and clear
  fresh,   \* errors that nothing has read or cleared since they occurred
  noise,   \* number of errors that occurred
  calls,   \* number of operations started
  sreg,    \* contents of the protected register
  sres     \* outcome of the last protection check

cfgVars == <<pcie, space, job, todo, tally, asked, fresh, noise, calls, sreg, sres>>

AllBits == 0..31
NoFn == [seg |-> -1, bus |-> -1, dev |-> -1, func |-> -1]
Functions == DOMAIN pcie.fn
Idle == [op |-> "idle"]
First(S) == CHOOSE x \in S : \A y \in S : x <= y
-----------------------------------------------------------------------------
(* Addresses. *)

InWindow(w, b) == b.bus >= w.start /\ b.bus <= w.end /\ b.seg = w.seg

\* There are PCIE_MAX_FUNC functions to a device, one page each.
PageInWindow(b) == b.bus * PCIE_MAX_DEV * PCIE_MAX_FUNC + b.dev * PCIE_MAX_FUNC + b.func

\* In the first window that holds b; 0 if there is none.
val_pcie_get_bdf_config_addr(b) ==
  LET hits == {i \in 1..Len(pcie.ecam) : InWindow(pcie.ecam[i], b)}
  IN  IF b.dev >= PCIE_MAX_DEV \/ b.func >= PCIE_MAX_FUNC \/ hits = {} THEN 0
      ELSE pcie.ecam[First(hits)].base + PageInWindow(b)

\* The function that answers at a page.
Answers(page) ==
  LET f == {g \in Functions : pcie.fn[g].page = page}
  IN  IF page = 0 \/ f = {} THEN NoFn ELSE CHOOSE g \in f : TRUE

Reached(b) == Answers(val_pcie_get_bdf_config_addr(b))

\* A register that is not there reads as all ones.
val_pcie_read_cfg(b, off) ==
  LET f == Reached(b)
  IN  IF f # NoFn /\ off \in DOMAIN space[f] THEN space[f][off] ELSE AllBits

HwWrite(s, f, off, v) ==
  LET rw == pcie.fn[f].rw[off]  w1c == pcie.fn[f].w1c[off]  old == s[f][off]
  IN  [s EXCEPT ![f][off] = (v \cap rw) \cup ((old \cap w1c) \ v) \cup (old \ (rw \cup w1c))]

val_pcie_write_cfg(s, b, off, v) ==
  LET f == Reached(b)
  IN  IF f # NoFn /\ off \in DOMAIN s[f] THEN HwWrite(s, f, off, v) ELSE s

val_pcie_function_header_type(b) == pcie.fn[Reached(b)].type

\* A bridge belongs to the window that holds the buses behind it; for an
\* endpoint the first window of its segment is taken.
val_pcie_get_ecam_base(b) ==
  LET fn == pcie.fn[Reached(b)]
      hits == {i \in 1..Len(pcie.ecam) :
                 /\ pcie.ecam[i].seg = b.seg
                 /\ (val_pcie_function_header_type(b) = 0)
                      \/ (fn.sec >= pcie.ecam[i].start /\ fn.sub <= pcie.ecam[i].end)}
  IN  IF hits = {} THEN 0 ELSE pcie.ecam[First(hits)].base

val_pcie_get_ecam_index(b) ==
  LET fn == pcie.fn[Reached(b)]
      hits == {i \in 1..Len(pcie.ecam) :
                 /\ InWindow(pcie.ecam[i], b)
                 /\ (val_pcie_function_header_type(b) = 0)
                      \/ (fn.sec >= pcie.ecam[i].start /\ fn.sub <= pcie.ecam[i].end)}
  IN  IF hits = {} THEN 0 ELSE First(hits)

\* The function number behind b; the buses are those of the last window of
\* the segment, and behind its last bus comes the next window.
val_pcie_increment_bdf(b) ==
  LET ws == {i \in 1..Len(pcie.ecam) : pcie.ecam[i].seg = b.seg}
      w == CHOOSE i \in ws : \A j \in ws : i >= j
  IN  IF ws = {} THEN NoFn
      ELSE IF b.func < PCIE_MAX_FUNC - 1 THEN [b EXCEPT !.func = @ + 1]
      ELSE IF b.dev < PCIE_MAX_DEV - 1 THEN [b EXCEPT !.func = 0, !.dev = @ + 1]
      ELSE IF b.bus < pcie.ecam[w].end THEN [b EXCEPT !.func = 0, !.dev = 0, !.bus = @ + 1]
      ELSE IF w < Len(pcie.ecam)
             THEN [seg |-> pcie.ecam[w + 1].seg, bus |-> pcie.ecam[w + 1].start, dev |-> 0, func |-> 0]
             ELSE NoFn
-----------------------------------------------------------------------------
(* Capabilities.  links is a function's list: offset -> [id, next]. *)

Offsets(next, from) ==
  LET at[n \in 0..Cardinality(DOMAIN next)] ==
        IF n = 0 THEN from ELSE LET o == at[n - 1] IN IF o = 0 THEN 0 ELSE next[o]
  IN  at

\* The first offset on the way that is one of hits, 0 if there is none.
FirstWith(at, hits) ==
  LET found == {n \in DOMAIN at : at[n] \in hits}
  IN  IF found = {} THEN 0 ELSE at[First(found)]

Listed(links, from, id) ==
  FirstWith(Offsets([o \in DOMAIN links |-> links[o].next], from), {o \in DOMAIN links : links[o].id = id})

CapabilityIn(fn, type, id) ==
  IF type = "PCIE_CAP" THEN Listed(fn.cap, fn.cpr, id) ELSE Listed(fn.ecap, 256, id)

\* The offset of the capability, 0 for PCIE_CAP_NOT_FOUND.
val_pcie_find_capability(b, type, id) ==
  LET f == Reached(b) IN IF f = NoFn THEN 0 ELSE CapabilityIn(pcie.fn[f], type, id)

\* The RMEDA DVSEC.  Behind a DVSEC of another vendor the next offset is
\* taken from that DVSEC's second header, whose upper half was masked away.
DaCapabilityIn(fn) ==
  LET next == [o \in DOMAIN fn.ecap |-> IF fn.ecap[o].id = "DVSEC" THEN 0 ELSE fn.ecap[o].next]
      hits == {o \in DOMAIN fn.ecap : fn.ecap[o].id = "DVSEC" /\ fn.dvsec[o] = "RMEDA"}
  IN  FirstWith(Offsets(next, 256), hits)

val_pcie_find_da_capability(b) ==
  LET f == Reached(b) IN IF f = NoFn THEN 0 ELSE DaCapabilityIn(pcie.fn[f])

val_pcie_device_port_type(b) ==
  LET fn == pcie.fn[Reached(b)]
  IN  IF fn.onchip /\ fn.port \in {"EP", "RP"} THEN "iEP_" \o fn.port ELSE fn.port
-----------------------------------------------------------------------------
(* Changing bits: each access reads a register, keeps some bits, sets some *)
(* and writes it back.                                                     *)

TYPE01_CR == 4
TYPE1_SEC_STA == 28
DCTLR_OFFSET == 8
RMEDA_CTL1 == 12

CR_MSE == 1
CR_BME == 2
CR_SERRE == 8
SR_STA == 27
DSR_URD == 19
DSR_ERRORS == 16..19
DCTLR_REPORTING == 0..3

Access(where, keep, set) == [where |-> where, keep |-> keep, set |-> set]

val_pcie_enable_bme == <<Access("CR", AllBits, {CR_BME})>>
val_pcie_disable_bme == <<Access("CR", AllBits \ {CR_BME}, {})>>
val_pcie_enable_msa == <<Access("CR", AllBits, {CR_MSE})>>
val_pcie_disable_msa == <<Access("CR", AllBits \ {CR_MSE}, {})>>
\* Mutant: the other error bits that were read are written back.
ClearAll == <<Access("DCTLR", AllBits, {DSR_URD})>>

val_pcie_clear_urd == <<Access("DCTLR", 0..15, {DSR_URD})>>
val_pcie_clear_device_status_error == <<Access("DCTLR", AllBits, DSR_ERRORS)>>
val_pcie_clear_sig_target_abort ==
  <<Access("CR", AllBits, {SR_STA}), Access("SEC_STA", AllBits, {SR_STA})>>
val_pcie_enable_eru ==
  <<Access("CR", AllBits, {CR_SERRE}), Access("DCTLR", AllBits, DCTLR_REPORTING)>>
val_pcie_disable_eru ==
  <<Access("CR", AllBits \ {CR_SERRE}, {}), Access("DCTLR", AllBits \ DCTLR_REPORTING, {})>>

\* The offset of a register of b.
OffsetOf(b, where) ==
  CASE where = "CR" -> TYPE01_CR
    [] where = "SEC_STA" -> TYPE1_SEC_STA
    [] where = "DCTLR" -> val_pcie_find_capability(b, "PCIE_CAP", "PCIECS") + DCTLR_OFFSET
    [] where = "CTL1" -> val_pcie_find_da_capability(b) + RMEDA_CTL1

val_pcie_is_msa_enabled(b) == CR_MSE \in val_pcie_read_cfg(b, TYPE01_CR)
val_pcie_is_urd(b) == DSR_URD \in val_pcie_read_cfg(b, OffsetOf(b, "DCTLR"))
val_pcie_is_device_status_error(b) == val_pcie_read_cfg(b, OffsetOf(b, "DCTLR")) \cap DSR_ERRORS # {}
val_pcie_is_sig_target_abort(b) ==
  SR_STA \in val_pcie_read_cfg(b, TYPE01_CR) \/ SR_STA \in val_pcie_read_cfg(b, TYPE1_SEC_STA)

Reporting == {<<"CR", CR_SERRE>>} \cup {<<"DCTLR", i>> : i \in DCTLR_REPORTING}

\* What a call is documented to set and to clear, as <<register, bit>>, and
\* drops, the errors whose record is gone when it has read the register: those
\* the call is there to clear, and for the seven calls that write back all they
\* have read (read) every error of the register, which they clear without being
\* about it.
Calls ==
  LET call(ops, on, off, drops) == [ops |-> ops, on |-> on, off |-> off, drops |-> drops]
      read == {"CR", "SEC_STA", "DCTLR"} \X AllBits
  IN  [enable_bme  |-> call(val_pcie_enable_bme, {<<"CR", CR_BME>>}, {}, read),
       disable_bme |-> call(val_pcie_disable_bme, {}, {<<"CR", CR_BME>>}, read),
       enable_msa  |-> call(val_pcie_enable_msa, {<<"CR", CR_MSE>>}, {}, read),
       disable_msa |-> call(val_pcie_disable_msa, {}, {<<"CR", CR_MSE>>}, read),
       clear_urd   |-> call(val_pcie_clear_urd, {}, {}, {<<"DCTLR", DSR_URD>>}),
       clear_error |-> call(val_pcie_clear_device_status_error, {}, {}, {<<"DCTLR", i>> : i \in DSR_ERRORS}),
       clear_abort |-> call(val_pcie_clear_sig_target_abort, {}, {}, read),
       enable_eru  |-> call(val_pcie_enable_eru, Reporting, {}, read),
       disable_eru |-> call(val_pcie_disable_eru, {}, Reporting, read)]

Dropped(call, where) == {e[2] : e \in {d \in call.drops : d[1] = where}}

\* The secondary status belongs to root ports only.
StartCall(b, call) ==
  /\ job = Idle /\ todo = <<>> /\ calls < MaxCalls /\ pcie.use = "calls"
  /\ call = "clear_abort" => pcie.fn[b].type = 1
  /\ job' = [op |-> "read", b |-> b, call |-> call, at |-> 1]
  /\ calls' = calls + 1
  /\ UNCHANGED <<pcie, space, todo, tally, asked, fresh, noise, sreg, sres>>

ReadRegister ==
  /\ job.op = "read"
  /\ LET a == Calls[job.call].ops[job.at]  off == OffsetOf(job.b, a.where) IN
       /\ job' = [op |-> "write", b |-> job.b, call |-> job.call, at |-> job.at,
                  val |-> val_pcie_read_cfg(job.b, off)]
       /\ fresh' = [fresh EXCEPT ![job.b][off] = @ \ Dropped(Calls[job.call], a.where)]
  /\ UNCHANGED <<pcie, space, todo, tally, asked, noise, calls, sreg, sres>>

WriteRegister ==
  /\ job.op = "write"
  /\ LET a == Calls[job.call].ops[job.at]  off == OffsetOf(job.b, a.where)
         last == job.at = Len(Calls[job.call].ops) IN
       /\ space' = val_pcie_write_cfg(space, job.b, off, (job.val \cap a.keep) \cup a.set)
       /\ fresh' = [fresh EXCEPT ![job.b][off] = @ \ a.set]
       /\ job' = IF last THEN Idle
                 ELSE [op |-> "read", b |-> job.b, call |-> job.call, at |-> job.at + 1]
       /\ asked' = IF ~last THEN asked
                   ELSE [asked EXCEPT ![job.b].on = (@ \ Calls[job.call].off) \cup Calls[job.call].on,
                                      ![job.b].off = (@ \ Calls[job.call].on) \cup Calls[job.call].off]
  /\ UNCHANGED <<pcie, todo, tally, noise, calls, sreg, sres>>

\* Root writes RMEDA_CTL1 through a mapping of the function's page, whose
\* address went through a uint32_t.
SetTdisp(s, b, v) ==
  LET f == Answers(val_pcie_get_bdf_config_addr(b) % ADDR_PAGES)
      off == OffsetOf(b, "CTL1")
  IN  IF f # NoFn /\ off \in DOMAIN s[f] THEN HwWrite(s, f, off, v) ELSE s

val_pcie_enable_tdisp(b) ==
  /\ job = Idle /\ todo = <<>> /\ calls < MaxCalls /\ pcie.use = "calls"
  /\ val_pcie_find_da_capability(b) # 0
  /\ space' = SetTdisp(space, b, {0})
  /\ asked' = [asked EXCEPT ![b].on = @ \cup {<<"CTL1", 0>>}, ![b].off = @ \ {<<"CTL1", 0>>}]
  /\ calls' = calls + 1
  /\ UNCHANGED <<pcie, job, todo, tally, fresh, noise, sreg, sres>>

val_pcie_disable_tdisp(b) ==
  /\ job = Idle /\ todo = <<>> /\ calls < MaxCalls /\ pcie.use = "calls"
  /\ val_pcie_find_da_capability(b) # 0
  /\ space' = SetTdisp(space, b, {})
  /\ asked' = [asked EXCEPT ![b].off = @ \cup {<<"CTL1", 0>>}, ![b].on = @ \ {<<"CTL1", 0>>}]
  /\ calls' = calls + 1
  /\ UNCHANGED <<pcie, job, todo, tally, fresh, noise, sreg, sres>>

\* The function detects an error, at any time.
HwError(f, off, bit) ==
  /\ noise < MaxErrors
  /\ bit \in pcie.fn[f].w1c[off] \ space[f][off]
  /\ space' = [space EXCEPT ![f][off] = @ \cup {bit}]
  /\ fresh' = [fresh EXCEPT ![f][off] = @ \cup {bit}]
  /\ noise' = noise + 1
  /\ UNCHANGED <<pcie, job, todo, tally, asked, calls, sreg, sres>>
-----------------------------------------------------------------------------
(* Bit-field checks.  An entry says where the field is, which bits it has, *)
(* the value it must have and the attribute its bits must have.            *)

Shift(e) == 8 * (e.offset % 4)
Field(e) == {i + Shift(e) : i \in e.start..e.end}
Toggled(v, F) == (v \ F) \cup (F \ v)
Value(v, e) == {i - (Shift(e) + e.start) : i \in v \cap Field(e)}

\* The capability an entry is about: 0 if it is missing.
CapBase(b, e) ==
  CASE e.reg = "PCIE_CAP" -> val_pcie_find_capability(b, "PCIE_CAP", e.id)
    [] e.reg = "PCIE_ECAP" /\ e.id = "DVSEC" -> val_pcie_find_da_capability(b)
    [] e.reg = "PCIE_ECAP" /\ e.id # "DVSEC" -> val_pcie_find_capability(b, "PCIE_ECAP", e.id)
    [] OTHER -> 0

CapFound(b, e) == e.reg = "HEADER" \/ CapBase(b, e) # 0
RegisterOf(b, e) == CapBase(b, e) + e.offset - (e.offset % 4)

Lasting == {"HW_INIT", "READ_ONLY", "STICKY_RO"}
Writable == {"READ_WRITE", "STICKY_RW"}

\* What is written to a register that reads v to try the attribute.
Overwrite(v, e) ==
  CASE e.attr \in Lasting \cup Writable -> Toggled(v, Field(e))
    [] e.attr = "RSVDP_RO" -> v
    [] e.attr = "RSVDZ_RO" -> v \ Field(e)

\* Does a register that read v before and reads w after pass?
AttributeHeld(v, w, e) ==
  CASE e.attr \in Lasting \cup {"RSVDZ_RO"} -> w = v
    [] e.attr = "RSVDP_RO" -> Value(w, e) = {}
    [] e.attr \in Writable -> w = Toggled(v, Field(e))

\* Mutant: the register keeps the toggled value.
NotRestored(s, b, e, v) == s

\* Only a writable field is given its value back.
Restored(s, b, e, v) ==
  IF e.attr \in Writable THEN val_pcie_write_cfg(s, b, RegisterOf(b, e), v) ELSE s

\* One check is over: ok, or only a warning.
Scored(ok) ==
  /\ job' = Idle
  /\ tally' = IF ok THEN [tally EXCEPT !.passes = @ + 1] ELSE [tally EXCEPT !.fails = @ + 1]

\* Reading the register and writing the value back clears its status bits.
BfClear ==
  /\ job.op = "check"
  /\ LET off == RegisterOf(job.b, job.e) IN
       IF CapFound(job.b, job.e)
       THEN /\ space' = val_pcie_write_cfg(space, job.b, off, val_pcie_read_cfg(job.b, off))
            /\ fresh' = [f \in Functions |-> [o \in DOMAIN fresh[f] |->
                           IF f = job.b /\ o = off THEN {} ELSE fresh[f][o]]]
            /\ job' = [job EXCEPT !.op = "value"]
            /\ UNCHANGED tally
       ELSE Scored(FALSE) /\ UNCHANGED <<space, fresh>>
  /\ UNCHANGED <<pcie, todo, asked, noise, calls, sreg, sres>>

BfValue ==
  /\ job.op = "value"
  /\ LET v == val_pcie_read_cfg(job.b, RegisterOf(job.b, job.e)) IN
       IF Value(v, job.e) = job.e.value
       THEN /\ job' = [op |-> "try", b |-> job.b, e |-> job.e, val |-> v]
            /\ UNCHANGED tally
       ELSE Scored(job.e.warn1)
  /\ UNCHANGED <<pcie, space, todo, asked, fresh, noise, calls, sreg, sres>>

BfTry ==
  /\ job.op = "try"
  /\ space' = val_pcie_write_cfg(space, job.b, RegisterOf(job.b, job.e), Overwrite(job.val, job.e))
  /\ job' = [job EXCEPT !.op = "compare"]
  /\ UNCHANGED <<pcie, todo, tally, asked, fresh, noise, calls, sreg, sres>>

BfCompare ==
  /\ job.op = "compare"
  /\ Scored(AttributeHeld(job.val, val_pcie_read_cfg(job.b, RegisterOf(job.b, job.e)), job.e)
              \/ job.e.warn2)
  /\ space' = Restored(space, job.b, job.e, job.val)
  /\ UNCHANGED <<pcie, todo, asked, fresh, noise, calls, sreg, sres>>

\* Every function of the list: its error reports are switched off, then the
\* entries for its port type are checked.
ChecksOf(b) ==
  LET wanted(e) == val_pcie_device_port_type(b) \in e.ports
      entries == SelectSeq(pcie.entries, wanted)
  IN  <<[op |-> "read", b |-> b, at |-> 1,
         call |-> "disable_eru"]>>
      \o [i \in 1..Len(entries) |-> [op |-> "check", b |-> b, e |-> entries[i]]]

val_pcie_register_bitfields_check ==
  /\ job = Idle /\ todo = <<>> /\ calls = 0 /\ pcie.use = "fields"
  /\ todo' = FlattenSeq([i \in 1..Len(pcie.list) |-> ChecksOf(pcie.list[i])])
  /\ calls' = MaxCalls
  /\ UNCHANGED <<pcie, space, job, tally, asked, fresh, noise, sreg, sres>>

NextCheck ==
  /\ job = Idle /\ todo # <<>>
  /\ job' = Head(todo)
  /\ todo' = Tail(todo)
  /\ UNCHANGED <<pcie, space, tally, asked, fresh, noise, calls, sreg, sres>>
-----------------------------------------------------------------------------
(* Protection checks.  prot says whether the non-secure world can read and *)
(* write the register; root can do both.                                   *)

TEST_DATA_1 == "root data"
TEST_DATA_2 == "ns data"
NsRead(v) == IF pcie.prot.read THEN v ELSE "nothing"
NsWrite(v, d) == IF pcie.prot.write THEN d ELSE v

\* The root's data must be seen from the non-secure world, and then no longer
\* after a non-secure write; only then the contents are put back.
WriteProtectCheck(v) ==
  LET after == NsWrite(TEST_DATA_1, TEST_DATA_2)
  IN  CASE NsRead(TEST_DATA_1) # TEST_DATA_1 -> [res |-> 1, v |-> TEST_DATA_1]
        [] NsRead(TEST_DATA_1) = TEST_DATA_1 /\ NsRead(after) = TEST_DATA_1 -> [res |-> 1, v |-> after]
        [] OTHER -> [res |-> 0, v |-> v]

\* The root's write is prepared and never made, so the non-secure world reads
\* the original contents.
FullProtectCheck(v) ==
  LET after == NsWrite(v, TEST_DATA_2)
  IN  CASE NsRead(v) = TEST_DATA_1 -> [res |-> 1, v |-> v]
        [] NsRead(v) # TEST_DATA_1 /\ NsRead(after) = TEST_DATA_2 -> [res |-> 1, v |-> after]
        [] OTHER -> [res |-> 0, v |-> v]

\* Root ports: TDISP is enabled first and left so.
val_pcie_rp_sec_prpty_check(b, property) ==
  /\ job = Idle /\ todo = <<>> /\ calls = 0 /\ pcie.use = "protection"
  /\ IF val_pcie_find_da_capability(b) = 0
     THEN sres' = [property |-> property, res |-> 1, was |-> sreg, da |-> FALSE] /\ UNCHANGED <<space, asked, sreg>>
     ELSE LET c == IF property = "RMSD_WRITE_PROTECT" THEN WriteProtectCheck(sreg) ELSE FullProtectCheck(sreg)
          IN  /\ space' = SetTdisp(space, b, {0})
              /\ asked' = [asked EXCEPT ![b].on = @ \cup {<<"CTL1", 0>>}]
              /\ sres' = [property |-> property, res |-> c.res, was |-> sreg, da |-> TRUE]
              /\ sreg' = c.v
  /\ calls' = MaxCalls
  /\ UNCHANGED <<pcie, job, todo, tally, fresh, noise>>

val_intercnt_sec_prpty_check ==
  /\ job = Idle /\ todo = <<>> /\ calls = 0 /\ pcie.use = "protection"
  /\ LET c == FullProtectCheck(sreg)
     IN  /\ sres' = [property |-> "RMSD_PROTECT", res |-> c.res, was |-> sreg, da |-> TRUE]
         /\ sreg' = c.v
  /\ calls' = MaxCalls
  /\ UNCHANGED <<pcie, space, job, todo, tally, asked, fresh, noise>>
-----------------------------------------------------------------------------
CfgInit ==
  /\ pcie \in Machines
  /\ space = pcie.reg
  /\ job = Idle /\ todo = <<>>
  /\ tally = [fails |-> 0, passes |-> 0]
  /\ asked = [f \in Functions |-> [on |-> {}, off |-> {}]]
  /\ fresh = [f \in Functions |-> [o \in DOMAIN pcie.reg[f] |-> {}]]
  /\ noise = 0 /\ calls = 0
  /\ sreg = "contents"
  /\ sres = [property |-> "none", res |-> 0, was |-> "contents", da |-> TRUE]

CfgNext ==
  \/ \E b \in Functions, call \in DOMAIN Calls : StartCall(b, call)
  \/ ReadRegister
  \/ WriteRegister
  \/ \E b \in Functions : val_pcie_enable_tdisp(b)
  \/ \E b \in Functions : val_pcie_disable_tdisp(b)
  \/ \E f \in Functions : \E off \in DOMAIN space[f] : \E bit \in pcie.fn[f].w1c[off] : HwError(f, off, bit)
  \/ val_pcie_register_bitfields_check
  \/ NextCheck
  \/ BfClear
  \/ BfValue
  \/ BfTry
  \/ BfCompare
  \/ \E b \in Functions, p \in {"RMSD_WRITE_PROTECT", "RMSD_FULL_PROTECT"} : val_pcie_rp_sec_prpty_check(b, p)
  \/ val_intercnt_sec_prpty_check

-----------------------------------------------------------------------------
Settled == job = Idle /\ todo = <<>>

OneWindow == \A i, j \in 1..Len(pcie.ecam) : pcie.ecam[i].seg = pcie.ecam[j].seg => i = j

\* The functions that increment_bdf names from the first one on.
Walk ==
  LET first == [seg |-> pcie.ecam[1].seg, bus |-> pcie.ecam[1].start, dev |-> 0, func |-> 0]
      buses == UNION {{i} \X (pcie.ecam[i].start..pcie.ecam[i].end) : i \in 1..Len(pcie.ecam)}
      at[n \in 0..Cardinality(buses) * PCIE_MAX_DEV * PCIE_MAX_FUNC] ==
        IF n = 0 THEN first
        ELSE LET b == at[n - 1] IN IF b = NoFn THEN NoFn ELSE val_pcie_increment_bdf(b)
  IN  {at[n] : n \in DOMAIN at}

\* An access to a function reaches that function, whatever windows the system
\* has (val_pcie_read_cfg, val_pcie_get_bdf_config_addr); with one window to a
\* segment its index and base are found (val_pcie_get_ecam_index,
\* val_pcie_get_ecam_base) and val_pcie_increment_bdf visits every function
\* before it ends.  (No step changes an address, so the first state is enough.)
FunctionsReached ==
  (pcie.use = "calls" /\ calls = 0 /\ noise = 0) => \A f \in Functions :
    /\ Reached(f) = f
    /\ OneWindow =>
         /\ val_pcie_get_ecam_index(f) # 0
         /\ InWindow(pcie.ecam[val_pcie_get_ecam_index(f)], f)
         /\ val_pcie_get_ecam_base(f) = pcie.ecam[val_pcie_get_ecam_index(f)].base
         /\ {f, NoFn} \subseteq Walk

\* The errors nobody was told of yet are found by the calls that look for them.
ErrorsSeen(f) ==
  LET pending(where) == fresh[f][OffsetOf(f, where)]
  IN  /\ \A off \in DOMAIN space[f] : fresh[f][off] \subseteq space[f][off]
      /\ DSR_URD \in pending("DCTLR") => val_pcie_is_urd(f)
      /\ pending("DCTLR") # {} => val_pcie_is_device_status_error(f)
      /\ (pcie.fn[f].type = 1 /\ SR_STA \in pending("CR") \cup pending("SEC_STA")) =>
           val_pcie_is_sig_target_abort(f)

\* Between calls every bit is as the last call that names it asked
\* (val_pcie_enable_bme and its like, val_pcie_enable_tdisp for functions
\* below 4 GB), although the function changes the registers too; all of it of
\* the function that is meant (FunctionsReached).  Of the errors the function
\* recorded, val_pcie_clear_urd and val_pcie_clear_device_status_error clear
\* those they are about and no other, and no call clears one that occurred after
\* its read.  It is not so that the other calls leave errors alone: enable_bme,
\* disable_bme, enable_msa, disable_msa, enable_eru, disable_eru and
\* clear_sig_target_abort write the status half back as they read it and clear
\* whatever was recorded there before.
RegistersAsAsked ==
  /\ FunctionsReached
  /\ Settled =>
    \A f \in Functions :
      /\ \A r \in asked[f].on \cup asked[f].off :
           (r[1] = "CTL1" => pcie.fn[f].page < ADDR_PAGES) =>
             ((r \in asked[f].on) <=> (r[2] \in space[f][OffsetOf(f, r[1])]))
      /\ <<"CR", CR_MSE>> \in asked[f].on \cup asked[f].off =>
           (val_pcie_is_msa_enabled(f) <=> <<"CR", CR_MSE>> \in asked[f].on)
      /\ pcie.use = "calls" => ErrorsSeen(f)

\* What the table asks of a field and the function does not have.
NonCompliant(f, e) ==
  LET caps == CASE e.reg = "HEADER" -> {0}
                [] e.reg = "PCIE_CAP" -> {o \in DOMAIN pcie.fn[f].cap : pcie.fn[f].cap[o].id = e.id}
                [] e.reg = "PCIE_ECAP" -> {o \in DOMAIN pcie.fn[f].ecap : pcie.fn[f].ecap[o].id = e.id}
      off == First(caps) + e.offset - (e.offset % 4)
      rw == pcie.fn[f].rw[off] \cap Field(e)
      read == Value(pcie.reg[f][off], e)
  IN  \/ caps = {}
      \/ read # e.value /\ ~e.warn1
      \/ /\ read = e.value /\ ~e.warn2
         /\ \/ e.attr \in Lasting /\ rw # {}
            \/ e.attr \in Writable /\ rw # Field(e)
            \/ e.attr = "RSVDZ_RO" /\ rw \cap pcie.reg[f][off] # {}
            \/ e.attr = "RSVDP_RO" /\ read # {}

Failing == {<<f, e>> \in ToSet(pcie.list) \X ToSet(pcie.entries) :
              val_pcie_device_port_type(f) \in e.ports /\ NonCompliant(f, e)}

\* val_pcie_register_bitfields_check counts one failure for each field that is
\* not as its table entry says and, beyond those, at most one for each error
\* the function detected meanwhile; functions whose fields are all right have
\* their writable bits back, error reporting aside.
BitfieldSound ==
  (pcie.use = "fields" /\ calls > 0 /\ Settled) =>
    /\ tally.fails >= Cardinality(Failing)
    /\ tally.fails <= Cardinality(Failing) + noise
    /\ \A f \in Functions : (\A p \in Failing : p[1] # f) =>
         \A off \in DOMAIN space[f] :
           LET kept == pcie.fn[f].rw[off] \ {r[2] : r \in {q \in Reporting : OffsetOf(f, q[1]) = off}}
           IN  space[f][off] \cap kept = pcie.reg[f][off] \cap kept

\* Which functions a protection check can be believed about.  One that passes has
\* put the register's contents back.  A check for full protection
\* (RMSD_FULL_PROTECT of val_pcie_rp_sec_prpty_check, RMSD_PROTECT of
\* val_intercnt_sec_prpty_check) fails a register that the non-secure world can
\* read and write and passes one that it can do neither with; one that it can
\* only read, or only write, passes as well, since the root's data is never
\* written and a write is looked for with a read.  A check for write protection
\* fails a register that the non-secure world cannot read; of those it can read
\* it fails the write-protected ones and passes the others, the reverse of what
\* its comment says, and nothing is claimed of them.  A root port without the
\* RMEDA capability fails.
ProtectionVerdicts ==
  sres.property # "none" =>
    LET fails == sres.res = 1
        full == sres.property \in {"RMSD_FULL_PROTECT", "RMSD_PROTECT"}
    IN  /\ ~fails => sreg = sres.was
        /\ full /\ pcie.prot.read /\ pcie.prot.write => fails
        /\ full /\ sres.da /\ ~pcie.prot.read /\ ~pcie.prot.write => ~fails
        /\ ~full /\ ~pcie.prot.read => fails
        /\ ~sres.da => fails /\ sreg = sres.was

\* What the two kinds of check say of a function's registers: of bit fields
\* (val_pcie_register_bitfields_check, BitfieldSound) and of protection
\* (val_pcie_rp_sec_prpty_check and val_intercnt_sec_prpty_check,
\* ProtectionVerdicts, which names the registers whose verdict is worth nothing).
ChecksSound == BitfieldSound /\ ProtectionVerdicts
=============================================================================
