---------------------------- MODULE DeviceAssign ----------------------------
(***************************************************************************)
(* Assigning devices to realms: selective IDE streams (val/src/acs_da.c),  *)
(* the TDISP messages that lock and unlock a device through its DOE        *)
(* mailbox (pal_tdisp_spdm.c), and the course the device assignment tests  *)
(* take over the exercisers (test_da008.c): enable TDISP, establish a      *)
(* stream between the exerciser and its root port, lock it, lock the       *)
(* device, do DMA both ways and compare, and in the end switch everything  *)
(* off.  The mailbox and the IDE hardware are environment: a device        *)
(* answers when it likes, or, if it is prompt, before the host looks.      *)
(*                                                                         *)
(* An IDE register is a pair [hi, lo] of its upper and lower fields.       *)
(***************************************************************************)
EXTENDS Exerciser

LOCAL INSTANCE Bitwise

CONSTANT MAX_STREAM_ID     \* 255

VARIABLES ide,        \* IDE registers: function -> offset -> [hi, lo]
          locked,     \* RMEDA_CTL2 of the root ports: the streams locked
          doe,        \* mailbox of each device: [busy, ready, msg, resp]
          tdi,        \* TDISP state of each device
          response,   \* the last response read, of whichever device
          unique_stream_id,
          given,      \* history: the ID and RID last given to each function's streams
          da          \* the test under way

daVars == <<ide, locked, doe, tdi, response, unique_stream_id, given, da>>
-----------------------------------------------------------------------------
(* IDE register blocks. *)

IDE_CAP_REG_SIZE == 12
LINK_IDE_BLK_SIZE == 8
SEL_IDE_CAP_CNTRL_REG == 4
SEL_IDE_CAP_STATUS_REG == 8
SEL_IDE_CAP_REG_SIZE == 12
RID_ADDR_REG_SIZE == 4
IDE_ADDR_REG_BLK_SIZE == 12
STREAM_STATE_INSECURE == 0
STREAM_STATE_SECURE == 2

Pair(hi, lo) == [hi |-> hi, lo |-> lo]

\* Where the standard puts the register blocks of a function's streams.
StreamAt(d, n) ==
  LET sum[k \in 0..n] == IF k = 0 THEN 0 ELSE sum[k - 1] + d.naddr[k] * 12
  IN  d.cap + 12 + (d.tc + 1) * 8 + (n - 1) * 20 + sum[n - 1]

IdeRegisters(d) ==
  LET blocks == {StreamAt(d, n) : n \in 1..Len(d.naddr)}
  IN  [off \in UNION {{o, o + 4, o + 8, o + 12, o + 16} : o \in blocks} |->
         IF off \in blocks THEN Pair(0, d.naddr[CHOOSE n \in 1..Len(d.naddr) : StreamAt(d, n) = off])
         ELSE Pair(0, 0)]

ReadIde(i, f, off) == IF off \in DOMAIN i[f] THEN i[f][off] ELSE Pair(0, 0)

\* The hardware: a stream with keys is secure once it is enabled, until one of
\* its registers is written while it is locked (if the port detects that).
IdeStream(f, off) ==
  LET d == pcie.fn[f].ide
  IN  {n \in 1..Len(d.naddr) : off \in StreamAt(d, n)..StreamAt(d, n) + 16}

WriteIde(i, f, off, v) ==
  LET d == pcie.fn[f].ide
      after == [i EXCEPT ![f][off] = v]
      hit == IF pcie.detects THEN IdeStream(f, off) \cap locked[f] ELSE {}
      n == CHOOSE s \in IdeStream(f, off) : TRUE
      status == StreamAt(d, n) + SEL_IDE_CAP_STATUS_REG
      enabled == after[f][StreamAt(d, n) + SEL_IDE_CAP_CNTRL_REG].lo = 1
      state == IF hit = {} /\ enabled /\ d.keyed THEN STREAM_STATE_SECURE ELSE STREAM_STATE_INSECURE
  IN  IF off \notin DOMAIN i[f] THEN i ELSE [after EXCEPT ![f][status] = Pair(0, state)]

\* Mutant: the second RID register is not counted.
ShortBlock == SEL_IDE_CAP_REG_SIZE + RID_ADDR_REG_SIZE

BlockSize == SEL_IDE_CAP_REG_SIZE + RID_ADDR_REG_SIZE + RID_ADDR_REG_SIZE

\* The walk all five functions make: the offset of the block of stream str_cnt,
\* 0 if the function has none.  Each block says how long it is.
SelStream(f, str_cnt) ==
  LET d == pcie.fn[f].ide
      at[n \in 1..d.num] ==
        IF n = 1 THEN d.cap + IDE_CAP_REG_SIZE + (d.tc + 1) * LINK_IDE_BLK_SIZE
        ELSE LET o == at[n - 1] IN o + BlockSize + ReadIde(ide, f, o).lo * IDE_ADDR_REG_BLK_SIZE
  IN  IF val_pcie_find_capability(f, "PCIE_ECAP", "IDE") = 0 \/ ~d.sel \/ str_cnt \notin 1..d.num THEN 0
      ELSE at[str_cnt]

val_ide_get_num_sel_str(f) ==
  IF val_pcie_find_capability(f, "PCIE_ECAP", "IDE") = 0 \/ ~pcie.fn[f].ide.sel THEN 0 ELSE pcie.fn[f].ide.num

\* Enabling keeps the stream's ID, disabling clears the register.
val_ide_set_sel_stream(i, f, str_cnt, enable) ==
  LET o == SelStream(f, str_cnt) + SEL_IDE_CAP_CNTRL_REG
  IN  WriteIde(i, f, o, IF enable THEN [ReadIde(i, f, o) EXCEPT !.lo = 1] ELSE Pair(0, 0))

val_ide_program_stream_id(i, f, str_cnt, id) ==
  WriteIde(i, f, SelStream(f, str_cnt) + SEL_IDE_CAP_CNTRL_REG, Pair(id, 0))

\* The write of the valid bit replaces the base that was just written.
val_ide_program_rid_base_limit_valid(i, f, str_cnt, base, limit, valid) ==
  LET o == SelStream(f, str_cnt) + SEL_IDE_CAP_REG_SIZE
      one == WriteIde(i, f, o, Pair(limit, 0))
      two == WriteIde(one, f, o + RID_ADDR_REG_SIZE, Pair(base, 0))
  IN  WriteIde(two, f, o + RID_ADDR_REG_SIZE, Pair(0, valid))

val_get_sel_str_status(i, f, str_cnt) ==
  ReadIde(i, f, SelStream(f, str_cnt) + SEL_IDE_CAP_STATUS_REG).lo

\* Bus, device and function of a requester ID; packing a packed ID again takes
\* its bus number for a device.
PCIE_CREATE_BDF_PACKED(bus, dev, func) == (func | (dev * 8)) | (bus * 256)
Rid(b) == PCIE_CREATE_BDF_PACKED(b.bus, b.dev, b.func)
Repacked(rid) == PCIE_CREATE_BDF_PACKED(0, (rid \div 256) % 256, rid % 256)

\* [ide, status]: nothing is undone when the stream does not become secure.
val_ide_establish_stream(i, f, count, stream_id, base_limit) ==
  LET one == val_ide_program_rid_base_limit_valid(i, f, count, Repacked(base_limit), Repacked(base_limit), 1)
      two == val_ide_program_stream_id(one, f, count, stream_id)
      three == val_ide_set_sel_stream(two, f, count, TRUE)
  IN  IF SelStream(f, count) = 0 THEN [ide |-> i, status |-> 1]
      ELSE [ide |-> three,
            status |-> IF val_get_sel_str_status(three, f, count) = STREAM_STATE_SECURE THEN 0 ELSE 1]

val_generate_stream_id(n) == IF n + 1 > MAX_STREAM_ID THEN 1 ELSE n + 1
-----------------------------------------------------------------------------
(* DOE mailbox.  A message is [type, nonce]; a mailbox holds the message the *)
(* device has not taken yet (Busy) and the response nobody read yet (Ready). *)

Msg(type, nonce) == [type |-> type, nonce |-> nonce]
Nothing == Msg("none", NoFn)

LockMessages == <<"spdm_version", "tdisp_version", "get_state", "lock", "run", "get_state">>

\* Mutant: the device is asked for its state and never told to stop.
OnlyAsks == <<"get_state">>

UnlockMessages == <<"stop", "get_state">>

pal_form_get_version_msg == Msg("tdisp_version", NoFn)
pal_form_tdisp_get_state_msg == Msg("get_state", NoFn)
pal_form_tdisp_lock_msg == Msg("lock", NoFn)

\* The nonce of the run message is whatever the last response holds there.
pal_form_tdisp_run_msg == Msg("run", response.nonce)

Formed(type) ==
  CASE type = "tdisp_version" -> pal_form_get_version_msg
    [] type = "get_state" -> pal_form_tdisp_get_state_msg
    [] type = "lock" -> pal_form_tdisp_lock_msg
    [] type = "run" -> pal_form_tdisp_run_msg
    [] OTHER -> Msg(type, NoFn)

pal_write_doe_msgo_doe_mailbox(b, m) ==
  LET f == Ecam1(b)
  IN  IF pal_exerciser_find_pcie_capability("DOE", b) = 0 \/ doe[f].msg # Nothing THEN doe
      ELSE [doe EXCEPT ![f].msg = m]

\* The status is looked at once; nothing waits for the response.
pal_host_pcie_doe_recv_resp(b) ==
  LET f == Ecam1(b)
  IN  IF pal_exerciser_find_pcie_capability("DOE", b) = 0 \/ doe[f].resp = Nothing
      THEN UNCHANGED <<doe, response>>
      ELSE response' = doe[f].resp /\ doe' = [doe EXCEPT ![f].resp = Nothing]

\* The device: which state a message takes it to, and what it answers.  The
\* nonce of a lock response is the device's own.
TdiNext(f, m) ==
  CASE m.type = "lock" /\ tdi[f] = "UNLOCKED" -> "LOCKED"
    [] m.type = "run" /\ tdi[f] = "LOCKED" /\ m.nonce = f -> "RUN"
    [] m.type = "stop" -> "UNLOCKED"
    [] OTHER -> tdi[f]

DeviceAnswers(f) ==
  LET m == doe[f].msg  locks == m.type = "lock" /\ tdi[f] = "UNLOCKED" IN
  /\ m # Nothing /\ doe[f].resp = Nothing
  /\ tdi' = [tdi EXCEPT ![f] = TdiNext(f, m)]
  /\ doe' = [doe EXCEPT ![f] = [msg |-> Nothing, resp |-> Msg(m.type, IF locks THEN f ELSE NoFn)]]
  /\ UNCHANGED <<cfgVars, exVars, ide, locked, response, unique_stream_id, given, da>>
-----------------------------------------------------------------------------
(* The tests.  pc is "next" between two devices, i the devices begun.      *)

Testing(test, pc) == pcie.use = "assign" /\ pcie.test = test /\ da.pc = pc

RootPort(b) ==
  LET above == {k \in 1..Len(pcie.list) :
                  LET p == pcie.list[k] IN
                    /\ pcie.fn[p].port = "RP" /\ p.seg = b.seg
                    /\ pcie.fn[p].sec <= b.bus /\ pcie.fn[p].sub >= b.bus}
  IN  IF above = {} THEN NoFn ELSE pcie.list[First(above)]

\* Root writes RMEDA_CTL2 through a mapping like the one of RMEDA_CTL1: the
\* lock bits of the other streams are cleared.
LockStream(rp, count) ==
  LET f == Answers(val_pcie_get_bdf_config_addr(rp) % ADDR_PAGES)
  IN  IF f = NoFn THEN locked ELSE [locked EXCEPT ![f] = {count}]

Current == etable[da.i].bdf

\* da008, first part: up to TDISP and the stream ID.
Da008Begin ==
  /\ Testing("da008", "next") /\ etable # <<>> /\ da.i < Len(etable)
  /\ LET b == etable[da.i + 1].bdf  rp == RootPort(b)
         init == IF etable[da.i + 1].initialized THEN space ELSE Initialized(space, b)
         id == val_generate_stream_id(unique_stream_id) IN
       /\ etable' = [etable EXCEPT ![da.i + 1].initialized = TRUE]
       /\ IF rp = NoFn \/ val_pcie_find_da_capability(rp) = 0
          THEN /\ space' = init /\ da' = [da EXCEPT !.i = @ + 1]
               /\ UNCHANGED unique_stream_id
          ELSE /\ space' = SetTdisp(init, rp, {0})
               /\ unique_stream_id' = id
               /\ da' = [da EXCEPT !.i = @ + 1, !.skip = FALSE, !.pc = "establish"]
  /\ UNCHANGED <<pcie, job, todo, tally, asked, fresh, noise, calls, sreg, sres, ecsr, ecfg, last, requests,
                 ide, locked, doe, tdi, response, given>>

\* Mutant: a device whose stream cannot be established is passed over.
PassedOver == [da EXCEPT !.pc = "next"]

NotEstablished == [da EXCEPT !.pc = "next", !.fails = @ + 1]

Given(f) ==
  IF SelStream(f, 1) = 0 THEN given
  ELSE [given EXCEPT ![f][1] = [id |-> unique_stream_id, rid |-> Rid(Current)]]

Da008Establish ==
  /\ Testing("da008", "establish")
  /\ \E ep \in {val_ide_establish_stream(ide, Current, 1, unique_stream_id, Rid(Current))} :
       /\ ide' = ep.ide
       /\ given' = Given(Current)
       /\ da' = IF ep.status = 0 THEN [da EXCEPT !.pc = "root"] ELSE NotEstablished
  /\ UNCHANGED <<cfgVars, exVars, locked, doe, tdi, response, unique_stream_id>>

\* The same stream in the root port.
Da008EstablishRoot ==
  /\ Testing("da008", "root")
  /\ \E up \in {val_ide_establish_stream(ide, RootPort(Current), 1, unique_stream_id, Rid(Current))} :
       /\ ide' = up.ide
       /\ given' = Given(RootPort(Current))
       /\ da' = IF up.status = 0 THEN [da EXCEPT !.pc = "bar"] ELSE NotEstablished
  /\ UNCHANGED <<cfgVars, exVars, locked, doe, tdi, response, unique_stream_id>>

Da008Lock ==
  /\ Testing("da008", "bar")
  /\ locked' = LockStream(RootPort(Current), 1)
  /\ da' = IF val_pcie_get_mmio_bar(Current) = 0 THEN [da EXCEPT !.pc = "next"]
           ELSE [da EXCEPT !.pc = "send", !.msgs = LockMessages, !.then = "dma"]
  /\ UNCHANGED <<cfgVars, exVars, ide, doe, tdi, response, unique_stream_id, given>>

\* pal_device_lock and pal_device_unlock: a message, a look for its response,
\* the next message, whatever came of it.
SendMessage ==
  /\ Testing("da008", "send")
  /\ doe' = pal_write_doe_msgo_doe_mailbox(Current, Formed(Head(da.msgs)))
  /\ da' = [da EXCEPT !.pc = "recv"]
  /\ UNCHANGED <<cfgVars, exVars, ide, locked, tdi, response, unique_stream_id, given>>

\* A prompt device has answered by then.
pal_check_doe_response ==
  /\ Testing("da008", "recv")
  /\ pcie.prompt => doe[Ecam1(Current)].msg = Nothing
  /\ pal_host_pcie_doe_recv_resp(Current)
  /\ da' = [da EXCEPT !.msgs = Tail(@), !.pc = IF Len(da.msgs) = 1 THEN da.then ELSE "send",
                      !.i = IF Len(da.msgs) = 1 /\ da.then = "down" THEN @ - 1 ELSE @]
  /\ UNCHANGED <<cfgVars, exVars, ide, locked, tdi, unique_stream_id, given>>

\* What the system lets through: requests of a running device on a stream
\* that both ends know and hold secure.
Admitted(b) ==
  LET rp == RootPort(b)
      at(f) == ide[f][StreamAt(pcie.fn[f].ide, 1) + SEL_IDE_CAP_CNTRL_REG]
  IN  /\ tdi[b] = "RUN" /\ 0 \in space[rp][OffsetOf(rp, "CTL1")]
      /\ at(b) = at(rp)
      /\ \A f \in {b, rp} : val_get_sel_str_status(ide, f, 1) = STREAM_STATE_SECURE

\* broke is where the transfer failed, "no" if the data came back.
Da008Dma(broke) ==
  /\ Testing("da008", "dma")
  /\ broke = "no" => Admitted(Current)
  /\ LET attr(r, a) == pal_exerciser_set_param(r, Req("dma", "DMA_ATTRIBUTES", a, 1))
         to == pal_exerciser_start_dma_direction(attr(ecsr[Current], 1), "EDMA_TO_DEVICE")
         from == pal_exerciser_start_dma_direction(attr(to, 2), "EDMA_FROM_DEVICE")
     IN  ecsr' = [ecsr EXCEPT ![Current] = IF broke = "to" THEN to ELSE from]
  /\ da' = IF broke = "no" THEN [da EXCEPT !.pc = "next", !.done = @ \cup {Current}]
           ELSE [da EXCEPT !.pc = "next", !.fails = @ + 1]
  /\ UNCHANGED <<cfgVars, etable, ecfg, last, requests, ide, locked, doe, tdi, response, unique_stream_id, given>>

Da008Down ==
  /\ etable # <<>>
  /\ Testing("da008", "down") \/ (Testing("da008", "next") /\ da.i = Len(etable))
  /\ da.i > 0
  /\ LET rp == RootPort(Current) IN
       IF rp = NoFn THEN da' = [da EXCEPT !.pc = "down", !.i = @ - 1] /\ UNCHANGED space
       ELSE /\ space' = IF val_pcie_find_da_capability(rp) = 0 THEN space ELSE SetTdisp(space, rp, {})
            /\ da' = [da EXCEPT !.pc = "send", !.msgs = UnlockMessages, !.then = "down"]
  /\ UNCHANGED <<pcie, job, todo, tally, asked, fresh, noise, calls, sreg, sres, exVars,
                 ide, locked, doe, tdi, response, unique_stream_id, given>>

\* da012: every stream of every root port is established, locked, and given
\* another ID, which must make it insecure.
Da012Begin ==
  /\ Testing("da012", "next") /\ da.i < Len(pcie.list)
  /\ LET b == pcie.list[da.i + 1]  next == [da EXCEPT !.i = @ + 1, !.skip = FALSE] IN
       \/ /\ val_pcie_device_port_type(b) # "RP"
          /\ da' = [da EXCEPT !.i = @ + 1] /\ UNCHANGED space
       \/ /\ val_pcie_device_port_type(b) = "RP" /\ val_pcie_find_da_capability(b) = 0
          /\ da' = next /\ UNCHANGED space
       \/ /\ val_pcie_device_port_type(b) = "RP" /\ val_pcie_find_da_capability(b) # 0
          /\ IF val_ide_get_num_sel_str(b) = 0 THEN da' = [next EXCEPT !.fails = @ + 1] /\ UNCHANGED space
             ELSE space' = SetTdisp(space, b, {0}) /\ da' = [next EXCEPT !.pc = "stream", !.count = 1]
  /\ UNCHANGED <<pcie, job, todo, tally, asked, fresh, noise, calls, sreg, sres, exVars,
                 ide, locked, doe, tdi, response, unique_stream_id, given>>

\* Three IDs are drawn for a stream, the first for nothing.
Da012Stream ==
  /\ Testing("da012", "stream") /\ da.count <= val_ide_get_num_sel_str(pcie.list[da.i])
  /\ LET b == pcie.list[da.i]
         id2 == val_generate_stream_id(val_generate_stream_id(unique_stream_id)) IN
     \E est \in {val_ide_establish_stream(ide, b, da.count, id2, Rid(b))} :
       /\ ide' = est.ide /\ unique_stream_id' = id2
       /\ given' = [given EXCEPT ![b][da.count] = [id |-> id2, rid |-> Rid(b)]]
       /\ da' = IF est.status = 0 THEN [da EXCEPT !.pc = "relock"]
                ELSE [da EXCEPT !.fails = @ + 1, !.count = @ + 1]
  /\ UNCHANGED <<cfgVars, exVars, locked, doe, tdi, response>>

Da012Lock ==
  /\ Testing("da012", "relock")
  /\ locked' = LockStream(pcie.list[da.i], da.count)
  /\ da' = [da EXCEPT !.pc = "reprogram"]
  /\ UNCHANGED <<cfgVars, exVars, ide, doe, tdi, response, unique_stream_id, given>>

Da012Reprogram ==
  /\ Testing("da012", "reprogram")
  /\ LET b == pcie.list[da.i]
         id == val_generate_stream_id(unique_stream_id)
         after == val_ide_program_stream_id(ide, b, da.count, id)
         insecure == val_get_sel_str_status(after, b, da.count) = STREAM_STATE_INSECURE IN
       /\ ide' = after /\ unique_stream_id' = id
       /\ given' = [given EXCEPT ![b][da.count].id = id]
       /\ da' = [da EXCEPT !.pc = "stream", !.count = @ + 1, !.fails = IF insecure THEN @ ELSE @ + 1]
  /\ UNCHANGED <<cfgVars, exVars, locked, doe, tdi, response>>

\* The call at the end enables TDISP once more.
Da012End ==
  /\ Testing("da012", "stream") /\ da.count > val_ide_get_num_sel_str(pcie.list[da.i])
  /\ space' = SetTdisp(space, pcie.list[da.i], {0})
  /\ da' = [da EXCEPT !.pc = "next"]
  /\ UNCHANGED <<pcie, job, todo, tally, asked, fresh, noise, calls, sreg, sres, exVars,
                 ide, locked, doe, tdi, response, unique_stream_id, given>>

Verdict == IF da.skip THEN "SKIP" ELSE IF da.fails > 0 THEN "FAIL" ELSE "PASS"

Finish ==
  /\ \/ Testing("da008", "down") /\ da.i = 0
     \/ Testing("da012", "next") /\ da.i = Len(pcie.list)
  /\ da' = [da EXCEPT !.pc = "done", !.result = Verdict]
  /\ UNCHANGED <<cfgVars, exVars, ide, locked, doe, tdi, response, unique_stream_id, given>>
-----------------------------------------------------------------------------
\* Earlier tests have drawn stream IDs.
DaInit ==
  /\ ide = [f \in Functions |-> IdeRegisters(pcie.fn[f].ide)]
  /\ locked = [f \in Functions |-> {}]
  /\ doe = [f \in Functions |-> [msg |-> Nothing, resp |-> Nothing]]
  /\ tdi = [f \in Functions |-> "UNLOCKED"]
  /\ response = Nothing
  /\ unique_stream_id \in (IF pcie.use = "assign" THEN {1, MAX_STREAM_ID - 2} ELSE {1})
  /\ given = [f \in Functions |-> [n \in 1..Len(pcie.fn[f].ide.naddr) |-> [id |-> 0, rid |-> 0]]]
  /\ da = [pc |-> "next", i |-> 0, count |-> 0, msgs |-> <<>>, then |-> "", fails |-> 0, skip |-> TRUE,
           done |-> {}, result |-> ""]

DaNext ==
  \/ Da008Begin \/ Da008Establish \/ Da008EstablishRoot \/ Da008Lock \/ SendMessage \/ pal_check_doe_response
  \/ \E broke \in {"no", "to", "from"} : Da008Dma(broke)
  \/ Da008Down \/ Da012Begin \/ Da012Stream \/ Da012Lock \/ Da012Reprogram \/ Da012End \/ Finish
  \/ \E f \in Functions : DeviceAnswers(f)
-----------------------------------------------------------------------------
Exercisers == {b \in ToSet(pcie.list) : pcie.fn[b].exerciser}

\* The streams of f hold what they were last given, at the places the standard
\* gives them, and a stream nobody established is as it was: the walk over the
\* register blocks (val_ide_set_sel_stream and its like) never strays into the
\* block of another stream.  An established stream has its ID and is valid, and
\* the range of requesters starts no later than the one asked for; it ends with
\* that one if it is on bus 0.  The range is not the one asked for otherwise: the
\* valid bit is written over the base, and the limit was packed twice, which
\* moves the bus number to the device's place.
StreamsIntact(f) ==
  LET d == pcie.fn[f].ide  IN
  \A n \in 1..Len(d.naddr) :
    LET o == StreamAt(d, n)  g == given[f][n]
        limit == ide[f][o + SEL_IDE_CAP_REG_SIZE]
        base == ide[f][o + SEL_IDE_CAP_REG_SIZE + RID_ADDR_REG_SIZE] IN
    /\ ide[f][o] = Pair(0, d.naddr[n])
    /\ IF g.id = 0 THEN \A k \in {4, 8, 12, 16} : ide[f][o + k] = Pair(0, 0)
       ELSE /\ ide[f][o + SEL_IDE_CAP_CNTRL_REG].hi = g.id
            /\ base.lo = 1 /\ base.hi <= g.rid
            /\ g.rid < 256 => limit.hi = g.rid

RootPorts == {f \in Functions : pcie.fn[f].port = "RP"}

\* The stream IDs the test draws in all.
Draws ==
  IF pcie.test = "da008" THEN Len(etable)
  ELSE 3 * Cardinality(UNION {{f} \X DOMAIN given[f] : f \in RootPorts})

\* The registers of every stream hold what StreamsIntact says was asked for them,
\* and in a test that draws no more than MAX_STREAM_ID stream IDs no two streams
\* of root ports carry the same ID at the same time (val_generate_stream_id,
\* whatever ID an earlier test got).  A test that draws more gives IDs out again.
StreamsAsAsked ==
  pcie.use = "assign" =>
    /\ \A f \in Functions : StreamsIntact(f)
    /\ Draws <= MAX_STREAM_ID =>
         \A f, g \in RootPorts : \A n \in DOMAIN given[f], k \in DOMAIN given[g] :
           (<<f, n>> # <<g, k>> /\ given[f][n].id # 0) => given[f][n].id # given[g][k].id

\* When da008 passes, every exerciser below a root port with the DA capability
\* that has a memory BAR did its DMA in both directions while it was running
\* (payload of test_da008.c), however late the devices answered.
PassMeansAssigned ==
  (pcie.use = "assign" /\ pcie.test = "da008" /\ da.result = "PASS") =>
    \A b \in Exercisers :
      LET rp == RootPort(b)
      IN  (rp # NoFn /\ val_pcie_find_da_capability(rp) # 0 /\ val_pcie_get_mmio_bar(b) # 0) => b \in da.done

TdispIsOff(rp) ==
  val_pcie_find_da_capability(rp) # 0 => 0 \notin val_pcie_read_cfg(rp, OffsetOf(rp, "CTL1"))

\* Devices that answer promptly are running when the DMA starts if their stream
\* was established (pal_device_lock ignores every failure), and all are unlocked
\* again when da008 ends, whatever its result, with TDISP off in their root ports.
TornDown ==
  (pcie.use = "assign" /\ pcie.test = "da008" /\ pcie.prompt) =>
    /\ (da.pc = "dma" /\ pal_exerciser_find_pcie_capability("DOE", Current) # 0) => tdi[Current] = "RUN"
    /\ da.pc = "done" => \A b \in Exercisers :
         RootPort(b) # NoFn =>
           /\ tdi[b] = "UNLOCKED"
           /\ TdispIsOff(RootPort(b))

=============================================================================
