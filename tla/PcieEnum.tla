------------------------------ MODULE PcieEnum ------------------------------
(***************************************************************************)
(* PCIe enumeration on a bare-metal platform and the device table built    *)
(* from it: pal_pcie_enumeration.c walks each host bridge's hierarchy,     *)
(* numbers the buses, places the BARs and opens the bridges' windows;      *)
(* acs_pcie.c then scans the ECAM ranges, lists the functions it finds and *)
(* derives root ports and downstream functions from the bus numbers.       *)
(*                                                                         *)
(* The recursion of pal_pcie_enumerate_device is an explicit stack, so     *)
(* that every configuration access is routed by the bus registers as they  *)
(* are at that moment.  A function is named by its place in plat.fn, which *)
(* is also the order of device and function numbers on its bus.  Addresses *)
(* are counted in a unit that divides BAR_INCREMENT; a BAR register keeps  *)
(* only the address bits above its size.                                   *)
(***************************************************************************)
EXTENDS Integers, Sequences, SequencesExt, FiniteSetsExt

CONSTANTS Platforms,     \* the machines considered (see PlatformType)
          BAR_INCREMENT  \* granule of a bridge window

Kinds == {"np", "p", "p64"}
Type0 == {"EP", "RCiEP", "PCI"}
Type1 == {"RP", "SW"}

\* blocks: one per ECAM, each with its host bridges' first bus and the start
\* of the areas for BARs.  fn[f].on = <<block, host bridge, bridge>>: the bus f
\* sits on, bridge 0 for the root bus.
PlatformType ==
  [blocks : Seq([seg : Nat, start : Nat, end : Nat,
                 hbs : Seq([start : Nat, area : [Kinds -> Nat], rp : [{"p", "p64"} -> Nat]])]),
   fn : Seq([on : Nat \X Nat \X Nat, kind : Type0 \cup Type1 \cup {"HB"},
             bars : Seq([kind : Kinds, size : Nat])])]

ASSUME PcieAssumption ==
  /\ BAR_INCREMENT \in Nat \ {0}
  /\ \A pl \in Platforms : DOMAIN pl = {"blocks", "fn"}

VARIABLES plat,    \* the machine
          pc,      \* pal_pcie_enumerate, the walk, the table
          blk, hb, \* pcie_index and count
          stack,   \* frames of pal_pcie_enumerate_device, innermost last
          reg,     \* bus numbers in the Type 1 headers
          win,     \* memory windows of the Type 1 headers
          bar,     \* BAR registers
          alloc,   \* g_*_start, g_*_max, g_*_size and g_*_bus of each kind
          rpnext,  \* g_rp_bar32_value and g_rp_bar64_value
          table,   \* g_pcie_bdf_table
          rp,      \* the table's rp_bdf column
          cut      \* history: the areas in which a register dropped address bits that matter

vars == <<plat, pc, blk, hb, stack, reg, win, bar, alloc, rpnext, table, rp, cut>>

None == -1
Fns == DOMAIN plat.fn
Block(f) == plat.blocks[plat.fn[f].on[1]]
Bridge(f) == plat.fn[f].on[3]
OnBus(on) == {f \in Fns : plat.fn[f].on = on}

\* The bridges between f and its host bridge.
Above(f) ==
  LET above[g \in Fns] == IF Bridge(g) = 0 THEN {} ELSE {Bridge(g)} \cup above[Bridge(g)]
  IN  above[f]

-----------------------------------------------------------------------------
(* Configuration accesses.                                                 *)

\* The buses whose functions answer for bus n: the root bus with that number,
\* and the bus below a bridge whose secondary number it is, provided the
\* bridges above forward it.  A number of 0 is a bridge not yet programmed.
Forwards(b, n) ==
  /\ n # 0
  /\ reg[b].sec = n /\ n <= reg[b].sub
  /\ \A a \in Above(b) : reg[a].sec < n /\ n <= reg[a].sub

\* The functions that answer on bus n of segment seg; an access outside every
\* ECAM reaches none.
Responding(seg, n) ==
  {f \in Fns : /\ Block(f).seg = seg /\ n \in Block(f).start .. Block(f).end
               /\ IF Bridge(f) = 0 THEN Block(f).hbs[plat.fn[f].on[2]].start = n
                                   ELSE Forwards(Bridge(f), n)}

-----------------------------------------------------------------------------
(* BARs and windows.                                                       *)

Floor(a) == a - (a % BAR_INCREMENT)

\* Mutant: a later BAR of the same function is placed after the new size only.
NextStartLocal(a, bus, local, size) ==
  IF local = 0 /\ a.bus = bus THEN a.start + Max({size, a.size})
  ELSE IF local # 0 THEN a.start + 1
  ELSE a.start

\* Where the next BAR goes: past the previous BAR of the bus or function, or by
\* the BAR's own size when that is larger; the first BAR of a new bus goes to
\* the start itself.
NextStart(a, bus, local, size) ==
  IF local = 0 /\ a.bus = bus THEN a.start + Max({size, a.size})
  ELSE IF local # 0 /\ a.size < size THEN a.start + size
  ELSE a.start + local

\* The BARs of one kind a function implements, in register order; a BAR of size
\* 0 is not implemented.
Implemented(bars, k) == {i \in DOMAIN bars : bars[i].kind = k /\ bars[i].size # 0}
Before(bars, i) == {j \in Implemented(bars, bars[i].kind) : j < i}

\* The start after each BAR of the function has been placed.
Starts(bus, bars) ==
  LET start[i \in {j \in DOMAIN bars : bars[j].size # 0}] ==
        LET prev == Before(bars, i)
            j == Max(prev)
            a == alloc[bars[i].kind]
        IN  IF prev = {} THEN NextStart(a, bus, 0, bars[i].size)
            ELSE NextStart([start |-> start[j], size |-> bars[j].size, bus |-> bus],
                           bus, bars[j].size, bars[i].size)
  IN  start

\* What a BAR register holds after address a is written to it.
Register(a, size) == a - (a % size)

pal_pcie_program_bar_reg(bus, bars) ==
  LET start == Starts(bus, bars)
      LastOf(k) == Max(Implemented(bars, k))
      After(k) == IF Implemented(bars, k) = {} THEN alloc[k]
                  ELSE [start |-> start[LastOf(k)], size |-> bars[LastOf(k)].size, bus |-> bus]
  IN  [al |-> [k \in Kinds |-> [start |-> After(k).start, max |-> After(k).start,
                                size |-> After(k).size, bus |-> After(k).bus]],
       at |-> [i \in DOMAIN bars |-> IF bars[i].size = 0 THEN None
                                     ELSE Register(start[i], bars[i].size)],
       cut |-> {<<"end", bars[i].kind>> :
                  i \in {j \in DOMAIN start : /\ bars[j].size > BAR_INCREMENT
                                             /\ start[j] % bars[j].size # 0}}]

\* BARs of a root port or switch port, the 32-bit ones two sizes apart.
pal_pcie_rp_program_bar(bars) ==
  LET stride(i) == IF bars[i].kind = "p64" THEN bars[i].size ELSE 2 * bars[i].size
      value(k, S) == rpnext[k] + MapThenSumSet(stride, S)
  IN  [next |-> [k \in DOMAIN rpnext |-> value(k, Implemented(bars, k))],
       at |-> [i \in DOMAIN bars |->
                 IF bars[i].size = 0 THEN None
                 ELSE Register(value(bars[i].kind, Before(bars, i)), bars[i].size)],
       cut |-> {<<"port", bars[i].kind>> :
                  i \in {j \in DOMAIN bars : /\ bars[j].size # 0
                                            /\ value(bars[j].kind, Before(bars, j)) % bars[j].size # 0}}]

\* Mutant: the start is not moved to the next granule.
get_resource_base_32_stay(a, base, w) ==
  IF base = a.start /\ a.size = 0 THEN [start |-> a.start, win |-> w]
  ELSE [start |-> a.start,
        win |-> [base |-> w.base,
                 limit |-> Floor(IF a.max = a.start THEN a.max - BAR_INCREMENT ELSE a.max)]]

\* Close a bridge's 32-bit window over what was placed below it, and move the
\* start to the next granule.
get_resource_base_32(a, base, w) ==
  LET start == IF a.start % BAR_INCREMENT # 0 THEN Floor(a.start) + BAR_INCREMENT
                                              ELSE a.start
  IN  IF base = a.start /\ a.size = 0
      THEN [start |-> a.start, win |-> w]
      ELSE [start |-> start,
            win |-> [base |-> w.base,
                     limit |-> Floor(IF a.max = start THEN a.max - BAR_INCREMENT
                                                      ELSE a.max)]]

\* The same for the 64-bit area, which shares the prefetchable window and
\* always moves on by two granules.
get_resource_base_64(a, base, w) ==
  IF base = a.start /\ a.size = 0
  THEN [start |-> a.start, win |-> w]
  ELSE [start |-> Floor(Floor(a.start) + BAR_INCREMENT) + BAR_INCREMENT,
        win |-> [base |-> Floor(base), limit |-> Floor(a.max)]]

-----------------------------------------------------------------------------
(* The walk.                                                               *)

Init ==
  /\ plat \in Platforms
  /\ pc = "enumerate" /\ blk = 1 /\ hb = 1 /\ stack = <<>>
  /\ reg = [f \in Fns |-> [pri |-> 0, sec |-> 0, sub |-> 0]]
  /\ win = [f \in Fns |-> [np |-> [base |-> 0, limit |-> 0], p |-> [base |-> 0, limit |-> 0]]]
  /\ bar = [f \in Fns |-> [i \in DOMAIN plat.fn[f].bars |-> None]]
  /\ alloc = [k \in Kinds |-> [start |-> 0, max |-> 0, size |-> 0, bus |-> 0]]
  /\ rpnext = [k \in {"p", "p64"} |-> 0]
  /\ table = <<>> /\ rp = <<>> /\ cut = {}

\* A call of pal_pcie_enumerate_device; walked is the bus the caller means.
Call(bus, sec, al, walked) ==
  [bus |-> bus, sec |-> sec, sub |-> bus, at |-> 0,
   base |-> [k \in Kinds |-> al[k].start], walked |-> walked]

\* pal_pcie_enumerate: the next host bridge of the block.
StartHierarchy ==
  /\ pc = "enumerate" /\ blk <= Len(plat.blocks) /\ hb <= Len(plat.blocks[blk].hbs)
  /\ LET h == plat.blocks[blk].hbs[hb]
         al == [k \in Kinds |-> [alloc[k] EXCEPT !.start = h.area[k]]]
     IN  /\ alloc' = al
         /\ rpnext' = h.rp
         /\ stack' = <<Call(h.start, h.start + 1, al, <<blk, hb, 0>>)>>
  /\ pc' = "walk"
  /\ UNCHANGED <<plat, blk, hb, reg, win, bar, table, rp, cut>>

\* The last hierarchy of the block is done.
NextBlock ==
  /\ pc = "enumerate" /\ blk <= Len(plat.blocks) /\ hb > Len(plat.blocks[blk].hbs)
  /\ blk' = blk + 1 /\ hb' = 1
  /\ UNCHANGED <<plat, pc, stack, reg, win, bar, alloc, rpnext, table, rp, cut>>

Top == Last(stack)
Caller == stack[Len(stack) - 1]

\* The functions the loops over dev and func have still to reach.
Ahead == {f \in Responding(plat.blocks[blk].seg, Top.bus) : f > Top.at}

\* The loops stand at function f; a bus past the block returns before them.
At(f) ==
  /\ pc = "walk" /\ Top.bus # plat.blocks[blk].end + 1
  /\ Ahead # {} /\ f = Min(Ahead)

\* A host bridge is passed over.
SkipHostbridge(f) ==
  /\ At(f) /\ plat.fn[f].kind = "HB"
  /\ stack' = [stack EXCEPT ![Len(stack)].at = f]
  /\ UNCHANGED <<plat, pc, blk, hb, reg, win, bar, alloc, rpnext, table, rp, cut>>

\* A Type 1 header: open its bus range and its windows' bases, and recurse.
EnterBridge(f) ==
  /\ At(f) /\ plat.fn[f].kind \in Type1
  /\ reg' = [reg EXCEPT ![f] = [pri |-> Top.bus, sec |-> Top.sec, sub |-> 255]]
  /\ win' = [win EXCEPT ![f] =
       [k \in {"np", "p"} |-> [base |-> Floor(alloc[k].start), limit |-> 0]]]
  /\ stack' = Append([stack EXCEPT ![Len(stack)].at = f],
                     Call(Top.sec, Top.sec + 1, alloc,
                          <<plat.fn[f].on[1], plat.fn[f].on[2], f>>))
  /\ UNCHANGED <<plat, pc, blk, hb, bar, alloc, rpnext, table, rp, cut>>

\* A Type 0 header: program its BARs.
ProgramEndpoint(f) ==
  /\ At(f) /\ plat.fn[f].kind \in Type0
  /\ LET r == pal_pcie_program_bar_reg(Top.bus, plat.fn[f].bars)
     IN  alloc' = r.al /\ bar' = [bar EXCEPT ![f] = r.at] /\ cut' = cut \cup r.cut
  /\ stack' = [stack EXCEPT ![Len(stack)] = [@ EXCEPT !.at = f, !.sub = Top.sec - 1]]
  /\ UNCHANGED <<plat, pc, blk, hb, reg, win, rpnext, table, rp>>

\* The loops are over, or the bus is past the block.
Over == pc = "walk" /\ (Top.bus = plat.blocks[blk].end + 1 \/ Ahead = {})

\* Mutant: the next secondary number is not taken past the bridge's range.
LeaveBridgeReuse ==
  /\ Over /\ Len(stack) > 1
  /\ LET f == Caller.at
         np == get_resource_base_32(alloc["np"], Caller.base["np"], win[f]["np"])
         p  == get_resource_base_32(alloc["p"], Caller.base["p"], win[f]["p"])
         p64 == get_resource_base_64(alloc["p64"], Caller.base["p64"], p.win)
         start == [np |-> np.start, p |-> p.start, p64 |-> p64.start]
         r == pal_pcie_rp_program_bar(plat.fn[f].bars)
     IN  /\ reg' = [reg EXCEPT ![f].sub = Top.sub]
         /\ win' = [win EXCEPT ![f] = [np |-> np.win, p |-> p64.win]]
         /\ alloc' = [k \in Kinds |-> [alloc[k] EXCEPT !.start = start[k], !.size = 0]]
         /\ bar' = [bar EXCEPT ![f] = r.at]
         /\ rpnext' = r.next /\ cut' = cut \cup r.cut
         /\ stack' = Append(Front(Front(stack)),
                            [Caller EXCEPT !.sub = Top.sub, !.sec = Caller.sec + 1,
                                           !.base = start])
  /\ UNCHANGED <<plat, pc, blk, hb, table, rp>>

\* Back in the caller's loop: close the bridge over the buses and addresses
\* used below it, program its own BARs, and go on after them.
LeaveBridge ==
  /\ Over /\ Len(stack) > 1
  /\ LET f == Caller.at
         np == get_resource_base_32(alloc["np"], Caller.base["np"], win[f]["np"])
         p  == get_resource_base_32(alloc["p"], Caller.base["p"], win[f]["p"])
         p64 == get_resource_base_64(alloc["p64"], Caller.base["p64"], p.win)
         start == [np |-> np.start, p |-> p.start, p64 |-> p64.start]
         r == pal_pcie_rp_program_bar(plat.fn[f].bars)
     IN  /\ reg' = [reg EXCEPT ![f].sub = Top.sub]
         /\ win' = [win EXCEPT ![f] = [np |-> np.win, p |-> p64.win]]
         /\ alloc' = [k \in Kinds |-> [alloc[k] EXCEPT !.start = start[k], !.size = 0]]
         /\ bar' = [bar EXCEPT ![f] = r.at]
         /\ rpnext' = r.next /\ cut' = cut \cup r.cut
         /\ stack' = Append(Front(Front(stack)),
                            [Caller EXCEPT !.sub = Top.sub, !.sec = Top.sub + 1,
                                           !.base = start])
  /\ UNCHANGED <<plat, pc, blk, hb, table, rp>>

\* The hierarchy is done; pal_clear_pri_bus runs over the whole block.
pal_clear_pri_bus ==
  LET b == plat.blocks[blk]
      seen == UNION {Responding(b.seg, n) : n \in 0 .. b.end}
  IN  [f \in Fns |-> IF f \in seen /\ plat.fn[f].kind \in Type1
                     THEN [reg[f] EXCEPT !.pri = 0] ELSE reg[f]]

FinishHierarchy ==
  /\ Over /\ Len(stack) = 1
  /\ reg' = pal_clear_pri_bus
  /\ stack' = <<>> /\ hb' = hb + 1 /\ pc' = "enumerate"
  /\ UNCHANGED <<plat, blk, win, bar, alloc, rpnext, table, rp, cut>>

-----------------------------------------------------------------------------
(* The device table.                                                       *)

Bdf(seg, bus, f) == [seg |-> seg, bus |-> bus, fn |-> f]

\* The functions of one bus in the order of the loops over dev and func.
ScanBus(seg, bus) ==
  LET fs == SetToSortSeq(Responding(seg, bus), <)
  IN  [j \in DOMAIN fs |-> Bdf(seg, bus, fs[j])]

\* All the buses of an ECAM.
ScanEcam(b) ==
  FlattenSeq([i \in 1 .. b.end - b.start + 1 |-> ScanBus(b.seg, b.start + i - 1)])

\* Host bridges and functions without a PCI Express capability are left out.
Wanted(e) == plat.fn[e.fn].kind \notin {"HB", "PCI"}

Covers(e, bus) == reg[e.fn].sec <= bus /\ bus <= reg[e.fn].sub

\* The scan of val_pcie_create_device_bdf_table.
val_pcie_create_device_bdf_table ==
  /\ pc = "enumerate" /\ blk > Len(plat.blocks)
  /\ table' = SelectSeq(FlattenSeq([i \in DOMAIN plat.blocks |-> ScanEcam(plat.blocks[i])]),
                        Wanted)
  /\ pc' = "table"
  /\ UNCHANGED <<plat, blk, hb, stack, reg, win, bar, alloc, rpnext, rp, cut>>

\* Mutant: the segment of the port is not compared.
val_pcie_get_rootport_any(e) ==
  LET ports == {i \in DOMAIN table : plat.fn[table[i].fn].kind = "RP" /\ Covers(table[i], e.bus)}
  IN  IF plat.fn[e.fn].kind = "RP" THEN e.fn
      ELSE IF plat.fn[e.fn].kind = "RCiEP" \/ ports = {} THEN None
      ELSE table[Min(ports)].fn

\* The first root port of the table whose bus range holds e's bus; None is both
\* the 0xffffffff of an integrated endpoint and the 0 of a failed search.
val_pcie_get_rootport(e) ==
  LET ports == {i \in DOMAIN table : /\ plat.fn[table[i].fn].kind = "RP"
                                     /\ Covers(table[i], e.bus) /\ table[i].seg = e.seg}
  IN  IF plat.fn[e.fn].kind = "RP" THEN e.fn
      ELSE IF plat.fn[e.fn].kind = "RCiEP" \/ ports = {} THEN None
      ELSE table[Min(ports)].fn

\* Its last step, val_pcie_populate_device_rootport.
val_pcie_populate_device_rootport ==
  /\ pc = "table"
  /\ rp' = [i \in DOMAIN table |-> val_pcie_get_rootport(table[i])]
  /\ pc' = "done"
  /\ UNCHANGED <<plat, blk, hb, stack, reg, win, bar, alloc, rpnext, table, cut>>

\* The first Type 0 function in the bridge's bus range, else the first Type 1.
val_pcie_get_downstream_function(e) ==
  LET below == {i \in DOMAIN table : Covers(e, table[i].bus) /\ table[i].seg = e.seg}
      ends == {i \in below : plat.fn[table[i].fn].kind \in Type0}
  IN  IF ends # {} THEN table[Min(ends)].fn
      ELSE IF below # {} THEN table[Min(below)].fn ELSE None

\* The first root port whose secondary bus is e's; the segment is not looked at.
val_pcie_parent_is_rootport(e) ==
  LET ports == {i \in DOMAIN table : /\ plat.fn[table[i].fn].kind = "RP"
                                     /\ reg[table[i].fn].sec = e.bus
                                     /\ e.bus <= reg[table[i].fn].sub}
  IN  IF ports # {} THEN table[Min(ports)].fn ELSE None

\* The tests run on the finished table.
Done == pc = "done" /\ UNCHANGED vars

Next ==
  \/ StartHierarchy \/ NextBlock
  \/ \E f \in Fns : SkipHostbridge(f) \/ EnterBridge(f) \/ ProgramEndpoint(f)
  \/ LeaveBridge \/ FinishHierarchy
  \/ val_pcie_create_device_bdf_table \/ val_pcie_populate_device_rootport
  \/ Done

Spec == Init /\ [][Next]_vars

-----------------------------------------------------------------------------
(* Properties.                                                             *)

\* pal_pcie_enumerate_device reads the configuration space of the bus it means
\* to walk, at every depth of the recursion and although the bus registers
\* change under it: the numbers in the frames reach exactly the functions on
\* the buses the frames stand for.
RoutedAsWalked ==
  pc = "walk" =>
    \A i \in DOMAIN stack :
      stack[i].bus <= plat.blocks[blk].end =>
        Responding(plat.blocks[blk].seg, stack[i].bus) = OnBus(stack[i].walked)

Bridges == {b \in Fns : plat.fn[b].kind \in Type1}

\* The bus ranges pal_pcie_enumerate_device leaves in the bridges nest as the
\* bridges do, and those of bridges side by side are disjoint.
BusRangesNest ==
  pc = "done" =>
    \A b, c \in Bridges :
      b # c /\ Block(b) = Block(c) =>
        /\ reg[b].sec <= reg[b].sub
        /\ b \in Above(c) => reg[b].sec < reg[c].sec /\ reg[c].sub <= reg[b].sub
        /\ b \notin Above(c) /\ c \notin Above(b) =>
             reg[b].sub < reg[c].sec \/ reg[c].sub < reg[b].sec

\* While pal_pcie_enumerate_device walks, configuration requests reach the bus
\* they are meant for (RoutedAsWalked); the numbers it leaves behind route them
\* on, without two bridges claiming a bus (BusRangesNest).
BusesRouted == RoutedAsWalked /\ BusRangesNest

\* The BARs with their area, kind, address and size.
Placed ==
  UNION {{[fn |-> f, i |-> i, kind |-> plat.fn[f].bars[i].kind,
           area |-> <<IF plat.fn[f].kind \in Type0 THEN "end" ELSE "port", plat.fn[f].bars[i].kind>>,
           at |-> bar[f][i], size |-> plat.fn[f].bars[i].size] :
             i \in {j \in DOMAIN bar[f] : bar[f][j] # None}} : f \in Fns}

\* The BARs of kind k below bridge b.
PlacedBelow(b, k) ==
  {x \in Placed : x.kind = k /\ plat.fn[x.fn].kind \in Type0 /\ b \in Above(x.fn)}

\* The last BAR below every bridge lets get_resource_base_32 or _64 see where the
\* area ends: they are told where that BAR starts, not how large it is.  A 32-bit
\* one must start inside a granule, a 64-bit one may fill one.
Closed(k) ==
  \A b \in Bridges : \A x \in PlacedBelow(b, k) :
    (\A y \in PlacedBelow(b, k) : y.at <= x.at) =>
      IF k = "p64" THEN x.size <= BAR_INCREMENT ELSE x.at % BAR_INCREMENT # 0

\* The areas of which the code keeps account: no register dropped bits of an
\* address that matter (a BAR larger than a granule put at an address that is not
\* a multiple of its size, or any such BAR of a port), and below the bridges the
\* area is Closed.
Regular(area) == area \notin cut /\ (area[1] = "end" => Closed(area[2]))

\* No two BARs of Regular areas decode the same address, although the starts kept
\* by pal_pcie_program_bar_reg are not aligned and the registers drop their low
\* bits.
BarsDisjoint ==
  pc # "walk" =>
    \A x, y \in Placed :
      <<x.fn, x.i>> # <<y.fn, y.i>> /\ Regular(x.area) /\ Regular(y.area) =>
        x.at + x.size <= y.at \/ y.at + y.size <= x.at

\* The kinds of BAR that share a bridge's window w.
KindsOf(w) == IF w = "np" THEN {"np"} ELSE {"p", "p64"}

\* A bridge's window lets exactly the BARs below it through: what
\* get_resource_base_32 and get_resource_base_64 write agrees with where
\* pal_pcie_program_bar_reg has put the BARs.  The prefetchable window holds one
\* range, so it is right when only one of the two kinds is in use.
WindowsRoute ==
  pc = "done" =>
    \A w \in {"np", "p"} :
      LET ends == {x \in Placed : x.kind \in KindsOf(w) /\ plat.fn[x.fn].kind \in Type0}
      IN  (\A x, y \in ends : x.kind = y.kind /\ Regular(x.area)) =>
            \A b \in Bridges : \A x \in ends :
              LET base == win[b][w].base
                  end == win[b][w].limit + BAR_INCREMENT
              IN  IF b \in Above(x.fn) THEN base <= x.at /\ x.at + x.size <= end
                                       ELSE end <= x.at \/ x.at + x.size <= base

\* pal_pcie_program_bar_reg and get_resource_base_32 and _64 leave a machine in
\* which a memory request meets one BAR at most (BarsDisjoint) and gets to it
\* through every bridge above it, and through no other (WindowsRoute), in the
\* areas that are Regular: BARs larger than the 1 MB granule must come at a
\* multiple of their size and be followed by smaller ones, and 32-bit areas must
\* not end with a BAR on a granule's first address.  Nothing in the code sees to
\* either, and the machines include ones whose large BARs break it.  In all of
\* them the bridges of a bus come before its endpoints: a bridge after an endpoint
\* would start on the endpoint's last BAR.
BarsPlaced == BarsDisjoint /\ WindowsRoute

\* When the walk has left a bridge, the 32-bit area goes on after every BAR
\* placed so far: "Update the 32 bit NP-BAR start address for the next
\* iteration" and its prefetchable twin in get_resource_base_32.
NextIterationFree ==
  pc = "walk" /\ Top.at # 0 /\ plat.fn[Top.at].kind \in Type1 =>
    \A x \in Placed :
      x.kind # "p64" /\ plat.fn[x.fn].kind \in Type0 /\ Block(x.fn) = plat.blocks[blk]
        /\ plat.fn[x.fn].on[2] = hb => x.at + x.size <= alloc[x.kind].start

\* val_pcie_create_device_bdf_table lists every PCIe function of the machine
\* once, under the bus number of the bridge it sits below.
TableComplete ==
  pc = "done" =>
    /\ \A f \in Fns :
         plat.fn[f].kind \notin {"HB", "PCI"} =>
           Cardinality({i \in DOMAIN table : table[i].fn = f}) = 1
    /\ \A i \in DOMAIN table :
         Bridge(table[i].fn) # 0 => table[i].bus = reg[Bridge(table[i].fn)].sec

\* The table's queries name the physical hierarchy: the rp_bdf column holds the
\* root port above the function; val_pcie_get_downstream_function of a port
\* finds a function below it, an endpoint if there is one;
\* val_pcie_parent_is_rootport finds exactly the root ports directly above.
\* The last does not compare segments, so it is right only when no other
\* segment uses the bus number.
HierarchyQueries ==
  pc = "done" =>
    \A i \in DOMAIN table :
      LET e == table[i]
          d == val_pcie_get_downstream_function(e)
          below == {f \in Fns : e.fn \in Above(f) /\ plat.fn[f].kind # "PCI"}
          ports == {b \in Above(e.fn) \cup {e.fn} : plat.fn[b].kind = "RP"}
          alone == \A b \in Bridges : reg[b].sec = e.bus => Block(b).seg = e.seg
          up == Bridge(e.fn)
      IN  /\ plat.fn[e.fn].kind # "RCiEP" /\ ports # {} => rp[i] \in ports
          /\ e.fn \in Bridges =>
               /\ d = None <=> below = {}
               /\ d # None => d \in below
               /\ (\E f \in below : plat.fn[f].kind \in Type0) => plat.fn[d].kind \in Type0
          /\ alone =>
               val_pcie_parent_is_rootport(e) =
                 IF up # 0 /\ plat.fn[up].kind = "RP" THEN up ELSE None

\* The device table of val_pcie_create_device_bdf_table has every function
\* (TableComplete), and its queries name the hierarchy they are in
\* (HierarchyQueries).
TableRight == TableComplete /\ HierarchyQueries
=============================================================================
