----------------------------- MODULE MCDevices -----------------------------
(* Systems with one, two and two overlapping-segment ECAM windows, tables  *)
(* of bit fields with compliant and non-compliant functions, protected     *)
(* registers, exercisers, and devices to assign.                           *)
EXTENDS DeviceAssign

Place(seg, bus, dev, func) == [seg |-> seg, bus |-> bus, dev |-> dev, func |-> func]
RP == Place(0, 0, 0, 0)
EP == Place(0, 1, 1, 1)
Far == Place(1, 0, 1, 0)

NoIde == [cap |-> 0, sel |-> FALSE, num |-> 0, tc |-> 0, naddr |-> <<>>, keyed |-> FALSE]
Link(id, next) == [id |-> id, next |-> next]
Function(page, type, port, rw, w1c) ==
  [page |-> page, type |-> type, sec |-> 1, sub |-> 1, port |-> port, onchip |-> FALSE, cpr |-> 64,
   cap |-> (64 :> Link("PCIECS", 96) @@ 96 :> Link("MSI", 0)),
   ecap |-> (256 :> Link("AER", 512) @@ 512 :> Link("DVSEC", 768) @@ 768 :> Link("IDE", 0)),
   dvsec |-> (512 :> "RMEDA"), rw |-> rw, w1c |-> w1c, exerciser |-> FALSE, bars |-> <<>>, ide |-> NoIde]

Rw == (4 :> {1, 2, 8} @@ 28 :> {} @@ 72 :> (0..3) \cup (5..7) @@ 524 :> {0})
W1c == (4 :> {27} @@ 28 :> {27} @@ 72 :> {16, 19} @@ 524 :> {})
Reset == (4 :> {1, 20} @@ 28 :> {} @@ 72 :> {6} @@ 524 :> {})

Window(seg, base, start, end) == [seg |-> seg, base |-> base, start |-> start, end |-> end]
Two == <<Window(0, 16, 0, 1), Window(1, 32, 0, 0)>>
Halves == <<Window(0, 16, 0, 0), Window(0, 64, 1, 1), Window(1, 32, 0, 0)>>

FunctionsAt(epPage, rw) ==
  (RP :> Function(16, 1, "RP", Rw, W1c) @@ EP :> Function(epPage, 0, "EP", rw, W1c) @@ Far :> Function(34, 0, "EP", Rw, W1c))
Open == [read |-> TRUE, write |-> TRUE]

Machine(ecam, fn, regs, entries, prot, use) ==
  [ecam |-> ecam, fn |-> fn, list |-> <<RP, EP>>, entries |-> entries, prot |-> prot, use |-> use,
   test |-> "", prompt |-> FALSE, detects |-> FALSE,
   reg |-> (RP :> Reset @@ EP :> regs @@ Far :> Reset)]

Entry(reg, id, offset, ports, start, end, value, attr, warn) ==
  [reg |-> reg, id |-> id, offset |-> offset, ports |-> ports, start |-> start, end |-> end,
   value |-> value, attr |-> attr, warn1 |-> warn, warn2 |-> warn]
Both == {"RP", "EP"}
Table == <<Entry("HEADER", "", 6, Both, 4, 4, {0}, "READ_ONLY", FALSE),
           Entry("PCIE_CAP", "PCIECS", 8, Both, 5, 7, {1}, "READ_WRITE", FALSE),
           Entry("PCIE_CAP", "PCIECS", 10, {"EP"}, 6, 7, {}, "RSVDZ_RO", FALSE),
           Entry("HEADER", "", 4, {"EP"}, 3, 4, {}, "RSVDP_RO", FALSE),
           Entry("PCIE_ECAP", "DVSEC", 12, {"RP"}, 0, 0, {}, "STICKY_RW", FALSE)>>
Warned == <<Entry("HEADER", "", 6, Both, 4, 4, {}, "HW_INIT", TRUE),
            Entry("PCIE_ECAP", "PASID", 4, {"EP"}, 0, 0, {}, "READ_ONLY", FALSE),
            Entry("PCIE_ECAP", "AER", 268, {"EP"}, 0, 0, {}, "READ_ONLY", FALSE)>>

\* A read-only bit that follows writes, a writable field with a stuck bit,
\* a wrong value.
Follows == [Rw EXCEPT ![4] = @ \cup {20}]
Stuck == [Rw EXCEPT ![72] = @ \ {5}]

Fields(rw, regs, entries) == Machine(Two, FunctionsAt(21 + 2, rw), regs, entries, Open, "fields")
Off == [Reset EXCEPT ![72] = {}]
Protected(r, w) == Machine(Two, FunctionsAt(16 + 7, Rw), Reset, <<>>, [read |-> r, write |-> w], "protection")

\* Two root ports with two (or four) and one streams, an exerciser below each (or both
\* below the first), each with its own flaw.
RP2 == Place(0, 0, 1, 0)
X1 == Place(0, 1, 0, 0)
X2 == Place(0, 2, 0, 0)
Ide(naddr, tc, keyed) ==
  [cap |-> 768, sel |-> TRUE, num |-> Len(naddr), tc |-> tc, naddr |-> naddr, keyed |-> keyed]
Card(page, flaws) ==
  [Function(page, 0, "EP", (4 :> {1, 2}), (4 :> {})) EXCEPT
     !.exerciser = TRUE, !.bars = <<[io |-> FALSE, base |-> IF "no bar" \in flaws THEN 0 ELSE 7]>>,
     !.ecap = (256 :> Link("AER", IF "no mailbox" \in flaws THEN 640 ELSE 512) @@ 512 :> Link("DOE", 640)
               @@ 640 :> Link(IF "no pasid" \in flaws THEN "PTM" ELSE "PASID", 768)
               @@ 768 :> Link("IDE", IF "no dvsec" \in flaws THEN 0 ELSE 896) @@ 896 :> Link("DVSEC", 0)),
     !.dvsec = (896 :> "exerciser"), !.ide = Ide(<<1>>, 0, TRUE)]
Port(page, sec, sub, naddr, flaws) ==
  [Function(page, 1, "RP", (4 :> {1, 2} @@ 524 :> {0}), (4 :> {} @@ 524 :> {})) EXCEPT
     !.sec = sec, !.sub = sub, !.dvsec = (512 :> IF "no da" \in flaws THEN "other" ELSE "RMEDA"),
     !.ide = [Ide(naddr, 1, "no keys" \notin flaws) EXCEPT !.sel = "no streams" \notin flaws]]
Assign(use, test, flaws, prompt, detects) ==
  LET shared == "shared" \in flaws  far == IF shared THEN 3 ELSE 2 IN
  [ecam |-> <<Window(0, 16, 0, 3)>>, entries |-> <<>>, prot |-> Open, use |-> use,
   fn |-> (RP :> Port(16, 1, IF shared THEN 2 ELSE 1, IF "many" \in flaws THEN <<0, 2, 0, 0>> ELSE <<0, 2>>, {}) @@ RP2 :> Port(18, far, far, <<1>>, flaws)
           @@ X1 :> Card(20, {}) @@ X2 :> Card(24, flaws)),
   list |-> <<RP, RP2, X1, X2>>, test |-> test, prompt |-> prompt, detects |-> detects,
   reg |-> (RP :> (4 :> {} @@ 524 :> {}) @@ RP2 :> (4 :> {} @@ 524 :> {}) @@ X1 :> (4 :> {}) @@ X2 :> (4 :> {}))]

MCMachines ==
  {Machine(Two, FunctionsAt(16 + 7, Rw), Reset, <<>>, Open, "calls"),
    Machine(Halves, FunctionsAt(64 + 7, Rw), Reset, <<>>, Open, "calls"),
    Fields(Rw, Reset, Table), Fields(Rw, Off, Table), Fields(Follows, Reset, Table),
    Fields(Stuck, Reset, Table), Fields(Rw, Reset, Warned),
    Protected(TRUE, TRUE), Protected(TRUE, FALSE), Protected(FALSE, TRUE), Protected(FALSE, FALSE),
    Assign("exerciser", "", {"no dvsec", "no pasid"}, TRUE, TRUE), Assign("assign", "da008", {}, TRUE, TRUE),
    Assign("assign", "da008", {}, FALSE, TRUE), Assign("assign", "da008", {"shared"}, TRUE, TRUE),
    Assign("assign", "da008", {"no keys"}, TRUE, TRUE), Assign("assign", "da008", {"no bar"}, FALSE, TRUE),
    Assign("assign", "da008", {"no mailbox"}, TRUE, TRUE), Assign("assign", "da008", {"no da"}, TRUE, TRUE),
    Assign("assign", "da012", {}, TRUE, TRUE), Assign("assign", "da012", {"no da"}, TRUE, FALSE),
    Assign("assign", "da012", {"no keys"}, TRUE, TRUE), Assign("assign", "da012", {"no streams"}, TRUE, TRUE),
    Assign("assign", "da012", {"many"}, TRUE, TRUE)}

\* No calls.
NoUse == Machine(Two, FunctionsAt(16 + 7, Rw), Reset, <<>>, Open, "none")
=============================================================================
