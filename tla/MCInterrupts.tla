---------------------------- MODULE MCInterrupts ----------------------------
(* Machines for the interrupt controller and its ITSs, IORTs for the table   *)
(* of the I/O virtualisation, boards for the wake-up tests and tables of PEs *)
(* for their stacks. In a behaviour one of the four is used.                 *)
EXTENDS Its, Iovirt, Wakeup, PeTable

Gicd == [kind |-> "GICD", base |-> 16, id |-> 0]
Gicr(base, length) == [kind |-> "GICR", base |-> base, length |-> length]
Gicc(cpuif, rd) == [kind |-> "GICC", cpuif |-> cpuif, rd |-> rd, gich |-> 0]
ItsEntry(base, id) == [kind |-> "GICITS", base |-> base, id |-> id]

Device(entry, pages, two) == [type |-> "device", entry |-> entry, pages |-> pages, indirect |-> two]
Collection(entry) == [type |-> "collection", entry |-> entry, pages |-> {4096, 65536}, indirect |-> FALSE]
Other == [type |-> "other", entry |-> 8, pages |-> {4096}, indirect |-> FALSE]
Typer(devbits, pta, barers) == [devbits |-> devbits, cidbits |-> 7, idbits |-> 15, pta |-> pta, baser |-> barers]
Small == Typer(15, FALSE, <<Device(8, {4096, 16384, 65536}, TRUE), Other, Collection(8)>>)
Req(d, i, id) == [dev |-> d, its |-> i, id |-> id]

NoIts == [gicd_lpis |-> FALSE, gicr_lpis |-> FALSE, idbits |-> 15, nomem |-> "none", high |-> FALSE, stalls |-> FALSE,
          typer |-> <<Small>>, msix |-> {}, reqs |-> {}]
OneIts == [NoIts EXCEPT !.gicd_lpis = TRUE, !.gicr_lpis = TRUE, !.msix = {1, 2},
                        !.reqs = {Req(1, 5, 8192), Req(2, 5, 8193), Req(3, 5, 8193), Req(1, 6, 8192)}]

\* Bare metal: the firmware left sources enabled and interrupts pending.
Bare == [bm |-> TRUE, version |-> 3, pidr2 |-> 3, lines |-> 1, espi |-> FALSE, espi_range |-> 0, eppi |-> 0, vlpis |-> FALSE,
         table |-> <<Gicd, Gicr(32, 4)>>, frames |-> (32 :> 0 @@ 34 :> 1), pe |-> 1, el2 |-> TRUE, targets |-> TRUE,
         en |-> {5, 27, 40, 63}, pend |-> {27, 40}, act |-> {}, protocol |-> TRUE, its |-> NoIts,
         installs |-> {27, 40, 63, 64, 0, 70}, raises |-> {27, 40, 63}, calls |-> {40, 27}]
Wide == [Bare EXCEPT !.espi = TRUE, !.eppi = 1, !.en = {1056, 4096}, !.pend = {1056}, !.act = {40}, !.version = 4,
                     !.installs = {1056, 4096, 40}, !.raises = {1056, 4096}, !.calls = {40, 4096}]
Eppi2 == [Wide EXCEPT !.espi = FALSE, !.eppi = 2, !.el2 = FALSE, !.calls = {}]
\* The PE's redistributor is in the second structure.
Second == [Bare EXCEPT !.table = <<Gicr(32, 2), Gicd, Gicr(48, 2)>>, !.frames = (32 :> 0 @@ 48 :> 1), !.calls = {}]
V2      == [Bare EXCEPT !.version = 0, !.pidr2 = 2, !.table = <<Gicd, Gicc(64, 0)>>, !.frames = <<>>, !.calls = {}]
V2Alone == [V2 EXCEPT !.targets = FALSE, !.raises = {27}, !.installs = {27}]
Uefi    == [Bare EXCEPT !.bm = FALSE, !.table = <<Gicc(64, 32), [Gicc(66, 34) EXCEPT !.gich = 68], Gicd, [kind |-> "other"]>>,
                        !.en = {27}, !.pend = {}, !.installs = {27, 40}, !.calls = {}]
UefiRd  == [Uefi EXCEPT !.table = <<Gicd, Gicr(32, 8)>>, !.frames = (32 :> 0 @@ 36 :> 1), !.protocol = FALSE]
\* Virtual LPI frames, and the PE of affinity zero behind the other.
Vlpis   == [UefiRd EXCEPT !.vlpis = TRUE, !.frames = (32 :> 1 @@ 36 :> 0)]
NoGicd  == [Uefi EXCEPT !.table = <<Gicc(64, 32)>>]
Plain   == {Bare, Wide, Eppi2, Second, V2, V2Alone, Uefi, UefiRd, Vlpis, NoGicd}

Quiet(table, its) == [Bare EXCEPT !.table = table, !.en = {}, !.pend = {}, !.raises = {}, !.calls = {}, !.installs = {8192}, !.its = its]
WithIts(its) == Quiet(<<Gicd, Gicr(32, 4), ItsEntry(80, 5)>>, its)
High(pta) == WithIts([OneIts EXCEPT !.high = TRUE, !.typer = <<[Small EXCEPT !.pta = pta]>>, !.reqs = {Req(1, 5, 8192)}])
Msi     == {WithIts(OneIts), High(TRUE), High(FALSE), WithIts([OneIts EXCEPT !.stalls = TRUE, !.reqs = {Req(1, 5, 8192)}]),
            [Quiet(<<Gicr(32, 8), ItsEntry(80, 5), Gicd, ItsEntry(96, 6)>>,
                   [OneIts EXCEPT !.typer = <<Typer(15, TRUE, Small.baser), Small>>, !.reqs = {Req(1, 6, 8192), Req(2, 5, 8193)}])
             EXCEPT !.vlpis = TRUE, !.frames = (32 :> 0 @@ 36 :> 1)]}
Poor    == {WithIts([OneIts EXCEPT !.nomem = n, !.reqs = {Req(1, 5, 8192)}]) : n \in {"info", "cwriter", "table"}}
           \cup {WithIts([OneIts EXCEPT !.idbits = 13]), WithIts([OneIts EXCEPT !.gicr_lpis = FALSE]),
                 Quiet(<<Gicd, Gicr(32, 4)>>, OneIts), WithIts([OneIts EXCEPT !.typer = <<[Small EXCEPT !.idbits = 23]>>])}
\* Sizes: the identifiers, the entries, the pages and the levels of an ITS.
Sizes   == {WithIts([NoIts EXCEPT !.gicd_lpis = TRUE, !.gicr_lpis = TRUE, !.typer = <<Typer(bits, FALSE, <<Device(entry, pages, two), Collection(8)>>)>>]) :
             bits \in {15, 17, 21, 23, 25, 29}, entry \in {4, 8, 12, 16}, two \in BOOLEAN,
             pages \in {{4096}, {4096, 16384}, {4096, 16384, 65536}}}

NoGic == [NoGicd EXCEPT !.table = <<>>, !.installs = {}, !.raises = {}, !.en = {}]
MCPlatforms == {NoGic} \cup Plain \cup Msi \cup Poor \cup Sizes
MCIntIds == {5, 27, 40, 63, 64, 70, 0, 1056, 4096, 8192, 8193}

-----------------------------------------------------------------------------
\* A mapping of "count + 1" identifiers from "base" to "out" at node "ref".
M(base, count, out, ref) == [base |-> base, count |-> count, out |-> out, ref |-> ref]
N(type, data, maps) == [type |-> type, data |-> data, maps |-> maps, ref |-> "", ints |-> <<>>]

\* Systems by node name: one root complex behind one SMMU; two root complexes
\* behind two SMMUs of one ITS; one with two windows, one of them past the
\* SMMU; a counter group and a named component beside them.
Simple == [its |-> N("ITS_GROUP", 1, <<>>),
           smmu |-> N("SMMU_V3", 100, <<M(0, 7, 16, "its")>>),
           rc |-> N("ROOT_COMPLEX", 0, <<M(0, 3, 0, "smmu")>>)]
Twin == [its |-> N("ITS_GROUP", 1, <<>>),
         smmu |-> N("SMMU_V3", 100, <<M(0, 3, 16, "its"), M(4, 3, 32, "its")>>),
         smmu2 |-> [N("SMMU", 200, <<M(0, 7, 48, "its")>>) EXCEPT !.ints = <<1, 2>>],
         rc |-> N("ROOT_COMPLEX", 0, <<M(0, 1, 0, "smmu"), M(2, 1, 5, "smmu")>>),
         rc2 |-> N("ROOT_COMPLEX", 1, <<M(0, 3, 2, "smmu2")>>)]
Shared == [Twin EXCEPT !.smmu2.ints = <<1, 1>>]
Split == [its |-> N("ITS_GROUP", 1, <<>>),
          its2 |-> N("ITS_GROUP", 2, <<>>),
          smmu |-> N("SMMU_V3", 100, <<M(0, 1, 16, "its2")>>),
          rc |-> N("ROOT_COMPLEX", 0, <<M(0, 1, 8, "its"), M(2, 1, 1, "smmu")>>)]
Counted == [its |-> N("ITS_GROUP", 1, <<>>),
            smmu |-> N("SMMU_V3", 100, <<M(0, 7, 16, "its")>>),
            pmcg |-> [N("PMCG", 300, <<>>) EXCEPT !.ref = "smmu"],
            rc |-> N("ROOT_COMPLEX", 0, <<M(0, 3, 0, "smmu")>>),
            nc |-> N("NAMED_COMPONENT", 400, <<M(0, 0, 6, "smmu")>>)]

\* Two root complexes of one SMMU whose stream IDs meet in the identifiers
\* "out" and up.
Overlapping(out) ==
         [its |-> N("ITS_GROUP", 1, <<>>),
          smmu |-> N("SMMU_V3", 100, <<M(0, 7, 16, "its")>>),
          rc |-> N("ROOT_COMPLEX", 0, <<M(0, 3, 0, "smmu")>>),
          rc2 |-> N("ROOT_COMPLEX", 1, <<M(0, 2, out, "smmu")>>)]

\* The nodes of a system in the order o, their references as positions.
Ordered(s, o) ==
  LET pos(x) == CHOOSE i \in DOMAIN o : o[i] = x
  IN  [i \in DOMAIN o |->
         [s[o[i]] EXCEPT !.maps = [k \in DOMAIN @ |-> [@[k] EXCEPT !.ref = pos(@)]],
                         !.ref = IF @ = "" THEN 0 ELSE pos(@)]]

Orders(s) == {o \in [1..Cardinality(DOMAIN s) -> DOMAIN s] : \A i, j \in DOMAIN o : (o[i] = o[j]) => (i = j)}

Before(o, x, y) == \E i, j \in DOMAIN o : i < j /\ o[i] = x /\ o[j] = y

\* An IORT in any order; a counter group behind the node it counts for.
NoIort == [pal |-> "uefi", nodes |-> <<>>]
MCIorts ==
  {NoIort} \cup {[pal |-> "uefi", nodes |-> Ordered(s, o)] : <<s, o>> \in
     UNION {{s} \X Orders(s) : s \in {Simple, Twin, Shared, Split, Overlapping(1), Overlapping(2), Overlapping(4)}}}
  \cup {[pal |-> "uefi", nodes |-> Ordered(Counted, o)] :
          o \in {p \in Orders(Counted) : Before(p, "smmu", "pmcg")}}
  \cup {[pal |-> "baremetal", nodes |-> Ordered(Simple, <<"its", "smmu", "rc">>)],
        [pal |-> "override", nodes |-> Ordered(Simple, <<"smmu", "rc", "its">>)]}

MCRequesters == {[seg |-> s, rid |-> r] : s \in 0..1, r \in 0..4}

-----------------------------------------------------------------------------
\* Boards: two system timers of which the last is not secure; all tests twice
\* over or in another order; firmware that left the EL1 timer running.
Timer(base, gsiv, secure) == [base |-> base, gsiv |-> gsiv, secure |-> secure]

Board == [uefi |-> TRUE, gtdt |-> <<<<Timer("t0", "spi0", FALSE), Timer("t1", "spi1", FALSE)>>>>, override |-> Unfilled,
          frequency |-> 0, cntfrq |-> 100, ppi |-> "ppi", watchdog |-> TRUE, running |-> TRUE,
          psci |-> 1, original |-> TRUE, accepted |-> {0}, spurious |-> TRUE, retains |-> FALSE, refuses |-> FALSE,
          tests |-> <<"rme023", "rme024", "rme027">>]
NoBoard == [Board EXCEPT !.tests = <<>>, !.gtdt = <<>>]
MCBoards ==
  {NoBoard, Board, [Board EXCEPT !.spurious = FALSE],
   [Board EXCEPT !.uefi = FALSE, !.frequency = 50, !.tests = <<"rme023", "rme023", "rme024">>],
   [Board EXCEPT !.gtdt = <<<<Timer("t0", "spi0", FALSE)>>, <<Timer("t1", "spi1", TRUE), Timer("t2", "spi2", FALSE)>>>>, !.original = FALSE,
                 !.tests = <<"rme024", "rme023", "rme024">>],
   [Board EXCEPT !.gtdt = <<<<Timer("t0", "spi0", FALSE), Timer("t1", "spi1", TRUE)>>>>, !.psci = 0, !.cntfrq = 0, !.watchdog = FALSE],
   [Board EXCEPT !.gtdt = <<<<Timer("t0", "spi0", TRUE)>>>>, !.refuses = TRUE, !.tests = <<"rme024", "rme027">>],
   [Board EXCEPT !.override = Timer("t9", "spi9", FALSE), !.tests = <<"rme027", "rme024", "rme023">>]}

-----------------------------------------------------------------------------
\* Affinities that are dense, sparse, and those of clusters behind other structures.
PeMachine(uefi, buffer, madt) == [uefi |-> uefi, buffer |-> buffer, madt |-> madt]
NoPes == PeMachine(FALSE, 1, <<>>)
MCPeMachines ==
  {NoPes, PeMachine(FALSE, 512, <<<<0, 0, 0, 0>>, <<1, 0, 0, 0>>, <<0, 1, 0, 0>>, <<1, 1, 0, 0>>>>),
   PeMachine(TRUE, 513, <<NoGicc, <<0, 0, 1, 0>>, <<0, 2, 0, 0>>, <<3, 0, 0, 0>>, <<0, 1, 0, 1>>>>),
   PeMachine(TRUE, 514, <<<<0, 1, 0, 0>>, NoGicc, <<0, 2, 1, 0>>, <<0, 0, 0, 2>>>>)}

-----------------------------------------------------------------------------
GicIdle == gp = NoGic
IovIdle == fw = NoIort
WkIdle  == wb = NoBoard
PeIdle  == pm = NoPes

Init ==
  /\ GicInit /\ ItsInit /\ IovInit /\ (GicIdle \/ IovIdle)
  /\ WkInit /\ (WkIdle \/ (GicIdle /\ IovIdle))
  /\ PeInit /\ (PeIdle \/ (GicIdle /\ IovIdle /\ WkIdle))

OnlyGic == IovIdle /\ WkIdle /\ PeIdle /\ UNCHANGED <<iovVars, wkvars, pevars>>
OnlyIov == GicIdle /\ WkIdle /\ PeIdle /\ UNCHANGED <<gicvars, itsvars, wkvars, pevars>>
OnlyWk  == GicIdle /\ IovIdle /\ PeIdle /\ UNCHANGED <<gicvars, itsvars, iovVars, pevars>>
OnlyPe  == GicIdle /\ IovIdle /\ WkIdle /\ UNCHANGED <<gicvars, itsvars, iovVars, wkvars>>

Next ==
  \/ OnlyGic /\ (Setup \/ Installing \/ Hardware \/ Tests) /\ UNCHANGED itsvars
  \/ OnlyGic /\ (ItsDriver \/ ItsHardware)
  \/ OnlyIov /\ IovNext
  \/ OnlyWk /\ WkNext
  \/ OnlyPe /\ PeNext
Spec == Init /\ [][Next]_<<gicvars, itsvars, iovVars, wkvars, pevars>>
=============================================================================
