-------------------------------- MODULE MCEl3 --------------------------------
(* Instances of what runs at EL3, or for it: the access protocol (El3Access), *)
(* the tables EL3 edits (El3Tables), the realm SMMU driver (RealmSmmu) and    *)
(* its allocator (Memory), with the tables and the allocator of EL2 (Pgt,     *)
(* Memory). In a behaviour one of them is used. EL3 has 64 pages in three     *)
(* levels of four entries: page 0 is the root table, page 1 the table of      *)
(* pages 0 to 15, page 2 a table of pages; the free memory starts at page 4.  *)
(* EL2's tables have three levels of two entries.                             *)
EXTENDS MCEl3Access, El3Tables, Pgt, RealmSmmu, Memory, TLC

Gpt(l0, l1) == [l0 |-> l0, l1 |-> l1]
\* Granules and a contiguous range below page 32, one block above.
Fine   == Gpt([i \in 0 .. 1 |-> IF i = 0 THEN TableGpt(1) ELSE BlockGpt("ns")],
              (1 :> [i \in 0 .. 1 |-> IF i = 0 THEN Contig("root") ELSE Granules("ns")]))
Coarse == Gpt([i \in 0 .. 1 |-> TableGpt(i + 1)],
              (1 :> [i \in 0 .. 1 |-> Contig("ns")] @@ 2 :> [i \in 0 .. 1 |-> Granules("any")]))

Filled(f) == [i \in 0 .. 3 |-> IF i \in DOMAIN f THEN f[i] ELSE Zero]

\* The free memory is in a block of EL3's flat map. Page 12 is in a block.
Boot(fill) == [p \in 0 .. 7 |->
  CASE p = 0 -> Filled(0 :> Table(1))
    [] p = 1 -> Filled(0 :> Block(0) @@ 1 :> Block(4) @@ 3 :> Block(12))
    [] p \in {2, 3} -> Blank(Zero)
    [] OTHER -> Blank(fill)]

\* The free memory is mapped by pages, all but the last two.
ByPages(fill) == [Boot(fill) EXCEPT
  ![1] = Filled(0 :> Block(0) @@ 1 :> Table(2)),
  ![2] = Filled(0 :> Page(4, "root") @@ 1 :> Page(5, "root"))]

Machine(g, m, gpts, mmus) ==
  [gpt |-> g, mem |-> m, free |-> 4, ttbr |-> 0, gpts |-> gpts, mmus |-> mmus]

MCVAs == {8, 9, 12, 16}
MCPAs == {20, 21, 40, 45}
GptCalls == MCPAs \X {"ns", "realm"}
MmuCalls == MCVAs \X {20} \X {"realm"} \cup MCVAs \X {21} \X {"nonsecure"}
\* test_rme012 maps a page flat again that is in a block of EL3's flat map.
FlatCall == <<12, 12, "realm">>

NoCalls == Machine(Fine, Boot(Zero), {}, {})
MCMachines ==
  {NoCalls} \cup {Machine(g, Boot(Zero), GptCalls, {<<8, 20, "realm">>}) : g \in {Fine, Coarse}}
  \cup {Machine(Fine, m, {}, MmuCalls \cup {FlatCall}) : m \in {Boot(Zero), Boot(Ones), ByPages(Zero), ByPages(Ones)}}

MCRemap == {NoCalls, Machine(Fine, Boot(Zero), {}, {FlatCall})}

-----------------------------------------------------------------------------
Create(n, va, pa, len, a) ==
  [op |-> "create", name |-> n, region |-> [va |-> va, pa |-> pa, len |-> len, attr |-> a, bad |-> FALSE]]
Refused(n)        == [Create(n, 1, 1, 1, "rw") EXCEPT !.region.bad = TRUE]
Destroy(n)        == [op |-> "destroy", name |-> n]
Attributes(n, va) == [op |-> "attributes", name |-> n, va |-> va]
Unmap(va)         == [op |-> "remove", va |-> va]
User(n, pages, ask) == [calls |-> n, pages |-> pages, names |-> {"x", "y", "ttbr0"}, ask |-> ask,
                        tt_l0_base |-> 0]

\* Pages and blocks; the address 9 is cut to the input size.
Units == {Create("x", 0, 5, 1, "rw"), Create("x", 3, 6, 1, "ro"), Create("x", 4, 2, 2, "rw"),
          Create("x", 6, 3, 1, "ro"), Create("y", 9, 7, 1, "rw")}
Build == User(5, 1 .. 11, Units \cup {Refused("x"), Destroy("x"), Destroy("y"),
                                      Attributes("x", 4), Attributes("x", 3)})
\* The bare-metal boot: the list of regions of a platform, then a region more.
Platform == [text |-> <<<<0, 1>>>>, rodata |-> <<<<1, 1>>>>, data |-> <<<<2, 2>>>>, bss |-> <<>>,
             pool |-> <<>>, uart |-> <<<<5, 1>>>>, timers |-> <<>>, gic |-> <<<<6, 1>>>>, smmus |-> <<>>,
             ecams |-> <<>>, bars |-> <<<<7, 1>>>>, test |-> <<>>]
BareMetal == [User(4, 1 .. 8, {[op |-> "setup", platform |-> Platform],
  [op |-> "map_add", region |-> Create("ttbr0", 7, 4, 1, "rw").region], Attributes("ttbr0", 6), Unmap(5), Unmap(2)})
  EXCEPT !.tt_l0_base = 8]
\* Regions of several pages: the first of all, and others.
Long == User(4, 1 .. 14, {Create("x", 0, 1, 3, "rw"), Create("x", 4, 5, 4, "ro"), Create("y", 0, 4, 7, "rw"),
                         Create("y", 3, 3, 1, "ro"), Create("y", 2, 2, 3, "ro"), Destroy("y")})
\* Memory for one table and a half.
Short == User(4, 1 .. 5, {Create("x", 0, 5, 1, "rw"), Create("y", 6, 6, 1, "rw"), Destroy("x"), Destroy("y")})
NoUse == User(0, {1}, {})
MCUses == {NoUse, Build, Long, Short, BareMetal}
MCNoUse == {NoUse}

-----------------------------------------------------------------------------
MCRequests == {[size |-> 1, align |-> 1], [size |-> 3, align |-> 1], [size |-> 5, align |-> 4],
               [size |-> 4, align |-> 8]}

RlmMap(sid, stage, pgt) ==
  [sid |-> sid, stage |-> stage, index |-> 1, pgt |-> pgt, ssid |-> 0, ssid_bits |-> 0]
OutOfRange(sid) == [RlmMap(sid, "S1", "p") EXCEPT !.ssid = 2, !.ssid_bits = 1]
Smmu == [num |-> 1, structs |-> 1, v3 |-> TRUE, s1p |-> TRUE, s2p |-> TRUE, hyp |-> FALSE,
            two_level |-> FALSE, sid_bits |-> 2, split |-> 1, prompt |-> TRUE, nomem |-> FALSE, cd2l |-> FALSE,
            stops |-> FALSE, calls |-> 4, cr0 |-> {}, active |-> {1}, states |-> {}, services |-> {},
            maps |-> {RlmMap(1, "S1", "p"), RlmMap(1, "S2", "q"), RlmMap(2, "S1", "p"), OutOfRange(1)}, unmaps |-> {1}]
\* The firmware left the SMMU on; the service of the device assignment test.
Assigned == [Smmu EXCEPT !.cr0 = {"SMMUEN"}, !.services = {1, 2}, !.maps = {}, !.unmaps = {}, !.hyp = TRUE]
TwoLevel == [Smmu EXCEPT !.two_level = TRUE, !.cd2l = TRUE, !.unmaps = {}, !.nomem = TRUE, !.active = {1, 2},
             !.maps = {RlmMap(1, "S1", "p"), RlmMap(2, "S2", "q"), RlmMap(5, "S2", "q")}, !.calls = 3]
\* Two structures on the one frame, and an SMMU that answers late.
Late     == [Smmu EXCEPT !.prompt = FALSE, !.num = 2, !.structs = 2, !.calls = 2, !.stops = TRUE,
             !.states = BOOLEAN, !.maps = {RlmMap(1, "S1", "p")}]
\* A second initialisation, which finds the queue on.
Again    == [Smmu EXCEPT !.prompt = FALSE, !.structs = 2, !.calls = 3, !.stops = TRUE, !.states = BOOLEAN,
             !.maps = {RlmMap(1, "S1", "p")}, !.unmaps = {}]
NoSmmu   == [Smmu EXCEPT !.v3 = FALSE, !.calls = 2]
NoStages == [Smmu EXCEPT !.s2p = FALSE]
Poor     == [Smmu EXCEPT !.s1p = FALSE, !.s2p = FALSE, !.nomem = TRUE, !.calls = 2]
Quiet    == [Smmu EXCEPT !.num = 0, !.calls = 1, !.maps = {}, !.unmaps = {}]
MCRlm == {Smmu, Assigned, TwoLevel, Late, Again, NoSmmu, NoStages, Poor, Quiet}
MCNoRlm == {Quiet}

-----------------------------------------------------------------------------
MCTests == MCScenarios \cup {Rest}
MCNoTests == {Rest}

\* The scripts are of the kind the theorems of El3AccessProofs are about.
ASSUME OrderlyInstance == OrderlyScripts

AccessIdle == scenario = Rest /\ Init
Idle3      == machine = NoCalls
Idle2      == use = NoUse
RlmIdle    == rsc = Quiet /\ rleft = 1
MemIdle    == pool = <<>> /\ given = <<>>

\* At most one of the scenarios asks for anything; the idle one starts in one way.
MCInit == /\ Init /\ (scenario = Rest => same = 1)
          /\ El3Init /\ PgtInit /\ RlmInit /\ MemInit
          /\ LET busy == <<scenario # Rest, ~Idle3, ~Idle2, rsc # Quiet>>
             IN  \A i, j \in 1 .. 4 : busy[i] /\ busy[j] => i = j

MCNext ==
  \/ /\ Idle3 /\ Idle2 /\ RlmIdle /\ MemIdle
     /\ Next /\ UNCHANGED <<el3vars, pgtvars, rlmvars, memvars>>
  \/ /\ AccessIdle /\ Idle2 /\ RlmIdle /\ MemIdle
     /\ El3Next \/ El3Done
     /\ UNCHANGED <<vars, pgtvars, rlmvars, memvars>>
  \/ /\ AccessIdle /\ Idle3 /\ RlmIdle /\ MemIdle
     /\ PgtNext \/ PgtDone
     /\ UNCHANGED <<vars, el3vars, rlmvars, memvars>>
  \/ /\ AccessIdle /\ Idle3 /\ Idle2 /\ MemIdle
     /\ RlmNext \/ RlmDone
     /\ UNCHANGED <<vars, el3vars, pgtvars, memvars>>
  \/ /\ AccessIdle /\ Idle3 /\ Idle2 /\ RlmIdle
     /\ (given = <<>> /\ PoolNext) \/ (pool = <<>> /\ HeapNext)
     /\ UNCHANGED <<vars, el3vars, pgtvars, rlmvars>>

MCSpec == MCInit /\ [][MCNext]_<<vars, el3vars, pgtvars, rlmvars, memvars>>
=============================================================================
