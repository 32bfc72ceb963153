-------------------------------- MODULE Pgt --------------------------------
(***************************************************************************)
(* The translation tables a test builds at EL2 (acs_pgt.c), for an SMMU or *)
(* for the PE: val_pgt_create fills them region by region, through a       *)
(* recursion that keeps indices in global variables, from one call to the  *)
(* next; val_pgt_destroy frees them. Addresses and lengths are in pages;   *)
(* an entry is unused, a block, a page or a table.                         *)
(***************************************************************************)
EXTENDS Integers, Sequences, FiniteSets

CONSTANTS Uses,       \* the calls a program makes, and with which memory
          BitsPerLevel, TopBits,  \* index widths (9, and 1 to 9 in the code)
          PgtLevels   \* num_pgt_levels, at most 4

ASSUME PgtAssumption ==
  /\ BitsPerLevel \in Nat \ {0} /\ TopBits \in 1 .. BitsPerLevel
  /\ PgtLevels \in 1 .. 4

VARIABLES use,
          tables,     \* [page -> entries], the pages of the heap
          heap,       \* pages val_memory_alloc_pages can hand out
          filled,     \* acs_pgt_info, by level
          offset,
          acts,       \* activations of fill_translation_table
          job,        \* the call in progress, <<root, name, regions>>, or <<>>
          roots,      \* pgt_base of the tables built, by name; 0 when none
          promised,   \* history: what the calls that returned 0 asked for
          adrift,     \* history: tables with a region the counters may lead astray
          got,        \* attributes read, and those of the walk
          failed,     \* history: a call returned an error
          misfreed,   \* history: a page was freed twice
          lost,       \* history: tables a block was written over
          enabled,    \* the PE translates with the table called ttbr0
          ncalls

pgtvars == <<use, tables, heap, filled, offset, acts, job, roots, promised, adrift, got,
             failed, misfreed, lost, enabled, ncalls>>

Unused         == [kind |-> "unused"]
BlockEntry(r)  == [kind |-> "block", pa |-> r[1], attr |-> r[2]]
PageEntry(r)   == [kind |-> "page", pa |-> r[1], attr |-> r[2]]
TableEntry(pa) == [kind |-> "table", pa |-> pa]

StartLevel == 4 - PgtLevels
Entries(level) == 2 ^ (IF level = StartLevel THEN TopBits ELSE BitsPerLevel)
Cleared == [i \in 0 .. 2 ^ BitsPerLevel - 1 |-> Unused]
\* The pages an entry of a level covers; get_block_size.
get_block_size(level) == 2 ^ (BitsPerLevel * (3 - level))
EntryIndex(va, level) == (va \div get_block_size(level)) % Entries(level)
InputPages == 2 ^ (TopBits + BitsPerLevel * (PgtLevels - 1))

\* The hardware's walk: the last entry, and <<page, attribute>>, or <<>>.
Leaf(root, va) ==
  LET w[tt \in DOMAIN tables, level \in 0 .. 3] ==
        LET e == tables[tt][EntryIndex(va, level)] IN
        IF e.kind = "table" THEN w[e.pa, level + 1] ELSE [entry |-> e, level |-> level]
  IN w[root, StartLevel]

Translate(root, va) ==
  LET l == Leaf(root, va)
  IN IF l.entry.kind = "unused" THEN <<>>
     ELSE <<l.entry.pa + (va % get_block_size(l.level)), l.entry.attr>>

-----------------------------------------------------------------------------
\* increment_pgt_index: only the last level counts; the others take carries.
increment_pgt_index(level) ==
  LET full == filled[level] = 2 ^ BitsPerLevel - 1 IN
  CASE level = 0 -> filled
    [] level \in 1 .. 3 /\ full -> [filled EXCEPT ![level] = 0, ![level - 1] = @ + 1]
    [] level = 3 /\ ~full -> [filled EXCEPT ![3] = @ + 1]
    [] OTHER -> filled

Act(tt, from, to, out, level) ==
  [tt |-> tt, from |-> from, to |-> to, out |-> out, level |-> level, child |-> 0]
Cur     == acts[Len(acts)]
Callers == SubSeq(acts, 1, Len(acts) - 1)
Entry   == tables[Cur.tt][EntryIndex(Cur.from, Cur.level)]
Region  == Head(job[3])
PutEntry(e) == tables' = [tables EXCEPT ![Cur.tt][EntryIndex(Cur.from, Cur.level)] = e]
Filling == acts # <<>> /\ Cur.from <= Cur.to
\* The step of the for statement.
Stepped(a, off) == [a EXCEPT !.from = @ + get_block_size(a.level) - off,
                             !.out = @ + get_block_size(a.level) - off]

FitsBlock ==
  /\ Cur.from % get_block_size(Cur.level) = 0
  /\ Cur.out % get_block_size(Cur.level) = 0
  /\ Cur.to >= Cur.from + get_block_size(Cur.level) - 1

\* The tables below a table, each as often as it is met.
Below(root, start) ==
  LET b[tt \in DOMAIN tables, level \in 0 .. 3] ==
        IF level = 3 THEN <<>>
        ELSE LET c[i \in 0 .. Entries(level)] ==
                   IF i = Entries(level) THEN <<>>
                   ELSE IF tables[tt][i].kind = "table"
                          THEN b[tables[tt][i].pa, level + 1] \o <<tables[tt][i].pa>> \o c[i + 1]
                          ELSE c[i + 1]
             IN c[0]
  IN b[root, start]

\* A page at level 3, a block above; a block takes the place of a table as well,
\* and the pages of that table are not freed.
FillLeaf ==
  /\ Filling /\ (Cur.level = 3 \/ FitsBlock)
  /\ PutEntry(IF Cur.level = 3 THEN PageEntry(<<Cur.out, Region.attr>>)
           ELSE BlockEntry(<<Cur.out - (Cur.out % get_block_size(Cur.level)), Region.attr>>))
  /\ filled' = increment_pgt_index(Cur.level)
  /\ offset' = 0
  /\ acts' = Append(Callers, Stepped(Cur, 0))
  /\ lost' = IF Entry.kind # "table" THEN lost
             ELSE LET below == Below(Entry.pa, Cur.level + 1)
                  IN lost \cup {Entry.pa} \cup {below[i] : i \in 1 .. Len(below)}
  /\ UNCHANGED <<use, heap, job, roots, promised, adrift, got, failed, misfreed, enabled, ncalls>>

\* Mutant: a table found in the entry is not used again.
AlwaysNew == TRUE

NeedsPage == Entry.kind \in {"unused", "block"}

Least(a, b) == IF a < b THEN a ELSE b

Skipped == filled[Cur.level + 1] * get_block_size(Cur.level + 1)

\* What was asked for in the pages of a block is given up with it.
GiveUpBlock ==
  LET size == get_block_size(Cur.level)
  IN [promised EXCEPT ![job[2]] = [va \in 0 .. InputPages - 1 |->
        IF va \div size = Cur.from \div size THEN <<>> ELSE @[va]]]

\* A table below: a fresh page, also in the place of a block, or the one the
\* entry names. What it may be filled with ends where Skipped entries are left.
FillTable ==
  /\ Filling /\ Cur.level < 3 /\ ~FitsBlock
  /\ NeedsPage => heap # {}
  /\ LET next == IF NeedsPage THEN CHOOSE p \in heap : TRUE ELSE Entry.pa
         last == Cur.from + get_block_size(Cur.level) - Skipped - 1
     IN /\ heap' = IF NeedsPage THEN heap \ {next} ELSE heap
        /\ tables' = IF NeedsPage THEN [tables EXCEPT ![next] = Cleared] ELSE tables
        /\ acts' = Callers \o <<[Cur EXCEPT !.child = next],
                     Act(next, Cur.from, Least(Cur.to, last), Cur.out, Cur.level + 1)>>
  /\ offset' = Skipped
  /\ filled' = increment_pgt_index(Cur.level)
  /\ promised' = IF Entry.kind = "block" THEN GiveUpBlock ELSE promised
  /\ UNCHANGED <<use, job, roots, adrift, got, failed, misfreed, lost, enabled, ncalls>>

\* The recursive call returns 0: the entry is made to point to the table.
FillReturns ==
  /\ acts # <<>> /\ ~Filling /\ Len(acts) > 1
  /\ LET up == acts[Len(acts) - 1] IN
       /\ tables' = [tables EXCEPT ![up.tt][EntryIndex(up.from, up.level)] = TableEntry(up.child)]
       /\ acts' = Append(SubSeq(acts, 1, Len(acts) - 2), Stepped(up, offset))
  /\ UNCHANGED <<use, heap, filled, offset, job, roots, promised, adrift, got, failed, misfreed, lost, enabled, ncalls>>

\* No page is left: each activation frees the table below it, whether it took
\* it or found it, and val_pgt_create frees the root.
FillFails ==
  /\ Filling /\ Cur.level < 3 /\ ~FitsBlock /\ NeedsPage /\ heap = {}
  /\ LET freed == {Callers[i].child : i \in 1 .. Len(Callers)} \cup {job[1]}
     IN heap' = heap \cup freed
  /\ acts' = <<>> /\ job' = <<>> /\ failed' = TRUE
  /\ UNCHANGED <<use, tables, filled, offset, roots, promised, adrift, got, misfreed, lost, enabled, ncalls>>

-----------------------------------------------------------------------------
Idle == job = <<>> /\ ncalls < use.calls

\* The outermost call of fill_translation_table, for one region.
Fill(root, r) ==
  acts' = <<Act(root, r.va % InputPages, (r.va % InputPages) + r.len - 1, r.pa, StartLevel)>>

\* Regions for which what is skipped agrees with the addresses: one page or one
\* block, and the first of all when it starts at an entry of the root.
Unit(r) == \E level \in StartLevel .. 3 :
             r.len = get_block_size(level) /\ {r.va % r.len, r.pa % r.len} = {0}
InStep(r) == Unit(r) \/ (r.va % get_block_size(StartLevel) = 0 /\ \A l \in 0 .. 3 : filled[l] = 0)
Adrift(name, r) == IF InStep(r) THEN adrift ELSE adrift \cup {name}

\* val_pgt_create for the first of the regions, into a table of its own or into
\* one that exists. A bad region (alignment, size of the output address, granule)
\* is refused after the root was allocated.
Begin(name, regions) ==
  LET new  == roots[name] = 0
      root == IF new THEN CHOOSE p \in heap : TRUE ELSE roots[name]
  IN /\ IF new /\ heap = {} THEN UNCHANGED <<heap, tables>>
        ELSE /\ heap' = heap \ {root}
             /\ tables' = IF new THEN [tables EXCEPT ![root] = Cleared] ELSE tables
     /\ IF (new /\ heap = {}) \/ Head(regions).bad
          THEN failed' = TRUE /\ UNCHANGED <<acts, job, adrift>>
          ELSE /\ Fill(root, Head(regions)) /\ job' = <<root, name, regions>>
               /\ adrift' = Adrift(name, Head(regions)) /\ UNCHANGED failed
     /\ ncalls' = ncalls + 1
     /\ UNCHANGED <<use, filled, offset, roots, promised, got, misfreed, lost, enabled>>

\* The loop over the array counts its entries and maps the first each time; the
\* callers pass one.
val_pgt_create(call) == Idle /\ call.op = "create" /\ Begin(call.name, <<call.region>>)

\* A region the PE needs is added to the table it translates with.
val_pe_mmu_map_add(call) ==
  Idle /\ call.op = "map_add" /\ enabled /\ Begin("ttbr0", <<call.region>>)

\* The list of regions of the bare-metal boot, in its order. A platform lists
\* the base and the length of what it has of each kind.
Flat(places, attr) ==
  [i \in 1 .. Len(places) |-> [va |-> places[i][1], pa |-> places[i][1], len |-> places[i][2],
                               attr |-> attr, bad |-> FALSE]]
ImageRegions(p)  == Flat(p.text, "code") \o Flat(p.rodata, "ro") \o Flat(p.data \o p.bss \o p.pool, "rw")
DeviceRegions(p) ==
  Flat(p.uart \o p.timers \o p.gic \o p.smmus \o p.ecams, "device")
    \o (IF p.ecams = <<>> THEN <<>> ELSE Flat(p.bars, "device"))
pal_mmu_add_mmap(p) == ImageRegions(p) \o DeviceRegions(p) \o Flat(p.test, "rw")

\* val_setup_mmu: val_pgt_create for each region of the list, into tt_l0_base, a
\* table of the image, until one fails.
val_setup_mmu(call) ==
  /\ Idle /\ call.op = "setup" /\ ~enabled /\ ncalls = 0
  /\ Begin("ttbr0", pal_mmu_add_mmap(call.platform))

val_enable_mmu(call) ==
  /\ Idle /\ call.op = "setup" /\ ~enabled /\ ~failed /\ ncalls > 0
  /\ enabled' = TRUE
  /\ UNCHANGED <<use, tables, heap, filled, offset, acts, job, roots, promised, adrift, got, failed,
                 misfreed, lost, ncalls>>

Promise(name, r) ==
  [promised EXCEPT ![name] = [va \in 0 .. InputPages - 1 |->
     LET off == va - (r.va % InputPages) IN
     IF off \in 0 .. r.len - 1 THEN <<r.pa + off, r.attr>> ELSE @[va]]]

\* The outermost fill_translation_table returns 0, and so does val_pgt_create;
\* val_setup_mmu goes on to the next region.
CreateReturns ==
  /\ Len(acts) = 1 /\ ~Filling
  /\ roots' = [roots EXCEPT ![job[2]] = job[1]]
  /\ promised' = Promise(job[2], Region)
  /\ IF Len(job[3]) = 1 THEN acts' = <<>> /\ job' = <<>> /\ UNCHANGED adrift
     ELSE /\ Fill(job[1], job[3][2]) /\ job' = [job EXCEPT ![3] = Tail(@)]
          /\ adrift' = Adrift(job[2], job[3][2])
  /\ UNCHANGED <<use, tables, heap, filled, offset, got, failed, misfreed, lost, enabled, ncalls>>

\* Mutant: the tables below the root are left.
OnlyRoot(root) == <<root>>

\* free_translation_table, and the root.
Freed(root) == Below(root, StartLevel) \o <<root>>

val_pgt_destroy(call) ==
  /\ Idle /\ call.op = "destroy" /\ roots[call.name] # 0
  /\ ncalls' = ncalls + 1
  /\ LET freed == Freed(roots[call.name])
         pages == {freed[i] : i \in 1 .. Len(freed)}
     IN /\ heap' = heap \cup pages
        /\ misfreed' = (misfreed \/ Cardinality(pages) < Len(freed) \/ pages \cap heap # {})
  /\ roots' = [roots EXCEPT ![call.name] = 0]
  /\ promised' = [promised EXCEPT ![call.name] = [va \in 0 .. InputPages - 1 |-> <<>>]]
  /\ UNCHANGED <<use, tables, filled, offset, acts, job, adrift, got, failed, lost, enabled>>

ShiftBelow(bits, width) == bits - width

\* val_pgt_get_attributes: the bits left are counted down by the width of the
\* level just passed. An unused entry reads as a block without attributes.
val_pgt_get_attributes(call) ==
  /\ Idle /\ call.op = "attributes" /\ roots[call.name] # 0
  /\ ncalls' = ncalls + 1
  /\ LET r[tt \in DOMAIN tables, level \in 0 .. 3, bits \in 0 .. 4 * BitsPerLevel] ==
           LET width == IF level = StartLevel THEN TopBits ELSE BitsPerLevel
               e == tables[tt][(call.va \div 2 ^ bits) % 2 ^ width]
           IN CASE e.kind = "table"  -> r[e.pa, level + 1, ShiftBelow(bits, width)]
                [] e.kind = "unused" -> IF level = 3 THEN "error" ELSE "none"
                [] OTHER             -> e.attr
     IN got' = [read |-> r[roots[call.name], StartLevel, BitsPerLevel * (PgtLevels - 1)],
                walk |-> Translate(roots[call.name], call.va)]
  /\ UNCHANGED <<use, tables, heap, filled, offset, acts, job, roots, promised, adrift, failed, misfreed, lost, enabled>>

\* val_pe_mmu_map_rmv clears the valid bit of a copy of the last entry of the
\* walk and stores nothing. What the pages of that entry translate to is then no
\* longer promised.
Void == <<"void">>

val_pe_mmu_map_rmv(call) ==
  /\ Idle /\ call.op = "remove" /\ enabled
  /\ ncalls' = ncalls + 1
  /\ LET l    == Leaf(roots["ttbr0"], call.va)
         size == get_block_size(l.level)
     IN promised' = [promised EXCEPT !["ttbr0"] = [va \in 0 .. InputPages - 1 |->
          IF va \div size = call.va \div size /\ l.entry.kind # "unused" THEN Void ELSE @[va]]]
  /\ UNCHANGED <<use, tables, heap, filled, offset, acts, job, roots, adrift, got, failed, misfreed, lost, enabled>>

-----------------------------------------------------------------------------
PgtInit ==
  /\ use \in Uses
  /\ tables = [p \in use.pages |-> Cleared] /\ heap = use.pages \ {use.tt_l0_base}
  /\ filled = [level \in 0 .. 3 |-> 0] /\ offset = 0
  /\ acts = <<>> /\ job = <<>> /\ roots = [n \in use.names |-> IF n = "ttbr0" THEN use.tt_l0_base ELSE 0]
  /\ promised = [n \in use.names |-> [va \in 0 .. InputPages - 1 |-> <<>>]]
  /\ adrift = {} /\ got = [read |-> "none", walk |-> <<>>]
  /\ failed = FALSE /\ misfreed = FALSE /\ lost = {} /\ enabled = FALSE /\ ncalls = 0

PgtDone == job = <<>> /\ ncalls = use.calls /\ UNCHANGED pgtvars

PgtNext == \/ FillLeaf \/ FillTable \/ FillReturns \/ FillFails \/ CreateReturns
           \/ \E c \in use.ask : \/ val_setup_mmu(c) \/ val_enable_mmu(c) \/ val_pe_mmu_map_add(c)
                                 \/ val_pgt_create(c) \/ val_pgt_destroy(c)
                                 \/ val_pgt_get_attributes(c) \/ val_pe_mmu_map_rmv(c)

-----------------------------------------------------------------------------
\* A table whose regions were each one page or one block, or the first region of
\* all, translates every page as the last region over it asked for, and no other
\* page, however many regions were mapped before into this table or into others,
\* but for the rest of a block into which a smaller region was mapped;
\* and val_pgt_get_attributes reads the attributes the walk uses. Pages that
\* val_pe_mmu_map_rmv was asked to unmap are left out: it unmaps none.
RegionsMapped ==
  /\ job = <<>> => \A n \in DOMAIN roots \ adrift : roots[n] # 0 =>
       \A va \in 0 .. InputPages - 1 : promised[n][va] \in {Translate(roots[n], va), Void}
  /\ got.walk # <<>> => got.read = got.walk[2]

\* The pages of a table that is in use.
Used(n) == {Freed(roots[n])[i] : i \in 1 .. Len(Freed(roots[n]))}

\* No page is freed twice or while a table still leads to it, and when no call
\* failed every page taken is in a table that is in use, or was in one a block
\* was written over: val_pgt_destroy gives back all else that val_pgt_create took.
PagesAccounted ==
  /\ ~misfreed
  /\ job = <<>> =>
       LET inuse == UNION {Used(n) : n \in {m \in DOMAIN roots : roots[m] # 0}}
       IN inuse \cap heap = {} /\ (~failed => inuse \cup heap \cup lost = use.pages)
=============================================================================
