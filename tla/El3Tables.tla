----------------------------- MODULE El3Tables -----------------------------
(***************************************************************************)
(* The services of EL3 that edit tables: add_gpt_entry (GranuleTable), and *)
(* add_mmu_entry, which maps a page, one of PAs, in the EL3 stage 1 tables *)
(* that EL3 itself runs on. Addresses are page numbers; a table is a page  *)
(* of descriptors, and EL3 reads and writes it through its own flat map,   *)
(* while the walker goes by physical address.                              *)
(***************************************************************************)
EXTENDS GranuleTable, Sequences, FiniteSets

CONSTANTS Machines,       \* the GPTs, EL3 tables and free memory EL3 boots with,
                          \* and the calls tests make to the two services
          VAs,            \* the pages tests map
          Bits,           \* bits_per_level (9 in the code)
          Levels,         \* num_pgt_levels
          Calls           \* bound on the services called

ASSUME El3TablesAssumption ==
  /\ {Bits, Levels} \subseteq Nat \ {0}
  /\ VAs \cup PAs \subseteq 0 .. 2 ^ (Bits * Levels) - 1

VARIABLES machine,
          mem,        \* [page -> table of stage 1 descriptors]
          free_pa,
          frames,     \* activations of add_mmu_entry, the innermost last
          tlb,        \* translations of VAs the PE holds
          asked,      \* history: what the tests asked add_mmu_entry for
          stale,      \* history: pages of which the PE held an older translation
                      \* when the service returned
          calls

el3vars == <<machine, gpt, mem, free_pa, frames, tlb, asked, stale, set, calls>>

-----------------------------------------------------------------------------
\* RME_ADD_GPT_ENTRY; tlbi_paallos drops all the PE holds of the GPT.
AddGptEntry(pa, g) ==
  /\ frames = <<>> /\ calls < Calls
  /\ SetGpi(pa, g)
  /\ calls' = calls + 1
  /\ UNCHANGED <<machine, mem, free_pa, frames, tlb, asked, stale>>

-----------------------------------------------------------------------------
(* Stage 1 of EL3. A descriptor is zero, has all bits set as in memory     *)
(* that was never written, or is a block, a page or a table.               *)
Zero        == [kind |-> "zero"]
Ones        == [kind |-> "ones"]
Block(pa)   == [kind |-> "block", pa |-> pa, attr |-> "root"]
Page(pa, a) == [kind |-> "page", pa |-> pa, attr |-> a]
Table(pa)   == [kind |-> "table", pa |-> pa]
Blank(d)    == [i \in 0 .. 2 ^ Bits - 1 |-> d]

Index(va, level) == (va \div 2 ^ (Bits * (Levels - 1 - level))) % 2 ^ Bits

\* The walk of the hardware through the tables m: <<page, attribute>>, or <<>>
\* for a fault. All ones lead to no memory (-1).
Walk(m, va) ==
  LET w[tt \in DOMAIN m, level \in 0 .. Levels - 1] ==
        LET d == m[tt][Index(va, level)] IN
        CASE d.kind = "block" -> <<d.pa + (va % 2 ^ (Bits * (Levels - 1 - level))), d.attr>>
          [] d.kind = "page"  -> <<d.pa, d.attr>>
          [] d.kind = "table" -> w[d.pa, level + 1]
          [] d.kind = "ones"  -> <<-1, "ones">>
          [] OTHER            -> <<>>
  IN w[machine.ttbr, 0]

\* at_s1e3w: whether the translation of a write faults.
at_s1e3w(m, va) == Walk(m, va) = <<>>

Frame(va, pa, attr) == [va |-> va, pa |-> pa, attr |-> attr, level |-> 0, tt |-> machine.ttbr]
Top     == frames[Len(frames)]
Popped  == SubSeq(frames, 1, Len(frames) - 1)
Desc    == mem[Top.tt][Index(Top.va, Top.level)]
Put(d)  == mem' = [mem EXCEPT ![Top.tt][Index(Top.va, Top.level)] = d]
Down(tt) == [Top EXCEPT !.tt = tt, !.level = @ + 1]

\* RME_ADD_MMU_ENTRY.
AddMmuEntry(va, pa, attr) ==
  /\ frames = <<>> /\ calls < Calls
  /\ frames' = <<Frame(va, pa, attr)>>
  /\ calls' = calls + 1
  /\ UNCHANGED <<machine, gpt, mem, free_pa, tlb, asked, stale, set>>

\* TLBI VAE3 takes the number of a page, VA[55:12], in the low bits of its
\* operand; only what the PE holds of that page is dropped.
PageBytes == 4096
tlbi_vae3(operand) == tlb' = [va \in VAs |-> IF va = operand THEN <<>> ELSE tlb[va]]

\* The last level: the page descriptor is written and cleaned to memory, and
\* the outermost activation returns to the handler, which executes the
\* invalidation on the address, not on the number of the page.
WriteLeaf ==
  /\ frames # <<>> /\ Top.level = Levels - 1
  /\ Put(Page(Top.pa, Top.attr))
  /\ frames' = Popped
  /\ IF Len(frames) = 1
       THEN /\ tlbi_vae3(Top.va * PageBytes)
            /\ asked' = [asked EXCEPT ![Top.va] = <<Top.pa, Top.attr>>]
            /\ stale' = IF tlb'[Top.va] \in {<<>>, asked'[Top.va]} THEN stale \ {Top.va}
                        ELSE stale \cup {Top.va}
       ELSE UNCHANGED <<tlb, asked, stale>>
  /\ UNCHANGED <<machine, gpt, free_pa, set, calls>>

\* Zero, all ones, and a block: what the block mapped is given up.
NeedsTable == Desc.kind \in {"zero", "block", "ones"}

\* Mutant: the next table is taken from the same place.
SamePlace == free_pa

NextFree == free_pa + 1

\* A table is taken from the free memory, as it is; if EL3 cannot write to it,
\* it is mapped flat by a nested call before this one goes on.
TakeTable ==
  /\ frames # <<>> /\ Top.level < Levels - 1 /\ NeedsTable
  /\ Put(Table(free_pa))
  /\ free_pa' = NextFree
  /\ frames' = Popped \o <<Down(free_pa)>> \o
                 IF at_s1e3w(mem', free_pa) THEN <<Frame(free_pa, free_pa, "nonsecure")>> ELSE <<>>
  /\ UNCHANGED <<machine, gpt, tlb, asked, stale, set, calls>>

FollowTable ==
  /\ frames # <<>> /\ Top.level < Levels - 1 /\ ~NeedsTable
  /\ frames' = Append(Popped, Down(Desc.pa))
  /\ UNCHANGED <<machine, gpt, mem, free_pa, tlb, asked, stale, set, calls>>

\* The PE may load the translation of a page at any time, also for one it holds.
TlbFill(va) ==
  /\ Walk(mem, va) # <<>> /\ tlb[va] # Walk(mem, va)
  /\ tlb' = [tlb EXCEPT ![va] = Walk(mem, va)]
  /\ stale' = stale \ {va}
  /\ UNCHANGED <<machine, gpt, mem, free_pa, frames, asked, set, calls>>

-----------------------------------------------------------------------------
El3Init ==
  /\ machine \in Machines
  /\ gpt = machine.gpt /\ mem = machine.mem /\ free_pa = machine.free
  /\ frames = <<>> /\ calls = 0
  /\ tlb = [va \in VAs |-> <<>>] /\ asked = [va \in VAs |-> <<>>] /\ stale = {}
  /\ set = [p \in PAs |-> Gpc(gpt, p)]

El3Done == frames = <<>> /\ calls = Calls /\ UNCHANGED el3vars

El3Next == \/ \E c \in machine.gpts : AddGptEntry(c[1], c[2])
           \/ \E c \in machine.mmus : AddMmuEntry(c[1], c[2], c[3])
           \/ WriteLeaf \/ TakeTable \/ FollowTable
           \/ \E va \in VAs : TlbFill(va)

-----------------------------------------------------------------------------
\* What an access of EL3 to va meets: a translation held by the PE, or the tables.
Seen(va) == IF tlb[va] # <<>> THEN tlb[va] ELSE Walk(mem, va)

\* The tables take every page a test asked EL3 to map to what the last call for
\* it asked for, whatever tables later calls take, map or put in the place of a
\* block; and so do the accesses of EL3, unless the PE held an older translation
\* of the page when the service returned, or a half-made one: tlbi_vae3 leaves it.
MmuAsAsked ==
  \A va \in VAs : asked[va] # <<>> =>
    Walk(mem, va) = asked[va] /\ (va \notin stale => Seen(va) = asked[va])

\* When add_mmu_entry reads or writes a table, EL3's own map takes it to the
\* page the walker reads, also for the tables taken during the call; and no
\* page is two tables.
TablesInReach ==
  /\ frames # <<>> => Walk(mem, Top.tt) # <<>> /\ Walk(mem, Top.tt)[1] = Top.tt
  /\ \A p, q \in DOMAIN mem, i, j \in 0 .. 2 ^ Bits - 1 :
       mem[p][i].kind = "table" /\ mem[q][j] = mem[p][i] => p = q /\ i = j

\* What EL3 edits for the tests is what they asked for: add_mmu_entry for the
\* pages (MmuAsAsked), add_gpt_entry and its invalidation for the granules
\* (GptAsAsked), through tables EL3 reaches while it edits them (TablesInReach).
El3AsAsked == MmuAsAsked /\ GptAsAsked /\ TablesInReach

\* "Cached copies are invalidated": when RME_ADD_MMU_ENTRY returns, the PE holds no
\* translation of the page older than the one add_mmu_entry wrote.
NoneStale == stale = {}
=============================================================================
