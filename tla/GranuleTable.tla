--------------------------- MODULE GranuleTable ----------------------------
(***************************************************************************)
(* The granule protection table (GPT), as add_gpt_entry of EL3 edits it    *)
(* for the tests. Addresses are page numbers.                              *)
(***************************************************************************)
EXTENDS Integers

CONSTANTS PAs,            \* the pages tests ask for
          L0Bits, L1Bits  \* index widths of the GPT's two levels

\* The GPT covers the pages; and what the proofs use of powers of two.
ASSUME GptAssumption ==
  /\ {L0Bits, L1Bits} \subseteq Nat
  /\ PAs \subseteq 0 .. 2 ^ L0Bits * 2 ^ (L1Bits + 4) - 1
  /\ {2 ^ L0Bits, 2 ^ L1Bits} \subseteq Nat \ {0} /\ 2 ^ (L1Bits + 4) = 16 * 2 ^ L1Bits

VARIABLES gpt,  \* [l0 : level 0 descriptors, l1 : level 1 tables]
          set   \* history: the GPIs the tests asked for

-----------------------------------------------------------------------------
(* A level 0 descriptor is a block or a table, a level 1 descriptor one    *)
(* GPI for a contiguous range or 16 GPIs.                                  *)
BlockGpt(g)    == [kind |-> "block", gpi |-> g]
TableGpt(base) == [kind |-> "table", base |-> base]
Contig(g)      == [kind |-> "contig", gpi |-> g]
Granules(g)    == [kind |-> "granules", gpis |-> [i \in 0 .. 15 |-> g]]

get_gpt_index(pa, level) ==
  IF level = 0 THEN (pa \div 2 ^ (L1Bits + 4)) % 2 ^ L0Bits
  ELSE (pa \div 16) % 2 ^ L1Bits

\* The GPI is stored whether or not the old one was a valid encoding.
modify_gpt_gpi(entry, pa, g) ==
  IF entry.kind = "granules" THEN [entry EXCEPT !.gpis[pa % 16] = g]
  ELSE [entry EXCEPT !.gpi = g]

add_gpt_entry(pa, g) ==
  LET i0 == get_gpt_index(pa, 0)
      i1 == get_gpt_index(pa, 1)
      l0 == gpt.l0[i0]
  IN gpt' = IF l0.kind = "table"
              THEN [gpt EXCEPT !.l1[l0.base][i1] = modify_gpt_gpi(@, pa, g)]
              ELSE [gpt EXCEPT !.l0[i0] = modify_gpt_gpi(@, pa, g)]

\* The granule protection check's own lookup.
Gpc(t, pa) ==
  LET l0 == t.l0[(pa \div 2 ^ (L1Bits + 4)) % 2 ^ L0Bits]
      l1 == t.l1[l0.base][(pa \div 16) % 2 ^ L1Bits]
  IN IF l0.kind = "block" THEN l0.gpi
     ELSE IF l1.kind = "contig" THEN l1.gpi
     ELSE l1.gpis[pa % 16]

\* The granules that share a descriptor with pa, hence its GPI.
Together(pa) ==
  LET l0 == gpt.l0[(pa \div 2 ^ (L1Bits + 4)) % 2 ^ L0Bits]
  IN IF l0.kind = "block"
       THEN {p \in PAs : p \div 2 ^ (L1Bits + 4) = pa \div 2 ^ (L1Bits + 4)}
     ELSE IF gpt.l1[l0.base][(pa \div 16) % 2 ^ L1Bits].kind = "contig"
       THEN {p \in PAs : p \div 16 = pa \div 16}
     ELSE {pa}

\* A call, and what it is to bring about.
SetGpi(pa, g) ==
  /\ add_gpt_entry(pa, g)
  /\ set' = [p \in PAs |-> IF p \in Together(pa) THEN g ELSE set[p]]

-----------------------------------------------------------------------------
\* Every granule has the GPI the last call for it, or for a granule that shares
\* its descriptor, asked for; the others have the GPI EL3 booted with.
GptAsAsked == \A p \in PAs : Gpc(gpt, p) = set[p]
=============================================================================
