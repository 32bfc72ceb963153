------------------------------ MODULE PeTable ------------------------------
(***************************************************************************)
(* The PE information table and how a secondary PE finds its own place     *)
(* with it: its stack, which ModuleEntryPoint computes from MPIDR, and the *)
(* slot of its payload, which val_test_entry looks up. An MPIDR is its     *)
(* four affinity fields, lowest first. Memory is counted in units of eight *)
(* bytes.                                                                  *)
(***************************************************************************)
EXTENDS Integers, Sequences

CONSTANT PeMachines  \* [uefi, madt, buffer]: platform, structures, address allocated

Affinity == [1 .. 4 -> Nat]
NoGicc   == <<>>   \* another structure

\* No two GICC structures are of one PE.
ASSUME PeAssumption ==
  \A m \in PeMachines :
    /\ m.madt \in Seq(Affinity \cup {NoGicc}) /\ m.buffer \in Nat \ {0} /\ m.uefi \in BOOLEAN
    /\ \A i, j \in 1 .. Len(m.madt) : m.madt[i] = m.madt[j] /\ m.madt[i] # NoGicc => i = j

SIZE_STACK_SECONDARY_PE == 32
CPU_STACK_ALIGNMENT     == 2

VARIABLES pm,         \* the machine
          Entry,      \* the structure being read
          pe_info,    \* the MPIDRs of the table
          gMpidrMax,
          pe_stack,   \* gSecondaryPeStack, 0 for NULL
          cpus        \* the PEs that are on

pevars == <<pm, Entry, pe_info, gMpidrMax, pe_stack, cpus>>

-----------------------------------------------------------------------------
(* pal_pe_create_info_table.                                               *)
UPDATE_AFF_MAX(src, dest) == IF dest > src THEN dest ELSE src

\* Bare metal copies a list that has nothing but PEs.
AddPe ==
  /\ Entry <= Len(pm.madt)
  /\ Entry' = Entry + 1
  /\ IF pm.madt[Entry] = NoGicc THEN UNCHANGED <<pe_info, gMpidrMax>>
     ELSE /\ pe_info' = Append(pe_info, pm.madt[Entry])
          /\ gMpidrMax' = [k \in 1 .. 4 |-> UPDATE_AFF_MAX(gMpidrMax[k], pm.madt[Entry][k])]
  /\ UNCHANGED <<pm, pe_stack, cpus>>

\* The number of places an MPIDR up to the greatest one can have.
NumPe == (gMpidrMax[1] + 1) * (gMpidrMax[2] + 1) * (gMpidrMax[3] + 1) * (gMpidrMax[4] + 1)

StackPadding == IF pm.uefi THEN CPU_STACK_ALIGNMENT ELSE 0

\* The size is a 32 bit number of bytes.
Width          == 536870912
AllocationSize == (NumPe * SIZE_STACK_SECONDARY_PE + StackPadding) % Width

\* UEFI keeps the address of the pool's buffer in front of the aligned one.
PalAllocateSecondaryStack ==
  /\ Entry > Len(pm.madt) /\ pe_stack = 0 /\ (pm.uefi \/ pe_info # <<>>)
  /\ pe_stack' = IF ~pm.uefi THEN pm.buffer
                 ELSE IF pm.buffer % 2 = 1 THEN pm.buffer + 1 ELSE pm.buffer + 2
  /\ UNCHANGED <<pm, Entry, pe_info, gMpidrMax, cpus>>

-----------------------------------------------------------------------------
(* A PE is switched on, finds its stack and its slot, and is switched off. *)
val_pe_get_num == Len(pe_info)
val_pe_get_mpid_index(index) == pe_info[index + 1]

\* Index 0 "as a safe failsafe value".
val_pe_get_index_mpid(mpid) ==
  LET hits == {i \in 1 .. val_pe_get_num : pe_info[i] = mpid}
  IN  IF hits = {} THEN 0 ELSE (CHOOSE i \in hits : \A j \in hits : i <= j) - 1

val_execute_on_pe(index) ==
  /\ pe_stack # 0 /\ \A c \in cpus : c.index # index
  /\ cpus' = cpus \cup {[index |-> index, mpid |-> val_pe_get_mpid_index(index), at |-> "entry", sp |-> 0, slot |-> 0]}
  /\ UNCHANGED <<pm, Entry, pe_info, gMpidrMax, pe_stack>>

\* Mutant: the products are taken of the greatest affinities themselves.
CorePosShort(mpid) ==
  LET x5 == gMpidrMax[1] + 1
      x6 == x5 * gMpidrMax[2]
      x7 == x6 * (gMpidrMax[3] + 1)
  IN  mpid[1] + mpid[2] * x5 + mpid[3] * x6 + mpid[4] * x7

CorePos(mpid) ==
  LET x5 == gMpidrMax[1] + 1
      x6 == x5 * (gMpidrMax[2] + 1)
      x7 == x6 * (gMpidrMax[3] + 1)
  IN  mpid[1] + mpid[2] * x5 + mpid[3] * x6 + mpid[4] * x7

Goes(c, new) == cpus' = (cpus \ {c}) \cup {new} /\ UNCHANGED <<pm, Entry, pe_info, gMpidrMax, pe_stack>>

ModuleEntryPoint(c) ==
  /\ c.at = "entry"
  /\ Goes(c, [c EXCEPT !.at = "stack", !.sp = pe_stack + SIZE_STACK_SECONDARY_PE * CorePos(c.mpid)])

val_test_entry(c) ==
  /\ c.at = "stack"
  /\ Goes(c, [c EXCEPT !.at = "payload", !.slot = val_pe_get_index_mpid(c.mpid)])

PSCI_CPU_OFF(c) ==
  /\ c.at = "payload"
  /\ cpus' = cpus \ {c} /\ UNCHANGED <<pm, Entry, pe_info, gMpidrMax, pe_stack>>

-----------------------------------------------------------------------------
PeInit ==
  /\ pm \in PeMachines /\ Entry = 1 /\ pe_info = <<>> /\ gMpidrMax = [k \in 1 .. 4 |-> 0]
  /\ pe_stack = 0 /\ cpus = {}

PeNext ==
  \/ AddPe \/ PalAllocateSecondaryStack
  \/ \E index \in 0 .. val_pe_get_num - 1 : val_execute_on_pe(index)
  \/ \E c \in cpus : ModuleEntryPoint(c) \/ val_test_entry(c) \/ PSCI_CPU_OFF(c)

PeSpec == PeInit /\ [][PeNext]_pevars

-----------------------------------------------------------------------------
StacksFit == NumPe * SIZE_STACK_SECONDARY_PE + StackPadding < Width
OnStack == {c \in cpus : c.at # "entry"}

\* However the affinities of the PEs are numbered, the stacks of PEs that are on
\* at the same time do not meet, and they lie in what PalAllocateSecondaryStack
\* allocated if its size fits the width of the request, except for the PE with
\* affinities zero: its stack grows down from the start of it. Every PE runs the
\* payload that was meant for it.
StacksApart ==
  /\ \A c, d \in OnStack : c # d => \/ c.sp + SIZE_STACK_SECONDARY_PE <= d.sp
                                    \/ d.sp + SIZE_STACK_SECONDARY_PE <= c.sp
  /\ StacksFit => \A c \in OnStack :
                        \/ \A k \in 1 .. 4 : c.mpid[k] = 0
                        \/ /\ pm.buffer <= c.sp - SIZE_STACK_SECONDARY_PE
                           /\ c.sp <= pm.buffer + AllocationSize
  /\ \A c \in cpus : c.at = "payload" => c.slot = c.index
=============================================================================
