---------------------------- MODULE SuiteProofs -----------------------------
(***************************************************************************)
(* The secondary PEs: for every table of distinct MPIDRs their stacks are  *)
(* apart. And the sequence of tests across resets, for every list of tests *)
(* with the suite's reset tests in it, every choice of the user's, any     *)
(* number of hangs and of runs: what a flag in the non-volatile memory     *)
(* says of the tests that were run, and that no boot goes back behind it.  *)
(***************************************************************************)
EXTENDS RmeSuite, PeTable, TLAPS

-----------------------------------------------------------------------------
(* The stacks of the secondary PEs.                                        *)

\* A digit in front moves a number on by the whole radix.
LEMMA Digit ==
  ASSUME NEW p \in Nat, NEW q \in Nat, NEW r \in Nat, p < q
  PROVE  p * r + r <= q * r
<1>1. PICK d \in Nat : q = p + 1 + d
  <2>1. q - p - 1 \in Nat /\ q = p + 1 + (q - p - 1)  OBVIOUS
  <2> QED  BY <2>1
<1>2. q * r = p * r + r + d * r  BY <1>1
<1>3. d * r \in Nat /\ p * r \in Nat  OBVIOUS
<1> QED  BY <1>2, <1>3

\* A number has one way of being written in a radix.
LEMMA Radix ==
  ASSUME NEW a \in Nat, NEW b \in Nat, NEW p \in Nat, NEW q \in Nat, NEW r \in Nat,
         a < r, b < r, a + p * r = b + q * r
  PROVE  a = b /\ p = q
<1>0. p * r \in Nat /\ q * r \in Nat  OBVIOUS
<1>1. ~(p < q)
  <2> SUFFICES ASSUME p < q PROVE FALSE  OBVIOUS
  <2>1. p * r + r <= q * r  BY Digit
  <2> QED  BY <2>1, <1>0
<1>2. ~(q < p)
  <2> SUFFICES ASSUME q < p PROVE FALSE  OBVIOUS
  <2>1. q * r + r <= p * r  BY Digit
  <2> QED  BY <2>1, <1>0
<1>3. p = q  BY <1>1, <1>2
<1> QED  BY <1>0, <1>3

\* A number whose leading part is below n has less than n * r values.
LEMMA Below ==
  ASSUME NEW a \in Nat, NEW p \in Nat, NEW n \in Nat, NEW r \in Nat, a < r, p < n
  PROVE  a + p * r < n * r
<1>1. p * r + r <= n * r  BY Digit
<1>2. p * r \in Nat /\ n * r \in Nat  OBVIOUS
<1> QED  BY <1>1, <1>2

\* The four numbers of an MPIDR as the digits of CorePos.
Horner(m, x) == m[1] + (m[2] + (m[3] + m[4] * (x[3] + 1)) * (x[2] + 1)) * (x[1] + 1)

\* What ModuleEntryPoint computes with products is the number with those digits.
LEMMA Digits ==
  ASSUME gMpidrMax \in Affinity, NEW m \in Affinity
  PROVE  CorePos(m) = Horner(m, gMpidrMax)
<1>1. /\ m[1] \in Nat /\ m[2] \in Nat /\ m[3] \in Nat /\ m[4] \in Nat
      /\ gMpidrMax[1] \in Nat /\ gMpidrMax[2] \in Nat /\ gMpidrMax[3] \in Nat
  BY DEF Affinity
<1> DEFINE r == gMpidrMax[1] + 1
           s == gMpidrMax[2] + 1
           t == gMpidrMax[3] + 1
<1>2. \A a, b, c, d, u, v, w \in Nat :
        a + b * u + c * (u * v) + d * ((u * v) * w) = a + (b + (c + d * w) * v) * u
  OBVIOUS
<1>3. r \in Nat /\ s \in Nat /\ t \in Nat  BY <1>1
<1>4. m[1] + m[2] * r + m[3] * (r * s) + m[4] * ((r * s) * t)
        = m[1] + (m[2] + (m[3] + m[4] * t) * s) * r
  <2> HIDE DEF r, s, t
  <2> QED  BY <1>1, <1>2, <1>3
<1> QED  BY <1>4 DEF CorePos, Horner

Within(m) == \A e \in 1 .. 4 : m[e] <= gMpidrMax[e]

\* Two PEs have one position only if they have the same affinities.
LEMMA OnePlaceEach ==
  ASSUME gMpidrMax \in Affinity, NEW m \in Affinity, NEW n \in Affinity,
         Within(m), Within(n), CorePos(m) = CorePos(n)
  PROVE  m = n
<1>1. Horner(m, gMpidrMax) = Horner(n, gMpidrMax)  BY Digits
<1>2. /\ \A e \in 1 .. 4 : m[e] \in Nat /\ n[e] \in Nat /\ gMpidrMax[e] \in Nat
      /\ \A e \in 1 .. 4 : m[e] < gMpidrMax[e] + 1 /\ n[e] < gMpidrMax[e] + 1
  BY DEF Affinity, Within
<1> DEFINE r == gMpidrMax[1] + 1
           s == gMpidrMax[2] + 1
           t == gMpidrMax[3] + 1
           Two(x)   == x[3] + x[4] * t
           Three(x) == x[2] + Two(x) * s
<1>3. r \in Nat /\ s \in Nat /\ t \in Nat  BY <1>2
<1>4. Two(m) \in Nat /\ Two(n) \in Nat  BY <1>2, <1>3
<1>5. Three(m) \in Nat /\ Three(n) \in Nat
  <2> HIDE DEF Two, s
  <2> QED  BY <1>2, <1>3, <1>4
<1>6. m[1] + Three(m) * r = n[1] + Three(n) * r  BY <1>1 DEF Horner
<1>7. m[1] < r /\ n[1] < r /\ m[2] < s /\ n[2] < s /\ m[3] < t /\ n[3] < t  BY <1>2
<1>8. m[1] = n[1] /\ Three(m) = Three(n)
  <2> HIDE DEF Three, r
  <2> QED  BY <1>2, <1>3, <1>5, <1>6, <1>7, Radix
<1>9. m[2] = n[2] /\ Two(m) = Two(n)
  <2>1. m[2] + Two(m) * s = n[2] + Two(n) * s  BY <1>8
  <2>2. m[2] \in Nat /\ n[2] \in Nat  BY <1>2
  <2>3. m[2] < s /\ n[2] < s /\ s \in Nat  BY <1>7, <1>3
  <2>4. PICK p \in Nat : p = Two(m)  BY <1>4
  <2>5. PICK q \in Nat : q = Two(n)  BY <1>4
  <2>6. m[2] + p * s = n[2] + q * s  BY <2>1, <2>4, <2>5
  <2> HIDE DEF Two, s
  <2>7. m[2] = n[2] /\ p = q  BY <2>2, <2>3, <2>6, Radix
  <2> QED  BY <2>4, <2>5, <2>7
<1>10. m[3] = n[3] /\ m[4] = n[4]
  <2>1. m[3] + m[4] * t = n[3] + n[4] * t  BY <1>9
  <2> HIDE DEF t
  <2> QED  BY <1>2, <1>3, <1>7, <2>1, Radix
<1> QED  BY <1>8, <1>9, <1>10 DEF Affinity

\* Every position is one of those there is a stack for.
LEMMA PlaceForEach ==
  ASSUME gMpidrMax \in Affinity, NEW m \in Affinity, Within(m)
  PROVE  /\ CorePos(m) \in Nat /\ NumPe \in Nat /\ CorePos(m) < NumPe
         /\ CorePos(m) = 0 => \A e \in 1 .. 4 : m[e] = 0
<1>1. /\ \A e \in 1 .. 4 : m[e] \in Nat /\ gMpidrMax[e] \in Nat
      /\ \A e \in 1 .. 4 : m[e] < gMpidrMax[e] + 1
  BY DEF Affinity, Within
<1> DEFINE r == gMpidrMax[1] + 1
           s == gMpidrMax[2] + 1
           t == gMpidrMax[3] + 1
           u == gMpidrMax[4] + 1
           two   == m[3] + m[4] * t
           three == m[2] + two * s
           four  == m[1] + three * r
<1>2. /\ r \in Nat /\ s \in Nat /\ t \in Nat /\ u \in Nat
      /\ r > 0 /\ s > 0 /\ t > 0
      /\ m[1] < r /\ m[2] < s /\ m[3] < t /\ m[4] < u
  BY <1>1
<1>3. CorePos(m) = four  BY Digits DEF Horner
<1>4. NumPe = ((u * t) * s) * r
  <2>1. NumPe = r * s * t * u  BY DEF NumPe
  <2>2. \A a, b, c, d \in Nat : a * b * c * d = ((d * c) * b) * a  OBVIOUS
  <2> HIDE DEF r, s, t, u
  <2> QED  BY <1>2, <2>1, <2>2
<1>5. two \in Nat /\ two < u * t /\ u * t \in Nat
  <2> HIDE DEF t, u
  <2> QED  BY <1>1, <1>2, Below
<1>6. three \in Nat /\ three < (u * t) * s /\ (u * t) * s \in Nat
  <2> DEFINE v == u * t
  <2>1. v \in Nat /\ two < v  BY <1>5
  <2> HIDE DEF two, s, v
  <2>2. three \in Nat /\ three < v * s /\ v * s \in Nat  BY <1>1, <1>2, <1>5, <2>1, Below
  <2> QED  BY <2>2 DEF v
<1>7. four \in Nat /\ four < ((u * t) * s) * r /\ ((u * t) * s) * r \in Nat
  <2> DEFINE v == (u * t) * s
  <2>1. v \in Nat /\ three < v  BY <1>6
  <2> HIDE DEF three, r, v
  <2>2. four \in Nat /\ four < v * r /\ v * r \in Nat  BY <1>1, <1>2, <1>6, <2>1, Below
  <2> QED  BY <2>2 DEF v
<1>8. CorePos(m) = 0 => \A e \in 1 .. 4 : m[e] = 0
  <2>0. \A a, b, c \in Nat : c > 0 /\ a + b * c = 0 => a = 0 /\ b = 0
    <3>1. SUFFICES ASSUME NEW a \in Nat, NEW b \in Nat, NEW c \in Nat, c > 0, a + b * c = 0
                   PROVE  a = 0 /\ b = 0
      OBVIOUS
    <3>2. 0 < b => 0 * c + c <= b * c  BY Digit
    <3>3. b * c \in Nat  OBVIOUS
    <3> QED  BY <3>1, <3>2, <3>3
  <2> SUFFICES ASSUME CorePos(m) = 0 PROVE \A e \in 1 .. 4 : m[e] = 0  OBVIOUS
  <2>1. m[1] = 0 /\ three = 0
    <3> HIDE DEF three, r
    <3> QED  BY <2>0, <1>1, <1>2, <1>3, <1>6
  <2>2. m[2] = 0 /\ two = 0
    <3> HIDE DEF two, s
    <3> QED  BY <2>0, <2>1, <1>1, <1>2, <1>5
  <2>3. m[3] = 0 /\ m[4] = 0
    <3>1. m[3] + m[4] * t = 0  BY <2>2
    <3>2. m[3] \in Nat /\ m[4] \in Nat /\ t \in Nat /\ t > 0  BY <1>1, <1>2
    <3> HIDE DEF t
    <3> QED  BY Zenon, <2>0, <3>1, <3>2
  <2> QED  BY <2>1, <2>2, <2>3
<1> QED  BY <1>3, <1>4, <1>5, <1>6, <1>7, <1>8

-----------------------------------------------------------------------------
Cpu == [index : Nat, mpid : Affinity, at : {"entry", "stack", "payload"}, sp : Nat, slot : Nat]

TableInv ==
  /\ pm \in PeMachines /\ Entry \in Nat \ {0}
  /\ pe_info \in Seq(Affinity) /\ gMpidrMax \in Affinity /\ pe_stack \in Nat
  /\ \A i \in 1 .. Len(pe_info) :
       Within(pe_info[i]) /\ \E e \in 1 .. Len(pm.madt) : e < Entry /\ pe_info[i] = pm.madt[e]
  /\ \A i, j \in 1 .. Len(pe_info) : pe_info[i] = pe_info[j] => i = j

StackInv ==
  pe_stack # 0 => /\ Entry > Len(pm.madt)
                  /\ pm.buffer <= pe_stack /\ pe_stack <= pm.buffer + StackPadding

CpuInv ==
  /\ cpus \subseteq Cpu /\ (cpus # {} => pe_stack # 0)
  /\ \A c, d \in cpus : c.index = d.index => c = d
  /\ \A c \in cpus : /\ c.index + 1 \in 1 .. Len(pe_info) /\ c.mpid = pe_info[c.index + 1]
                     /\ c.at # "entry" => c.sp = pe_stack + SIZE_STACK_SECONDARY_PE * CorePos(c.mpid)
                     /\ c.at = "payload" => c.slot = c.index

PeInv == TableInv /\ StackInv /\ CpuInv

\* The table of distinct MPIDRs finds every PE it has.
LEMMA Found ==
  ASSUME TableInv, NEW i \in 1 .. Len(pe_info)
  PROVE  val_pe_get_index_mpid(pe_info[i]) = i - 1
<1> DEFINE hits == {e \in 1 .. val_pe_get_num : pe_info[e] = pe_info[i]}
<1>1. hits = {i}  BY DEF TableInv, val_pe_get_num
<1>2. i \in Int  OBVIOUS
<1> HIDE DEF hits
<1>3. (CHOOSE e \in hits : \A j \in hits : e <= j) = i  BY <1>1, <1>2
<1>4. val_pe_get_index_mpid(pe_info[i])
        = IF hits = {} THEN 0 ELSE (CHOOSE e \in hits : \A j \in hits : e <= j) - 1
  BY DEF val_pe_get_index_mpid, hits
<1> QED  BY <1>1, <1>3, <1>4

\* An entry of the table keeps it one of distinct MPIDRs within the greatest.
LEMMA AddPeKeeps ==
  ASSUME PeInv, AddPe
  PROVE  PeInv'
<1> USE DEF AddPe
<1>0. TableInv /\ StackInv /\ CpuInv  BY DEF PeInv
<1>1. pe_stack = 0 /\ cpus = {}
  BY <1>0, PeAssumption DEF StackInv, CpuInv, TableInv
<1>2. StackInv' /\ CpuInv'  BY <1>1 DEF StackInv, CpuInv
<1>3. TableInv'
  <2>0. pm \in PeMachines /\ Entry \in 1 .. Len(pm.madt) /\ pe_info \in Seq(Affinity) /\ gMpidrMax \in Affinity
    BY <1>0, PeAssumption DEF TableInv
  <2>1. CASE pm.madt[Entry] = NoGicc
    BY <1>0, <2>0, <2>1 DEF TableInv, Within
  <2>2. CASE pm.madt[Entry] # NoGicc
    <3> DEFINE m == pm.madt[Entry]
    <3>1. m \in Affinity  BY <2>0, <2>2, PeAssumption
    <3>10. /\ pe_info' = Append(pe_info, m)
          /\ gMpidrMax' = [e \in 1 .. 4 |-> UPDATE_AFF_MAX(gMpidrMax[e], m[e])]
      BY <2>2
    <3> HIDE DEF m, AddPe
    <3>2. Len(pe_info') = Len(pe_info) + 1 /\ pe_info' \in Seq(Affinity)
      BY <2>0, <3>10, <3>1
    <3>11. \A e \in 1 .. 4 : gMpidrMax[e] \in Nat /\ m[e] \in Nat  BY <2>0, <3>1 DEF Affinity
    <3>12. \A x, y \in Nat : /\ UPDATE_AFF_MAX(x, y) \in Nat
                           /\ x <= UPDATE_AFF_MAX(x, y) /\ y <= UPDATE_AFF_MAX(x, y)
      BY DEF UPDATE_AFF_MAX
    <3>3. /\ gMpidrMax' \in Affinity
          /\ \A e \in 1 .. 4 : gMpidrMax[e] <= gMpidrMax'[e] /\ m[e] <= gMpidrMax'[e]
      BY Zenon, <3>10, <3>11, <3>12 DEF Affinity
    <3>4. /\ \A i \in 1 .. Len(pe_info) : pe_info'[i] = pe_info[i]
          /\ pe_info'[Len(pe_info) + 1] = m
      BY <2>0, <3>1, <3>10
    <3> USE DEF AddPe
    <3>5. ASSUME NEW i \in 1 .. Len(pe_info')
          PROVE  /\ Within(pe_info[i])'
                 /\ \E e \in 1 .. Len(pm.madt) : e < Entry' /\ pe_info'[i] = pm.madt[e]
      <4>1. CASE i \in 1 .. Len(pe_info)
        <5>1. Within(pe_info[i]) /\ pe_info[i] \in Affinity  BY <1>0, <2>0, <4>1 DEF TableInv
        <5>9. ASSUME NEW e \in 1 .. 4 PROVE pe_info'[i][e] <= gMpidrMax'[e]
          <6>1. pe_info'[i][e] = pe_info[i][e]  BY <3>4, <4>1
          <6>2. pe_info[i][e] <= gMpidrMax[e] /\ gMpidrMax[e] <= gMpidrMax'[e]
            BY <5>1, <3>3 DEF Within
          <6>3. pe_info[i][e] \in Nat /\ gMpidrMax[e] \in Nat /\ gMpidrMax'[e] \in Nat
            BY Zenon, <5>1, <3>3, <2>0 DEF Affinity
          <6> HIDE DEF AddPe
          <6> QED  BY <6>1, <6>2, <6>3
        <5>2. Within(pe_info[i])'  BY <5>9 DEF Within
        <5>3. PICK e \in 1 .. Len(pm.madt) : e < Entry /\ pe_info[i] = pm.madt[e]
          BY Zenon, <1>0, <4>1 DEF TableInv
        <5>4. e < Entry'  BY <5>3, <2>0
        <5> QED  BY Zenon, <5>2, <5>3, <5>4, <3>4, <4>1
      <4>2. CASE i = Len(pe_info) + 1
        <5>1. Within(pe_info[i])'  BY <3>3, <3>4, <4>2 DEF Within
        <5>2. Entry < Entry' /\ pe_info'[i] = pm.madt[Entry]  BY <2>0, <3>4, <4>2 DEF m
        <5> QED  BY <5>1, <5>2, <2>0
      <4> QED  BY <4>1, <4>2, <3>2, <2>0
    <3>6. \A i \in 1 .. Len(pe_info) : pe_info[i] # m
      <4> SUFFICES ASSUME NEW i \in 1 .. Len(pe_info), pe_info[i] = m PROVE FALSE  OBVIOUS
      <4>1. PICK e \in 1 .. Len(pm.madt) : e < Entry /\ pe_info[i] = pm.madt[e]
        BY Zenon, <1>0 DEF TableInv
      <4>2. e = Entry  BY Zenon, <4>1, <2>0, <2>2, PeAssumption DEF m
      <4> QED  BY <4>1, <4>2, <2>0
    <3>7. ASSUME NEW i \in 1 .. Len(pe_info'), NEW j \in 1 .. Len(pe_info'), pe_info'[i] = pe_info'[j]
          PROVE  i = j
      <4> HIDE DEF AddPe
      <4>0. \A n \in 1 .. Len(pe_info') : n \in 1 .. Len(pe_info) \/ n = Len(pe_info) + 1
        BY <2>0, <3>2
      <4>1. \A n, l \in 1 .. Len(pe_info) : pe_info[n] = pe_info[l] => n = l
        BY <1>0 DEF TableInv
      <4>2. CASE i \in 1 .. Len(pe_info) /\ j \in 1 .. Len(pe_info)
        BY <3>7, <3>4, <4>1, <4>2
      <4>3. CASE i \in 1 .. Len(pe_info) /\ j = Len(pe_info) + 1
        BY <3>7, <3>4, <3>6, <4>3
      <4>4. CASE i = Len(pe_info) + 1 /\ j \in 1 .. Len(pe_info)
        BY <3>7, <3>4, <3>6, <4>4
      <4> QED  BY <4>0, <4>2, <4>3, <4>4
    <3>8. pm' \in PeMachines /\ Entry' \in Nat \ {0} /\ pe_stack' \in Nat
      BY <1>0, <2>0 DEF TableInv
    <3> QED  BY Zenon, <3>2, <3>3, <3>5, <3>7, <3>8 DEF TableInv
  <2> QED  BY <2>1, <2>2
<1> QED  BY <1>2, <1>3 DEF PeInv

\* What a PE does changes no more than its own entry among those that are on.
LEMMA CpuKeeps ==
  ASSUME PeInv, NEW c \in cpus, ModuleEntryPoint(c) \/ val_test_entry(c) \/ PSCI_CPU_OFF(c)
  PROVE  PeInv'
<1>0. TableInv /\ StackInv /\ CpuInv  BY DEF PeInv
<1>1. UNCHANGED <<pm, Entry, pe_info, gMpidrMax, pe_stack>>
  BY DEF ModuleEntryPoint, val_test_entry, PSCI_CPU_OFF, Goes
<1>2. TableInv' /\ StackInv'
  BY <1>0, <1>1 DEF TableInv, StackInv, Within, StackPadding
<1>3. /\ c \in Cpu /\ c.index + 1 \in 1 .. Len(pe_info) /\ c.mpid = pe_info[c.index + 1] /\ pe_stack # 0
      /\ c.mpid \in Affinity /\ Within(c.mpid) /\ gMpidrMax \in Affinity /\ pe_stack \in Nat
  BY <1>0 DEF CpuInv, TableInv, Cpu
<1>4. \A m : CorePos(m)' = CorePos(m)  BY <1>1 DEF CorePos
<1>5. ASSUME NEW d \in Cpu, d.index = c.index, d.mpid = c.mpid, cpus' = (cpus \ {c}) \cup {d},
             d.at # "entry" => d.sp = pe_stack + SIZE_STACK_SECONDARY_PE * CorePos(d.mpid),
             d.at = "payload" => d.slot = d.index
      PROVE  CpuInv'
  <2>1. cpus' \subseteq Cpu /\ pe_stack' # 0  BY <1>0, <1>1, <1>3, <1>5 DEF CpuInv
  <2>2. \A x, y \in cpus' : x.index = y.index => x = y  BY <1>0, <1>5 DEF CpuInv
  <2>3. ASSUME NEW x \in cpus'
        PROVE  /\ x.index + 1 \in 1 .. Len(pe_info) /\ x.mpid = pe_info[x.index + 1]
               /\ x.at # "entry" => x.sp = pe_stack + SIZE_STACK_SECONDARY_PE * CorePos(x.mpid)
               /\ x.at = "payload" => x.slot = x.index
    <3>1. CASE x = d  BY <3>1, <1>3, <1>5
    <3>2. CASE x \in cpus  BY <3>2, <1>0 DEF CpuInv
    <3> QED  BY <3>1, <3>2, <1>5
  <2> QED  BY <2>1, <2>2, <2>3, <1>1, <1>4 DEF CpuInv
<1>6. CpuInv'
  <2>1. CASE ModuleEntryPoint(c)
    <3> DEFINE sp == pe_stack + SIZE_STACK_SECONDARY_PE * CorePos(c.mpid)
               d  == [c EXCEPT !.at = "stack", !.sp = sp]
    <3>1. CorePos(c.mpid) \in Nat  BY <1>3, PlaceForEach
    <3>2. sp \in Nat  BY <1>3, <3>1 DEF SIZE_STACK_SECONDARY_PE
    <3>3. cpus' = (cpus \ {c}) \cup {d}  BY <2>1 DEF ModuleEntryPoint, Goes
    <3> HIDE DEF sp
    <3>4. d \in Cpu /\ d.index = c.index /\ d.mpid = c.mpid /\ d.at = "stack" /\ d.sp = sp
      BY Zenon, <1>3, <3>2 DEF Cpu
    <3> HIDE DEF d
    <3> QED  BY <1>5, <3>3, <3>4 DEF sp
  <2>2. CASE val_test_entry(c)
    <3> DEFINE slot == val_pe_get_index_mpid(c.mpid)
               d    == [c EXCEPT !.at = "payload", !.slot = slot]
    <3>1. slot = c.index
      <4>1. PICK i \in 1 .. Len(pe_info) : i = c.index + 1  BY <1>3
      <4>2. val_pe_get_index_mpid(pe_info[i]) = i - 1  BY <1>0, Found
      <4>3. c.index \in Nat  BY <1>3 DEF Cpu
      <4> QED  BY <4>1, <4>2, <4>3, <1>3
    <3>2. cpus' = (cpus \ {c}) \cup {d} /\ c.at = "stack"  BY <2>2 DEF val_test_entry, Goes
    <3>3. c.sp = pe_stack + SIZE_STACK_SECONDARY_PE * CorePos(c.mpid)
      <4>1. c.at # "entry"  BY <3>2
      <4> QED  BY <1>0, <4>1 DEF CpuInv
    <3> HIDE DEF slot
    <3>4. /\ d \in Cpu /\ d.index = c.index /\ d.mpid = c.mpid /\ d.at = "payload"
          /\ d.sp = c.sp /\ d.slot = c.index
      BY Zenon, <1>3, <3>1 DEF Cpu
    <3> HIDE DEF d
    <3> QED  BY <1>5, <3>2, <3>3, <3>4
  <2>3. CASE PSCI_CPU_OFF(c)
    <3>1. cpus' = cpus \ {c}  BY <2>3 DEF PSCI_CPU_OFF
    <3> QED  BY <3>1, <1>0, <1>1, <1>4 DEF CpuInv
  <2> QED  BY <2>1, <2>2, <2>3
<1> QED  BY <1>2, <1>6 DEF PeInv

\* The stacks are allocated once, and a PE that is switched on is one of the table.
LEMMA StartKeeps ==
  ASSUME PeInv,
         PalAllocateSecondaryStack \/ \E index \in 0 .. val_pe_get_num - 1 : val_execute_on_pe(index)
  PROVE  PeInv'
<1>0. TableInv /\ StackInv /\ CpuInv  BY DEF PeInv
<1>1. CASE PalAllocateSecondaryStack
  <2>1. UNCHANGED <<pm, Entry, pe_info, gMpidrMax, cpus>> /\ pe_stack = 0 /\ Entry > Len(pm.madt)
    BY <1>1 DEF PalAllocateSecondaryStack
  <2>2. cpus = {}  BY <1>0, <2>1 DEF CpuInv
  <2>3. pm.buffer \in Nat /\ pm \in PeMachines  BY <1>0, PeAssumption DEF TableInv
  <2>4. pe_stack' \in Nat /\ pm.buffer <= pe_stack' /\ pe_stack' <= pm.buffer + StackPadding
    BY <1>1, <2>3 DEF PalAllocateSecondaryStack, StackPadding, CPU_STACK_ALIGNMENT
  <2>5. StackPadding' = StackPadding  BY <2>1 DEF StackPadding
  <2>6. StackInv'  BY <2>1, <2>4, <2>5 DEF StackInv
  <2>7. TableInv'  BY <1>0, <2>1, <2>4 DEF TableInv, Within
  <2>8. CpuInv'  BY <2>1, <2>2 DEF CpuInv
  <2> QED  BY <2>6, <2>7, <2>8 DEF PeInv
<1>2. ASSUME NEW index \in 0 .. val_pe_get_num - 1, val_execute_on_pe(index)
      PROVE  PeInv'
  <2>1. UNCHANGED <<pm, Entry, pe_info, gMpidrMax, pe_stack>> /\ pe_stack # 0
    BY <1>2 DEF val_execute_on_pe
  <2>2. TableInv' /\ StackInv'  BY <1>0, <2>1 DEF TableInv, StackInv, Within, StackPadding
  <2>3. pe_info \in Seq(Affinity) /\ index \in Nat /\ index + 1 \in 1 .. Len(pe_info)
    BY <1>0 DEF TableInv, val_pe_get_num
  <2> DEFINE d == [index |-> index, mpid |-> pe_info[index + 1], at |-> "entry", sp |-> 0, slot |-> 0]
  <2>4. d \in Cpu  BY <2>3 DEF Cpu
  <2>5. cpus' = cpus \cup {d} /\ \A c \in cpus : c.index # index
    BY <1>2 DEF val_execute_on_pe, val_pe_get_mpid_index
  <2>6. d.index = index /\ d.mpid = pe_info[index + 1] /\ d.at = "entry"  OBVIOUS
  <2>7. \A m : CorePos(m)' = CorePos(m)  BY <2>1 DEF CorePos
  <2> HIDE DEF d
  <2>8. \A x, y \in cpus' : x.index = y.index => x = y  BY <1>0, <2>5, <2>6 DEF CpuInv
  <2>9. ASSUME NEW x \in cpus'
        PROVE  /\ x.index + 1 \in 1 .. Len(pe_info) /\ x.mpid = pe_info[x.index + 1]
               /\ x.at # "entry" => x.sp = pe_stack + SIZE_STACK_SECONDARY_PE * CorePos(x.mpid)
               /\ x.at = "payload" => x.slot = x.index
    <3>1. CASE x = d  BY <3>1, <2>3, <2>6
    <3>2. CASE x \in cpus  BY <3>2, <1>0 DEF CpuInv
    <3> QED  BY <3>1, <3>2, <2>5
  <2>10. cpus' \subseteq Cpu  BY <1>0, <2>4, <2>5 DEF CpuInv
  <2>11. CpuInv'  BY <2>1, <2>7, <2>8, <2>9, <2>10 DEF CpuInv
  <2> QED  BY <2>2, <2>11 DEF PeInv
<1> QED  BY <1>1, <1>2

\* The invariant says enough: positions are apart and within those allocated.
LEMMA InvImpliesApart ==
  ASSUME PeInv
  PROVE  StacksApart
<1>0. TableInv /\ StackInv /\ CpuInv  BY DEF PeInv
<1>1. ASSUME NEW c \in OnStack
      PROVE  /\ c \in cpus /\ c.mpid \in Affinity /\ Within(c.mpid) /\ pe_stack # 0
             /\ c.sp = pe_stack + SIZE_STACK_SECONDARY_PE * CorePos(c.mpid)
             /\ CorePos(c.mpid) \in Nat /\ NumPe \in Nat /\ CorePos(c.mpid) < NumPe
             /\ CorePos(c.mpid) = 0 => \A e \in 1 .. 4 : c.mpid[e] = 0
  <2>1. c \in cpus /\ c.at # "entry"  BY DEF OnStack
  <2>2. c.mpid \in Affinity /\ Within(c.mpid)  BY <1>0, <2>1 DEF CpuInv, TableInv, Cpu
  <2>3. c.sp = pe_stack + SIZE_STACK_SECONDARY_PE * CorePos(c.mpid) /\ pe_stack # 0
    BY <1>0, <2>1 DEF CpuInv
  <2>4. gMpidrMax \in Affinity  BY <1>0 DEF TableInv
  <2> QED  BY <2>1, <2>2, <2>3, <2>4, PlaceForEach
<1>2. pe_stack \in Nat /\ gMpidrMax \in Affinity /\ pm \in PeMachines  BY <1>0 DEF TableInv
<1>3. ASSUME NEW c \in OnStack, NEW d \in OnStack, c # d
      PROVE  \/ c.sp + SIZE_STACK_SECONDARY_PE <= d.sp
             \/ d.sp + SIZE_STACK_SECONDARY_PE <= c.sp
  <2>1. c \in cpus /\ d \in cpus  BY <1>1
  <2>2. c.index # d.index  BY <1>0, <1>3, <2>1 DEF CpuInv
  <2>3. c.mpid # d.mpid
    <3>1. /\ c.index + 1 \in 1 .. Len(pe_info) /\ c.mpid = pe_info[c.index + 1]
          /\ d.index + 1 \in 1 .. Len(pe_info) /\ d.mpid = pe_info[d.index + 1]
          /\ c.index \in Nat /\ d.index \in Nat
      BY <1>0, <2>1 DEF CpuInv, Cpu
    <3>2. c.index + 1 # d.index + 1  BY <2>2, <3>1
    <3> QED  BY <1>0, <3>1, <3>2 DEF TableInv
  <2>4. CorePos(c.mpid) # CorePos(d.mpid)  BY <1>1, <1>2, <2>3, OnePlaceEach
  <2>5. CorePos(c.mpid) \in Nat /\ CorePos(d.mpid) \in Nat  BY <1>1
  <2>6. /\ c.sp = pe_stack + SIZE_STACK_SECONDARY_PE * CorePos(c.mpid)
        /\ d.sp = pe_stack + SIZE_STACK_SECONDARY_PE * CorePos(d.mpid)
    BY <1>1
  <2>7. \A b, p, q \in Nat : p # q => \/ (b + 32 * p) + 32 <= b + 32 * q
                                      \/ (b + 32 * q) + 32 <= b + 32 * p
    OBVIOUS
  <2> QED  BY Zenon, <1>2, <2>4, <2>5, <2>6, <2>7 DEF SIZE_STACK_SECONDARY_PE
<1>4. ASSUME StacksFit, NEW c \in OnStack, ~(\A e \in 1 .. 4 : c.mpid[e] = 0)
      PROVE  /\ pm.buffer <= c.sp - SIZE_STACK_SECONDARY_PE
             /\ c.sp <= pm.buffer + AllocationSize
  <2>1. /\ c.sp = pe_stack + SIZE_STACK_SECONDARY_PE * CorePos(c.mpid) /\ CorePos(c.mpid) # 0
        /\ CorePos(c.mpid) \in Nat /\ NumPe \in Nat /\ CorePos(c.mpid) < NumPe
    BY <1>1, <1>4
  <2>2. /\ pm.buffer \in Nat /\ StackPadding \in Nat /\ pm.buffer <= pe_stack
        /\ pe_stack <= pm.buffer + StackPadding
    <3>1. pm.buffer \in Nat  BY <1>2, PeAssumption
    <3>2. StackPadding \in Nat  BY DEF StackPadding, CPU_STACK_ALIGNMENT
    <3> QED  BY <3>1, <3>2, <1>0, <1>1 DEF StackInv
  <2>3. AllocationSize = NumPe * SIZE_STACK_SECONDARY_PE + StackPadding
    BY <1>4, <2>1, <2>2 DEF StacksFit, AllocationSize, Width, SIZE_STACK_SECONDARY_PE
  <2>4. \A b, w, q, p, n \in Nat :
          b <= q /\ q <= b + w /\ p # 0 /\ p < n =>
            b <= (q + 32 * p) - 32 /\ q + 32 * p <= b + (n * 32 + w)
    OBVIOUS
  <2> QED  BY <1>2, <2>1, <2>2, <2>3, <2>4 DEF SIZE_STACK_SECONDARY_PE
<1>5. \A c \in cpus : c.at = "payload" => c.slot = c.index  BY <1>0 DEF CpuInv
<1> QED  BY <1>3, <1>4, <1>5 DEF StacksApart

\* For every table of distinct MPIDRs, however sparse, and in whatever order the PEs are
\* switched on and off, the stacks that ModuleEntryPoint takes from what
\* PalAllocateSecondaryStack allocated are apart and within it, and val_test_entry finds the
\* payload of the PE it runs on.
THEOREM SecondariesApart == PeSpec => []StacksApart
<1>1. PeInit => PeInv
  <2> SUFFICES ASSUME PeInit PROVE PeInv  OBVIOUS
  <2> USE DEF PeInit
  <2>1. TableInv  BY DEF TableInv, Affinity
  <2>2. StackInv /\ CpuInv  BY DEF StackInv, CpuInv
  <2> QED  BY <2>1, <2>2 DEF PeInv
<1>2. PeInv /\ [PeNext]_pevars => PeInv'
  <2> SUFFICES ASSUME PeInv, [PeNext]_pevars PROVE PeInv'  OBVIOUS
  <2>1. CASE PeNext  BY <2>1, AddPeKeeps, StartKeeps, CpuKeeps DEF PeNext
  <2>2. CASE UNCHANGED pevars
    BY <2>2 DEF pevars, PeInv, TableInv, StackInv, CpuInv, Within, StackPadding, CorePos
  <2> QED  BY <2>1, <2>2
<1> QED  BY <1>1, <1>2, InvImpliesApart, PTL DEF PeSpec

-----------------------------------------------------------------------------
(* The sequence of tests across resets.                                    *)

\* The modules that came before.
Earlier == [rme |-> {}, legacy |-> {"rme"}, gic |-> {"rme", "legacy"},
            smmu |-> {"rme", "legacy", "gic"}, da |-> {"rme", "legacy", "gic", "smmu"},
            end |-> {"rme", "legacy", "gic", "smmu", "da"}]

\* The modules that must have run all their tests at the end of a first run.
DaRuns == ~LegacyTz /\ 32 \notin SkipTests
Chosen == {m \in Modules \ SkipModules : (m = "legacy" => LegacyTz) /\ (m = "da" => DaRuns)}

\* The calls of m before the n-th have been made, but for the first half of a
\* reset test whose second half is the n-th.
Ran(m, n) == \A i \in 1 .. n - 1 : \/ hist[Calls[m][i]] # "NONE"
                                   \/ Calls[m][i] = flag /\ n = Resume(m, flag)

Full(m) == \A i \in 1 .. Len(Calls[m]) : hist[Calls[m][i]] # "NONE"

-----------------------------------------------------------------------------
(* The parts of the inductive invariant.                                   *)

TypeInv ==
  /\ sc \in Scenarios /\ mod \in Modules \cup {"end"}
  /\ k \in Nat /\ (mod \in Modules => k <= Len(Calls[mod]) + 1)
  /\ flag \in {NoFlag, LsDisblFlag} \cup ResetTests
  /\ run \in Nat \ {0}
  /\ hist \in [Tests -> Outcomes \cup {"NONE"}]

\* A module that has been entered is one the user wants, and the RME module is
\* not before the place its flag stands for.
PlaceInv ==
  /\ mod \in Modules /\ k > 0 => mod \notin SkipModules /\ (mod = "legacy" => LegacyTz)
  /\ mod = "rme" /\ k > 0 => k >= Rank(flag)

\* A flag was written by a test that asked for a reset.
ArmedInv ==
  run = 1 => /\ flag \in ResetTests => flag \in armed
             /\ \A t \in ResetTests \cap Tests : hist[t] = "PASS" => t \in armed

\* Which flags a first run can have, and that the last RME test with a reset
\* has replaced those of the others once the module is behind it.
FlagInv ==
  run = 1 =>
    /\ flag \in {LsDisblFlag, LsTest3} => LegacyTz
    /\ flag \in RmeResets => "rme" \notin SkipModules
    /\ 32 \notin SkipTests /\ (mod \in {"legacy", "gic", "smmu", "da"} \/ (mod = "rme" /\ k >= Resume("rme", 32)))
         => flag \notin RmeResets \ {32}

\* What has been run: the calls of the module before k, the modules before it,
\* and what the flag stands for.
RanInv ==
  run = 1 /\ ~aborted =>
    /\ mod \in Chosen /\ k > 0 => Ran(mod, k)
    /\ \A m \in Earlier[mod] \cap Chosen : Full(m)
    /\ flag \in RmeResets => Ran("rme", Resume("rme", flag))
    /\ flag \in {LsDisblFlag, LsTest3} /\ "rme" \in Chosen => Full("rme")
    /\ flag = LsTest3 => Ran("legacy", 4)
    /\ flag = LsDisblFlag => Ran("legacy", 5)

IInv == TypeInv /\ PlaceInv /\ ArmedInv /\ FlagInv /\ RanInv

-----------------------------------------------------------------------------
(* The lists of tests.                                                     *)
LEMMA AtFour ==
  ASSUME NEW r, r = 4, NEW n, n = 5, NEW j \in {3, 4}
  PROVE  r \in 2 .. n /\ j \in {r - 1, r}
OBVIOUS

LEMMA UpTo == \A n \in Nat : 1 .. (n + 1) - 1 = 1 .. n
OBVIOUS

LEMMA CallsFacts ==
  /\ Modules = {"rme", "legacy", "gic", "smmu", "da"}
  /\ Calls["rme"] = RmeCalls /\ Calls["legacy"] = LegacyCalls /\ Calls["gic"] = <<201>>
  /\ Calls["smmu"] = <<401, 402>> /\ Calls["da"] = DaCalls
  /\ After["rme"] = "legacy" /\ After["legacy"] = "gic" /\ After["gic"] = "smmu"
  /\ After["smmu"] = "da" /\ After["da"] = "end"
BY DEF Modules, Calls, After

LEMMA EarlierFacts ==
  /\ Earlier["rme"] = {} /\ Earlier["end"] = Earlier["da"] \cup {"da"}
  /\ Earlier["legacy"] = Earlier["rme"] \cup {"rme"} /\ Earlier["gic"] = Earlier["legacy"] \cup {"legacy"}
  /\ Earlier["smmu"] = Earlier["gic"] \cup {"gic"} /\ Earlier["da"] = Earlier["smmu"] \cup {"smmu"}
  /\ "rme" \in Earlier["legacy"]
BY DEF Earlier

LEMMA EntryFacts ==
  /\ EntryOf("rme") = val_rme_execute_tests /\ EntryOf("legacy") = val_legacy_execute_tests
  /\ EntryOf("da") = val_rme_da_execute_tests /\ EntryOf("gic") = 1 /\ EntryOf("smmu") = 1
BY DEF EntryOf

LEMMA LegacyFacts ==
  /\ Len(LegacyCalls) = 5 /\ DOMAIN LegacyCalls = 1 .. 5
  /\ \A i \in 1 .. 5 : LegacyCalls[i] \in 501 .. 504 /\ (LegacyCalls[i] = LsTest3 <=> i \in {3, 4})
  /\ Resume("legacy", LsTest3) = 4
<1>1. /\ Len(LegacyCalls) = 5 /\ DOMAIN LegacyCalls = 1 .. 5
      /\ LegacyCalls[1] = 501 /\ LegacyCalls[2] = 502 /\ LegacyCalls[3] = 503 /\ LegacyCalls[4] = 503
      /\ LegacyCalls[5] = 504
  BY DEF LegacyCalls
<1>2. \A i \in 1 .. 5 : LegacyCalls[i] \in 501 .. 504 /\ (LegacyCalls[i] = LsTest3 <=> i \in {3, 4})
  BY <1>1 DEF LsTest3
<1>3. \A i : (i \in 1 .. 5 /\ LegacyCalls[i] = LsTest3 /\ i > 1 /\ LegacyCalls[i - 1] = LsTest3) <=> i = 4
  BY <1>1 DEF LsTest3
<1>4. Resume("legacy", LsTest3) = 4
  BY <1>1, <1>3, CallsFacts DEF Resume
<1> QED  BY <1>1, <1>2, <1>4

\* A reset test is at two places of the list, one behind the other, and its
\* second half is where the module resumes.
LEMMA RmeFacts ==
  ASSUME sc \in Scenarios, NEW t \in RmeResets
  PROVE  /\ Resume("rme", t) \in 2 .. Len(RmeCalls)
         /\ \A j \in 1 .. Len(RmeCalls) : RmeCalls[j] = t <=> j \in {Resume("rme", t) - 1, Resume("rme", t)}
<1>1. RmeCalls \in Seq(1 .. 32) /\ DOMAIN RmeCalls = 1 .. Len(RmeCalls) /\ Len(RmeCalls) \in Nat
  BY SuiteAssumption DEF RmeCalls
<1>2. PICK i \in 1 .. Len(RmeCalls) - 1 : \A j \in 1 .. Len(RmeCalls) : RmeCalls[j] = t <=> j \in {i, i + 1}
  BY <1>1, SuiteAssumption DEF RmeCalls
<1>3. i + 1 \in 1 .. Len(RmeCalls) /\ RmeCalls[i + 1] = t /\ i + 1 > 1 /\ RmeCalls[(i + 1) - 1] = t
  BY <1>1, <1>2
<1>4. ASSUME NEW j \in 1 .. Len(RmeCalls), RmeCalls[j] = t, j > 1, RmeCalls[j - 1] = t PROVE j = i + 1
  <2>1. j - 1 \in 1 .. Len(RmeCalls)  BY <1>1, <1>4
  <2> QED  BY <1>1, <1>2, <1>4, <2>1
<1>5. Resume("rme", t) = CHOOSE j \in 1 .. Len(RmeCalls) : RmeCalls[j] = t /\ j > 1 /\ RmeCalls[j - 1] = t
  BY <1>1, CallsFacts DEF Resume
<1>6. Resume("rme", t) = i + 1  BY <1>3, <1>4, <1>5
<1> QED  BY <1>1, <1>2, <1>6

\* rme032 is behind the others.
LEMMA LastReset ==
  ASSUME sc \in Scenarios, NEW t \in RmeResets \ {32}
  PROVE  Resume("rme", t) < Resume("rme", 32) - 1
<1>1. 32 \in RmeResets /\ t \in RmeResets  BY DEF RmeResets
<1>2. /\ Resume("rme", t) \in 1 .. Len(RmeCalls) /\ RmeCalls[Resume("rme", t)] = t
      /\ Resume("rme", 32) - 1 \in 1 .. Len(RmeCalls) /\ RmeCalls[Resume("rme", 32) - 1] = 32
  BY <1>1, RmeFacts
<1>3. DOMAIN RmeCalls = 1 .. Len(RmeCalls)
  BY SuiteAssumption DEF RmeCalls
<1> QED  BY <1>2, <1>3, SuiteAssumption DEF RmeCalls

-----------------------------------------------------------------------------
(* The kinds of step.                                                      *)

\* A call comes back with an outcome.
Finishes ==
  /\ Calling /\ k' = k + 1
  /\ \E o \in Outcomes :
       /\ hist' = [hist EXCEPT ![This] = o]
       /\ This \in ResetTests /\ o = "PASS" => flag = This
       /\ This \in SkipTests => o = "SKIP"
  /\ This = 32 => 32 \in SkipTests \/ flag = This
  /\ This \in RmeResets /\ PEsAnswer => This \in SkipTests \/ flag = This
  /\ UNCHANGED <<mod, flag, run, armed, aborted>>

\* A test writes its flag, and the machine is reset.
WritesFlag ==
  /\ Calling /\ This \in ResetTests \ SkipTests /\ flag # This
  /\ flag' = This /\ armed' = armed \cup {This} /\ mod' = "rme" /\ k' = 0
  /\ UNCHANGED <<run, hist, aborted>>

\* The legacy module writes its flag, and the machine is reset.
WritesTieOff ==
  /\ TieOffNext /\ flag' = LsDisblFlag /\ mod' = "rme" /\ k' = 0
  /\ UNCHANGED <<run, hist, armed, aborted>>

\* The machine is reset with the memory as it is.
Restarts ==
  /\ mod' = "rme" /\ k' = 0
  /\ UNCHANGED <<flag, run, hist, armed, aborted>>

\* A module is entered, or left behind.
Enters ==
  /\ mod \in Modules \ SkipModules /\ k = 0 /\ (mod = "legacy" => LegacyTz)
  /\ k' = EntryOf(mod)
  /\ UNCHANGED <<mod, flag, run, hist, armed, aborted>>

Leaves ==
  /\ mod \in Modules /\ mod' = After[mod] /\ k' = 0
  /\ k = Len(Calls[mod]) + 1 \/ (k = 0 /\ (mod \in SkipModules \/ (mod = "legacy" /\ ~LegacyTz)))
  /\ UNCHANGED <<flag, run, hist, armed, aborted>>

Aborts ==
  /\ mod' = "end" /\ k' = 0 /\ aborted' = TRUE
  /\ UNCHANGED <<flag, run, hist, armed>>

RunsAgain ==
  /\ run' = run + 1 /\ hist' = [t \in Tests |-> "NONE"] /\ mod' = "rme" /\ k' = 0
  /\ UNCHANGED flag

Idles == UNCHANGED <<mod, k, flag, run, hist, armed, aborted>>

\* Every step is of one of these kinds, and leaves the scenario alone.
LEMMA StepKinds ==
  ASSUME [Next]_vars
  PROVE  /\ sc' = sc
         /\ \/ Finishes \/ WritesFlag \/ WritesTieOff \/ Restarts \/ Enters \/ Leaves
            \/ Aborts \/ RunsAgain \/ Idles
<1>1. sc' = sc  BY DEF Next, Step, Stopped, vars
<1>2. CASE Enter  BY <1>1, <1>2 DEF Enter, Enters, nvm, history
<1>3. CASE SkipModule  BY <1>1, <1>3 DEF SkipModule, Leaves, nvm, history
<1>4. CASE Return  BY <1>1, <1>4 DEF Return, Leaves, nvm, history
<1>5. CASE SkippedTest
  BY <1>1, <1>5 DEF SkippedTest, Finish, Finishes, nvm, history, Outcomes
<1>6. CASE OrdinaryTest
  BY Zenon, <1>1, <1>6 DEF OrdinaryTest, Finish, Finishes, nvm, history, ResetTests, RmeResets
<1>7. CASE GiveUp
  BY <1>1, <1>7 DEF GiveUp, Finish, Finishes, nvm, history, Outcomes
<1>8. CASE ResumeTest
  BY Zenon, <1>1, <1>8 DEF ResumeTest, Finish, Finishes, nvm, history, Outcomes
<1>9. CASE ArmReset  BY <1>1, <1>9 DEF ArmReset, WritesFlag, Boot
<1>10. CASE CutShort  BY <1>1, <1>10 DEF CutShort, WritesFlag, Boot, ResetTests
<1>11. CASE DisableTieOff  BY <1>1, <1>11 DEF DisableTieOff, WritesTieOff, Boot, history
<1>12. CASE Hang  BY <1>1, <1>12 DEF Hang, Restarts, Boot, nvm
<1>13. CASE UnexpectedException  BY <1>1, <1>13 DEF UnexpectedException, Aborts, nvm
<1>14. CASE Rerun  BY <1>1, <1>14 DEF Rerun, RunsAgain, Boot, nvm
<1>15. CASE Stopped \/ UNCHANGED vars
  BY <1>1, <1>15 DEF Stopped, vars, nvm, history, Idles
<1> QED
  BY <1>1, <1>2, <1>3, <1>4, <1>5, <1>6, <1>7, <1>8, <1>9, <1>10, <1>11, <1>12, <1>13, <1>14, <1>15
     DEF Next, Step

\* What depends on the scenario alone does not change.
LEMMA SameScenario ==
  ASSUME sc' = sc
  PROVE  /\ Calls' = Calls /\ Modules' = Modules /\ Tests' = Tests /\ Chosen' = Chosen
         /\ RmeCalls' = RmeCalls /\ DaCalls' = DaCalls
         /\ SkipModules' = SkipModules /\ SkipTests' = SkipTests /\ LegacyTz' = LegacyTz
         /\ \A m, t : Resume(m, t)' = Resume(m, t)
BY DEF Calls, Modules, Tests, Chosen, DaRuns, RmeCalls, DaCalls, SkipModules, SkipTests, LegacyTz, Resume

\* The lists are sequences, and their members are the tests.
LEMMA ListFacts ==
  ASSUME sc \in Scenarios, NEW m \in Modules
  PROVE  /\ Len(Calls[m]) \in Nat /\ DOMAIN Calls[m] = 1 .. Len(Calls[m])
         /\ \A i \in 1 .. Len(Calls[m]) : Calls[m][i] \in Tests
<1>1. RmeCalls \in Seq(1 .. 32) /\ DaCalls \in Seq(601 .. 620) /\ LegacyCalls \in Seq(Nat)
  BY SuiteAssumption DEF RmeCalls, DaCalls, LegacyCalls
<1>2. Len(Calls[m]) \in Nat /\ DOMAIN Calls[m] = 1 .. Len(Calls[m])
  BY <1>1, CallsFacts
<1>3. \A i \in 1 .. Len(Calls[m]) : Calls[m][i] \in Tests
  BY <1>2 DEF Tests
<1> QED  BY <1>2, <1>3

LEMMA ElementOf ==
  ASSUME NEW S, NEW q \in Seq(S), NEW i \in 1 .. Len(q)
  PROVE  q[i] \in S
OBVIOUS

\* The reset tests are in the RME module, but for ls003, and no test has the
\* number of a flag that is not a test's.
LEMMA WhereResets ==
  ASSUME sc \in Scenarios, NEW m \in Modules, NEW i \in 1 .. Len(Calls[m])
  PROVE  /\ Calls[m][i] \in RmeResets => m = "rme"
         /\ Calls[m][i] = LsTest3 => m = "legacy"
         /\ Calls[m][i] \notin {NoFlag, LsDisblFlag}
<1>1. RmeCalls \in Seq(1 .. 32) /\ DaCalls \in Seq(601 .. 620)
  BY SuiteAssumption DEF RmeCalls, DaCalls
<1>2. CASE m = "rme"
  <2>1. Calls[m] = RmeCalls  BY <1>2, CallsFacts
  <2>2. i \in 1 .. Len(RmeCalls)  BY <2>1
  <2>3. RmeCalls[i] \in 1 .. 32  BY <1>1, <2>2, ElementOf
  <2>4. \A v \in 1 .. 32 : v \notin {LsTest3, NoFlag, LsDisblFlag}
    BY DEF RmeResets, LsTest3, NoFlag, LsDisblFlag
  <2> QED  BY Zenon, <1>2, <2>1, <2>3, <2>4
<1>3. CASE m = "legacy"
  <2>1. Calls[m][i] \in 501 .. 504  BY <1>3, CallsFacts, LegacyFacts
  <2>2. \A v \in 501 .. 504 : v \notin RmeResets \cup {NoFlag, LsDisblFlag}
    BY DEF RmeResets, LsTest3, NoFlag, LsDisblFlag
  <2> QED  BY <1>3, <2>1, <2>2
<1>4. CASE m = "gic"
  <2>1. i = 1 /\ Calls[m][i] = 201  BY <1>4, CallsFacts
  <2> QED  BY <2>1 DEF RmeResets, LsTest3, NoFlag, LsDisblFlag
<1>5. CASE m = "smmu"
  <2>1. i \in {1, 2} /\ Calls[m][i] \in {401, 402}  BY <1>5, CallsFacts
  <2> QED  BY <2>1 DEF RmeResets, LsTest3, NoFlag, LsDisblFlag
<1>6. CASE m = "da"
  <2>1. Calls[m] = DaCalls  BY <1>6, CallsFacts
  <2>2. i \in 1 .. Len(DaCalls)  BY <2>1
  <2>3. DaCalls[i] \in 601 .. 620  BY <1>1, <2>2, ElementOf
  <2>4. \A v \in 601 .. 620 : v \notin RmeResets /\ v # LsTest3 /\ v \notin {NoFlag, LsDisblFlag}
    BY DEF RmeResets, LsTest3, NoFlag, LsDisblFlag
  <2>5. PICK v \in 601 .. 620 : v = Calls[m][i]  BY <2>1, <2>3
  <2>6. v \notin RmeResets /\ v # LsTest3 /\ v \notin {NoFlag, LsDisblFlag}  BY ZenonT(30), <2>4
  <2> QED  BY <2>5, <2>6
<1> QED  BY <1>2, <1>3, <1>4, <1>5, <1>6, CallsFacts

-----------------------------------------------------------------------------
(* Types and places.                                                       *)

\* A module is entered at one of its calls or behind the last, and the RME module
\* not before the place the flag stands for.
LEMMA EntryRange ==
  ASSUME TypeInv, NEW m \in Modules
  PROVE  EntryOf(m) \in 1 .. Len(Calls[m]) + 1
<1>1. Len(Calls[m]) \in Nat  BY ListFacts DEF TypeInv
<1>2. CASE m = "rme"
  <2>1. flag \in RmeResets => Resume("rme", flag) \in 2 .. Len(RmeCalls)  BY RmeFacts DEF TypeInv
  <2> QED  BY <1>1, <1>2, <2>1, CallsFacts, EntryFacts DEF val_rme_execute_tests
<1>3. CASE m = "legacy"
  BY <1>3, CallsFacts, EntryFacts, LegacyFacts DEF val_legacy_execute_tests
<1>4. CASE m = "da"
  BY <1>1, <1>4, CallsFacts, EntryFacts DEF val_rme_da_execute_tests
<1>5. CASE m \in {"gic", "smmu"}
  BY <1>1, <1>5, EntryFacts
<1> QED  BY <1>2, <1>3, <1>4, <1>5, CallsFacts

LEMMA RankFacts ==
  ASSUME TypeInv
  PROVE  Rank(flag) \in Nat /\ EntryOf("rme") >= Rank(flag) /\ Rank(flag) <= Len(RmeCalls)
<1>1. Len(RmeCalls) \in Nat  BY ListFacts, CallsFacts DEF TypeInv
<1>2. flag \in RmeResets => Resume("rme", flag) \in 2 .. Len(RmeCalls)  BY RmeFacts DEF TypeInv
<1>3. CASE flag \in RmeResets
  BY <1>1, <1>2, <1>3, EntryFacts DEF Rank, val_rme_execute_tests, RmeResets, NoFlag
<1>4. CASE flag = NoFlag
  BY <1>1, <1>4, EntryFacts DEF Rank, val_rme_execute_tests, RmeResets, NoFlag, LsDisblFlag, LsTest3
<1>5. CASE flag \in {LsDisblFlag, LsTest3}
  BY <1>1, <1>5, EntryFacts DEF Rank, val_rme_execute_tests, RmeResets, NoFlag, LsDisblFlag, LsTest3
<1> QED  BY <1>3, <1>4, <1>5 DEF TypeInv, ResetTests

LEMMA TypeStep ==
  ASSUME TypeInv, [Next]_vars
  PROVE  TypeInv'
<1>1. sc' = sc /\ sc' \in Scenarios  BY StepKinds DEF TypeInv
<1>2. Calls' = Calls /\ Modules' = Modules /\ Tests' = Tests  BY <1>1, SameScenario
<1>3. \A m \in Modules : Len(Calls[m]) \in Nat /\ DOMAIN Calls[m] = 1 .. Len(Calls[m])
  BY ListFacts DEF TypeInv
<1>4. "rme" \in Modules  BY CallsFacts
<1>5. CASE Finishes
  <2>1. mod \in Modules /\ k \in 1 .. Len(Calls[mod]) /\ k' = k + 1 /\ mod' = mod
    BY <1>3, <1>5 DEF Finishes, Calling
  <2>2. k' \in Nat /\ k' <= Len(Calls[mod]) + 1  BY <1>3, <2>1
  <2>3. This \in Tests  BY <2>1, ListFacts DEF TypeInv, This
  <2>4. hist' \in [Tests -> Outcomes \cup {"NONE"}]  BY <1>5, <2>3 DEF Finishes, TypeInv
  <2>5. flag' = flag /\ run' = run  BY <1>5 DEF Finishes
  <2> QED  BY <1>1, <1>2, <2>1, <2>2, <2>4, <2>5 DEF TypeInv, NoFlag, LsDisblFlag, ResetTests, RmeResets, LsTest3
<1>6. CASE WritesFlag
  BY <1>1, <1>2, <1>3, <1>4, <1>6 DEF TypeInv, WritesFlag, ResetTests, RmeResets, LsTest3, NoFlag, LsDisblFlag
<1>7. CASE WritesTieOff \/ Restarts
  BY <1>1, <1>2, <1>3, <1>4, <1>7 DEF TypeInv, WritesTieOff, Restarts, ResetTests, RmeResets, LsTest3, NoFlag, LsDisblFlag
<1>8. CASE Enters
  <2>1. k' \in 1 .. Len(Calls[mod]) + 1  BY <1>8, EntryRange DEF Enters
  <2> QED  BY <1>1, <1>2, <1>3, <1>8, <2>1 DEF TypeInv, Enters, ResetTests, RmeResets, LsTest3, NoFlag, LsDisblFlag
<1>9. CASE Leaves
  <2>1. After[mod] \in Modules \cup {"end"}  BY <1>9, CallsFacts DEF Leaves
  <2> QED  BY <1>1, <1>2, <1>3, <1>9, <2>1 DEF TypeInv, Leaves, ResetTests, RmeResets, LsTest3, NoFlag, LsDisblFlag
<1>10. CASE Aborts
  BY <1>1, <1>2, <1>3, <1>10 DEF TypeInv, Aborts, ResetTests, RmeResets, LsTest3, NoFlag, LsDisblFlag
<1>11. CASE RunsAgain
  BY <1>1, <1>2, <1>3, <1>4, <1>11 DEF TypeInv, RunsAgain, ResetTests, RmeResets, LsTest3, NoFlag, LsDisblFlag
<1>12. CASE Idles
  BY <1>1, <1>2, <1>12 DEF TypeInv, Idles, ResetTests, RmeResets, LsTest3, NoFlag, LsDisblFlag
<1> QED
  BY <1>5, <1>6, <1>7, <1>8, <1>9, <1>10, <1>11, <1>12, StepKinds

LEMMA PlaceStep ==
  ASSUME TypeInv, PlaceInv, [Next]_vars
  PROVE  PlaceInv'
<1>1. sc' = sc  BY StepKinds
<1>2. SkipModules' = SkipModules /\ LegacyTz' = LegacyTz /\ Modules' = Modules
  BY <1>1, SameScenario
<1>3. CASE k' = 0  BY <1>3 DEF PlaceInv
<1>4. CASE Finishes \/ Enters \/ Idles
  <2>1. flag' = flag /\ mod' = mod  BY <1>4 DEF Finishes, Enters, Idles
  <2>2. Rank(flag)' = Rank(flag) /\ Rank(flag) \in Nat
    BY <1>1, <2>1, RankFacts, SameScenario DEF Rank
  <2>3. mod \in Modules /\ k' > 0 => mod \notin SkipModules /\ (mod = "legacy" => LegacyTz)
    BY <1>4, ListFacts DEF Finishes, Enters, Idles, PlaceInv, Calling, TypeInv
  <2>4. mod = "rme" /\ k' > 0 => k' >= Rank(flag)
    <3>1. CASE Finishes
      <4>1. mod \in Modules /\ k \in 1 .. Len(Calls[mod]) /\ k' = k + 1
        BY <3>1, ListFacts DEF Finishes, Calling, TypeInv
      <4>2. Len(Calls[mod]) \in Nat  BY <4>1, ListFacts DEF TypeInv
      <4> QED  BY <2>2, <4>1, <4>2 DEF PlaceInv
    <3>2. CASE Enters  BY <3>2, RankFacts DEF Enters
    <3>3. CASE Idles  BY <3>3 DEF Idles, PlaceInv
    <3> QED  BY <1>4, <3>1, <3>2, <3>3
  <2> QED  BY <1>2, <2>1, <2>2, <2>3, <2>4 DEF PlaceInv
<1> QED
  BY Zenon, <1>3, <1>4, StepKinds DEF WritesFlag, WritesTieOff, Restarts, Leaves, Aborts, RunsAgain

LEMMA ArmedStep ==
  ASSUME TypeInv, ArmedInv, [Next]_vars
  PROVE  ArmedInv'
<1>1. sc' = sc  BY StepKinds
<1>2. Tests' = Tests  BY <1>1, SameScenario
<1>3. SUFFICES ASSUME run' = 1
               PROVE  /\ flag' \in ResetTests => flag' \in armed'
                      /\ \A t \in ResetTests \cap Tests : hist'[t] = "PASS" => t \in armed'
  BY <1>2 DEF ArmedInv
<1>4. CASE RunsAgain  BY <1>3, <1>4 DEF RunsAgain, TypeInv
<1>5. CASE Finishes
  <2>1. run = 1 /\ flag' = flag /\ armed' = armed  BY <1>3, <1>5 DEF Finishes
  <2>2. ASSUME NEW t \in ResetTests \cap Tests, hist'[t] = "PASS" PROVE t \in armed
    <3>1. CASE t = This
      <4>1. flag = This  BY <1>5, <2>2, <3>1 DEF Finishes, TypeInv
      <4> QED  BY <2>1, <2>2, <3>1, <4>1 DEF ArmedInv
    <3>2. CASE t # This
      <4>1. hist'[t] = hist[t]  BY <1>5, <2>2, <3>2 DEF Finishes, TypeInv
      <4> QED  BY <2>1, <2>2, <4>1 DEF ArmedInv
    <3> QED  BY <3>1, <3>2
  <2> QED  BY <2>1, <2>2 DEF ArmedInv
<1>6. CASE WritesFlag  BY <1>3, <1>6 DEF WritesFlag, ArmedInv
<1>7. CASE WritesTieOff
  BY <1>3, <1>7 DEF WritesTieOff, ArmedInv, ResetTests, RmeResets, LsTest3, LsDisblFlag
<1>8. CASE Restarts \/ Enters \/ Leaves \/ Aborts \/ Idles
  BY <1>3, <1>8 DEF Restarts, Enters, Leaves, Aborts, Idles, ArmedInv
<1> QED  BY <1>4, <1>5, <1>6, <1>7, <1>8, StepKinds

-----------------------------------------------------------------------------
(* The flags.                                                              *)
LEMMA FlagStep ==
  ASSUME TypeInv, PlaceInv, FlagInv, [Next]_vars
  PROVE  FlagInv'
<1>1. sc' = sc /\ sc \in Scenarios  BY StepKinds DEF TypeInv
<1>2. /\ SkipModules' = SkipModules /\ SkipTests' = SkipTests /\ LegacyTz' = LegacyTz
      /\ Resume("rme", 32)' = Resume("rme", 32)
  BY <1>1, SameScenario
<1> DEFINE Behind(m, n) == m \in {"legacy", "gic", "smmu", "da"} \/ (m = "rme" /\ n >= Resume("rme", 32))
<1>3. SUFFICES ASSUME run' = 1
               PROVE  /\ flag' \in {LsDisblFlag, LsTest3} => LegacyTz
                      /\ flag' \in RmeResets => "rme" \notin SkipModules
                      /\ 32 \notin SkipTests /\ Behind(mod', k') => flag' \notin RmeResets \ {32}
  BY <1>2 DEF FlagInv
<1>4. 32 \in RmeResets /\ Resume("rme", 32) \in 2 .. Len(RmeCalls) /\ Len(RmeCalls) \in Nat
  <2>1. 32 \in RmeResets  BY DEF RmeResets
  <2> QED  BY <1>1, <2>1, RmeFacts, ListFacts, CallsFacts
<1>5. ~Behind("rme", 0) /\ ~Behind("end", 0)  BY <1>4
<1>6. CASE RunsAgain  BY <1>3, <1>6 DEF RunsAgain, TypeInv
<1>7. CASE WritesFlag
  <2>1. mod \in Modules /\ k \in 1 .. Len(Calls[mod]) /\ flag' = Calls[mod][k] /\ flag' \in ResetTests /\ mod' = "rme" /\ k' = 0
    BY <1>1, <1>7, ListFacts DEF WritesFlag, Calling, This
  <2>2. k > 0  BY <2>1
  <2>3. flag' # LsDisblFlag  BY <2>1 DEF ResetTests, RmeResets, LsTest3, LsDisblFlag
  <2>4. /\ flag' = LsTest3 => mod = "legacy"
        /\ flag' \in RmeResets => mod = "rme"
    BY <1>1, <2>1, WhereResets
  <2> QED  BY <1>5, <2>1, <2>2, <2>3, <2>4 DEF PlaceInv
<1>8. CASE WritesTieOff
  <2>1. mod = "legacy" /\ k = 5 /\ flag' = LsDisblFlag  BY <1>8, LegacyFacts DEF WritesTieOff, TieOffNext
  <2>2. LegacyTz  BY <2>1, CallsFacts DEF PlaceInv
  <2> QED  BY <2>1, <2>2 DEF RmeResets, LsDisblFlag
<1>9. CASE Restarts \/ Aborts \/ Idles
  BY <1>3, <1>5, <1>9 DEF Restarts, Aborts, Idles, FlagInv
<1>10. CASE Finishes
  <2>1. /\ mod \in Modules /\ k \in 1 .. Len(Calls[mod]) /\ k' = k + 1 /\ mod' = mod /\ flag' = flag /\ run = 1
        /\ Calls[mod][k] = 32 => 32 \in SkipTests \/ flag = 32
    BY <1>1, <1>3, <1>10, ListFacts DEF Finishes, Calling, This
  <2>2. CASE mod = "rme" /\ k = Resume("rme", 32) - 1
    <3>1. Calls[mod][k] = 32  BY <1>1, <1>4, <2>2, RmeFacts, CallsFacts
    <3> QED  BY <2>1, <3>1 DEF FlagInv
  <2>3. CASE ~(mod = "rme" /\ k = Resume("rme", 32) - 1)
    <3>1. Behind(mod', k') => Behind(mod, k)  BY <1>4, <2>1, <2>3
    <3> QED  BY <2>1, <3>1 DEF FlagInv
  <2> QED  BY <2>2, <2>3
<1>11. CASE Enters
  <2>1. mod' = mod /\ flag' = flag /\ run = 1 /\ k' = EntryOf(mod)  BY <1>3, <1>11 DEF Enters
  <2>2. CASE mod = "rme" /\ flag \in RmeResets \ {32}
    <3>1. k' = Resume("rme", flag)  BY <2>1, <2>2, EntryFacts DEF val_rme_execute_tests
    <3>2. Resume("rme", flag) < Resume("rme", 32) - 1  BY <1>1, <2>2, LastReset
    <3>3. Resume("rme", flag) \in 2 .. Len(RmeCalls)  BY <1>1, <2>2, RmeFacts
    <3>4. ~Behind(mod', k')  BY <1>4, <2>1, <2>2, <3>1, <3>2, <3>3
    <3> QED  BY <2>1, <3>4 DEF FlagInv
  <2>3. CASE mod # "rme"
    BY <2>1, <2>3 DEF FlagInv
  <2>4. CASE flag \notin RmeResets \ {32}
    BY <2>1, <2>4 DEF FlagInv
  <2> QED  BY <2>2, <2>3, <2>4
<1>12. CASE Leaves
  <2>1. mod \in Modules /\ flag' = flag /\ run = 1  BY <1>3, <1>12 DEF Leaves
  <2>2. CASE mod # "rme"
    BY <2>1, <2>2, CallsFacts DEF FlagInv
  <2>3. CASE mod = "rme" /\ k = Len(Calls[mod]) + 1
    <3>1. Behind(mod, k)  BY <1>4, <2>3, CallsFacts
    <3> QED  BY <2>1, <3>1 DEF FlagInv
  <2>4. CASE mod = "rme" /\ "rme" \in SkipModules
    BY <2>1, <2>4 DEF FlagInv
  <2> QED  BY <1>12, <2>2, <2>3, <2>4 DEF Leaves
<1> QED  BY <1>6, <1>7, <1>8, <1>9, <1>10, <1>11, <1>12, StepKinds

-----------------------------------------------------------------------------
(* What has been run.                                                      *)

\* A flag that is a test of the module stands for one of its calls.
LEMMA ResumeIn ==
  ASSUME TypeInv, NEW m \in Modules, NEW i \in 1 .. Len(Calls[m]), Calls[m][i] = flag
  PROVE  /\ Resume(m, flag) \in 1 .. Len(Calls[m]) /\ Calls[m][Resume(m, flag)] = flag
         /\ m = "legacy" => Resume(m, flag) = 4
<1>1. sc \in Scenarios  BY DEF TypeInv
<1>2. flag \in ResetTests  BY <1>1, WhereResets DEF TypeInv
<1>3. CASE flag \in RmeResets
  <2>1. m = "rme"  BY <1>1, <1>3, WhereResets
  <2>2. Len(RmeCalls) \in Nat  BY <1>1, ListFacts, CallsFacts
  <2> QED  BY <1>1, <1>3, <2>1, <2>2, RmeFacts, CallsFacts
<1>4. CASE flag = LsTest3
  <2>1. m = "legacy"  BY <1>1, <1>4, WhereResets
  <2>2. Calls[m] = LegacyCalls /\ Resume(m, flag) = 4  BY <1>4, <2>1, LegacyFacts, CallsFacts
  <2>3. LegacyCalls[4] = LsTest3 /\ Len(LegacyCalls) = 5  BY LegacyFacts
  <2> QED  BY <1>4, <2>2, <2>3
<1> QED  BY Zenon, <1>2, <1>3, <1>4 DEF ResetTests

\* Behind the last call, everything has been run.
LEMMA RanAll ==
  ASSUME TypeInv, NEW m \in Modules
  PROVE  Ran(m, Len(Calls[m]) + 1) <=> Full(m)
<1>1. Len(Calls[m]) \in Nat  BY ListFacts DEF TypeInv
<1>2. \A i \in 1 .. Len(Calls[m]) : Calls[m][i] = flag => Resume(m, flag) # Len(Calls[m]) + 1
  BY <1>1, ResumeIn
<1>3. 1 .. (Len(Calls[m]) + 1) - 1 = 1 .. Len(Calls[m])  BY <1>1
<1> QED  BY <1>2, <1>3 DEF Ran, Full

\* The outcomes a step keeps, with the flag.
LEMMA RanKeeps ==
  ASSUME sc' = sc, sc \in Scenarios, flag' = flag, NEW m \in Modules,
         \A i \in 1 .. Len(Calls[m]) : hist[Calls[m][i]] # "NONE" => hist'[Calls[m][i]] # "NONE"
  PROVE  /\ \A n \in 1 .. Len(Calls[m]) + 1 : Ran(m, n) => Ran(m, n)'
         /\ Full(m) => Full(m)'
<1>1. Calls' = Calls /\ (\A x, t : Resume(x, t)' = Resume(x, t))  BY SameScenario
<1>2. Len(Calls[m]) \in Nat  BY ListFacts
<1>3. ASSUME NEW n \in 1 .. Len(Calls[m]) + 1, Ran(m, n) PROVE Ran(m, n)'
  <2>1. \A i \in 1 .. n - 1 : i \in 1 .. Len(Calls[m])  BY <1>2
  <2>2. Resume(m, flag)' = Resume(m, flag)  BY <1>1 DEF Resume
  <2> QED  BY <1>1, <1>3, <2>1, <2>2 DEF Ran
<1> QED  BY <1>1, <1>3 DEF Full

\* A test that writes its flag at one of its two calls: the calls before the
\* second one have been made.
LEMMA RanArmed ==
  ASSUME TypeInv, sc' = sc, hist' = hist, NEW m \in Modules, k \in 1 .. Len(Calls[m]),
         NEW t, Calls[m][k] = t, flag # t, flag' = t, Ran(m, k),
         Resume(m, t) \in 2 .. Len(Calls[m]), k \in {Resume(m, t) - 1, Resume(m, t)}
  PROVE  Ran(m, Resume(m, t))'
<1>1. Calls' = Calls /\ Resume(m, t)' = Resume(m, t)  BY SameScenario
<1>2. Len(Calls[m]) \in Nat  BY ListFacts DEF TypeInv
<1>3. ASSUME NEW i \in 1 .. Resume(m, t) - 1
      PROVE  hist[Calls[m][i]] # "NONE" \/ Calls[m][i] = t
  <2>1. CASE i < k
    <3>1. i \in 1 .. k - 1 /\ i \in 1 .. Len(Calls[m])  BY <1>2, <2>1
    <3>2. Calls[m][i] = flag => Resume(m, flag) # k  BY <3>1, ResumeIn
    <3> QED  BY <3>1, <3>2 DEF Ran
  <2>2. CASE i >= k
    <3>1. i = k  BY <1>2, <2>2
    <3> QED  BY <3>1
  <2> QED  BY <1>2, <2>1, <2>2
<1>4. Resume(m, flag)' = Resume(m, t)  BY <1>1 DEF Resume
<1> QED  BY <1>1, <1>3, <1>4 DEF Ran

\* The calls a module leaves out when it is entered have been made before.
LEMMA RanAtEntry ==
  ASSUME IInv, mod \in Chosen, run = 1, ~aborted
  PROVE  Ran(mod, EntryOf(mod))
<1>1. \A m : Ran(m, 1)  BY DEF Ran
<1>2. mod \in Modules  BY DEF Chosen
<1>3. CASE mod = "rme"
  <2>1. CASE flag \in RmeResets
    BY <1>3, <2>1, EntryFacts DEF IInv, RanInv, val_rme_execute_tests
  <2>2. CASE flag \in {LsDisblFlag, LsTest3}
    <3>1. flag \notin RmeResets  BY <2>2 DEF RmeResets, LsDisblFlag, LsTest3
    <3>2. Full("rme")  BY <1>3, <2>2 DEF IInv, RanInv
    <3>3. EntryOf(mod) = Len(Calls["rme"]) + 1  BY <1>3, <2>2, <3>1, EntryFacts, CallsFacts DEF val_rme_execute_tests
    <3> QED  BY <1>2, <1>3, <3>2, <3>3, RanAll DEF IInv
  <2> QED  BY <1>1, <1>3, <2>1, <2>2, EntryFacts DEF val_rme_execute_tests
<1>4. CASE mod = "legacy"
  BY <1>1, <1>4, EntryFacts, LegacyFacts DEF IInv, RanInv, val_legacy_execute_tests
<1>5. CASE mod = "da"
  <2>1. ~LegacyTz /\ 32 \notin SkipTests  BY <1>5 DEF Chosen, DaRuns
  <2>2. flag \notin {LsDisblFlag, LsTest3} /\ flag \notin RmeResets \ {32}
    BY <1>5, <2>1 DEF IInv, FlagInv
  <2>3. flag \notin {2, 12, 31, LsDisblFlag, LsTest3}  BY <2>2 DEF RmeResets
  <2> QED  BY <1>1, <1>5, <2>3, EntryFacts DEF val_rme_da_execute_tests
<1>6. CASE mod \in {"gic", "smmu"}  BY <1>1, <1>6, EntryFacts
<1> QED  BY <1>2, <1>3, <1>4, <1>5, <1>6, CallsFacts

\* The steps that leave the flag alone keep what was run.
LEMMA RanStays ==
  ASSUME IInv, Finishes \/ Restarts \/ Enters \/ Leaves \/ Idles, sc' = sc, run = 1, ~aborted
  PROVE  /\ flag' \in RmeResets => Ran("rme", Resume("rme", flag))'
         /\ flag' \in {LsDisblFlag, LsTest3} /\ "rme" \in Chosen => Full("rme")'
         /\ flag' = LsTest3 => Ran("legacy", 4)'
         /\ flag' = LsDisblFlag => Ran("legacy", 5)'
         /\ \A m \in Modules : /\ Full(m) => Full(m)'
                               /\ \A n \in 1 .. Len(Calls[m]) + 1 : Ran(m, n) => Ran(m, n)'
<1>1. sc \in Scenarios /\ TypeInv /\ RanInv  BY DEF IInv, TypeInv
<1>2. flag' = flag  BY DEF Finishes, Restarts, Enters, Leaves, Idles
<1>3. \A m \in Modules : \A i \in 1 .. Len(Calls[m]) :
         hist[Calls[m][i]] # "NONE" => hist'[Calls[m][i]] # "NONE"
  <2>1. CASE Finishes
    BY Zenon, <1>1, <2>1, ListFacts DEF Finishes, TypeInv, Outcomes
  <2>2. CASE Restarts \/ Enters \/ Leaves \/ Idles
    BY Zenon, <2>2 DEF Restarts, Enters, Leaves, Idles
  <2> QED  BY Zenon, <2>1, <2>2
<1>4. \A m \in Modules : /\ Full(m) => Full(m)'
                         /\ \A n \in 1 .. Len(Calls[m]) + 1 : Ran(m, n) => Ran(m, n)'
  BY <1>1, <1>2, <1>3, RanKeeps
<1>5. "rme" \in Modules /\ "legacy" \in Modules  BY Zenon, CallsFacts
<1>6. ASSUME flag' \in RmeResets PROVE Ran("rme", Resume("rme", flag))'
  <2>1. PICK n : n = Resume("rme", flag)  OBVIOUS
  <2>2. Resume("rme", flag)' = n  BY <1>2, <2>1, SameScenario DEF Resume
  <2>3. n \in 1 .. Len(Calls["rme"]) + 1
    BY <1>1, <1>2, <1>5, <1>6, <2>1, RmeFacts, ListFacts, CallsFacts
  <2>4. Ran("rme", n)'  BY <1>1, <1>2, <1>4, <1>5, <1>6, <2>1, <2>3 DEF RanInv
  <2> QED  BY <2>2, <2>4 DEF Ran
<1>7. 4 \in 1 .. Len(Calls["legacy"]) + 1 /\ 5 \in 1 .. Len(Calls["legacy"]) + 1
  <2>1. Len(Calls["legacy"]) = 5  BY LegacyFacts, CallsFacts
  <2> QED  BY <2>1
<1> QED  BY <1>1, <1>2, <1>4, <1>5, <1>6, <1>7 DEF RanInv

LEMMA RanStep ==
  ASSUME IInv, [Next]_vars
  PROVE  RanInv'
<1>1. sc' = sc /\ sc \in Scenarios /\ TypeInv /\ PlaceInv /\ RanInv  BY StepKinds DEF IInv, TypeInv
<1>2. Calls' = Calls /\ Chosen' = Chosen /\ (\A m, t : Resume(m, t)' = Resume(m, t))  BY <1>1, SameScenario
<1>3. Chosen \subseteq Modules /\ "rme" \in Modules /\ "legacy" \in Modules  BY CallsFacts DEF Chosen
<1>4. \A m \in Modules : Len(Calls[m]) \in Nat /\ DOMAIN Calls[m] = 1 .. Len(Calls[m])
  BY Zenon, <1>1, ListFacts
<1>5. SUFFICES ASSUME run' = 1, ~aborted'
               PROVE  /\ mod' \in Chosen /\ k' > 0 => Ran(mod, k)'
                      /\ \A m \in Earlier[mod'] \cap Chosen : Full(m)'
                      /\ flag' \in RmeResets => Ran("rme", Resume("rme", flag))'
                      /\ flag' \in {LsDisblFlag, LsTest3} /\ "rme" \in Chosen => Full("rme")'
                      /\ flag' = LsTest3 => Ran("legacy", 4)'
                      /\ flag' = LsDisblFlag => Ran("legacy", 5)'
  BY <1>2 DEF RanInv, Earlier
<1>6. CASE RunsAgain  BY <1>1, <1>5, <1>6 DEF RunsAgain, TypeInv
<1>7. CASE Aborts  BY Zenon, <1>5, <1>7 DEF Aborts
<1>8. CASE Finishes
  <2>1. /\ mod \in Modules /\ k \in 1 .. Len(Calls[mod]) /\ k' = k + 1 /\ mod' = mod /\ flag' = flag
        /\ run = 1 /\ ~aborted
    BY Zenon, <1>4, <1>5, <1>8 DEF Finishes, Calling
  <2>2. hist'[Calls[mod][k]] # "NONE"
    BY ZenonT(30), <1>1, <1>8, <2>1, ListFacts DEF Finishes, This, TypeInv, Outcomes
  <2>3. ASSUME mod' \in Chosen PROVE Ran(mod, k)'
    <3>1. Ran(mod, k)  BY <1>1, <2>1, <2>3 DEF RanInv
    <3>2. PICK m \in Modules, n \in 1 .. Len(Calls[mod]) + 1 : m = mod /\ n = k  BY <1>4, <2>1
    <3>3. Ran(m, n)'  BY <1>1, <1>8, <2>1, <3>1, <3>2, RanStays
    <3>4. ASSUME NEW i \in 1 .. k PROVE hist'[Calls[mod][i]] # "NONE"
      <4>1. CASE i = k  BY <2>2, <4>1
      <4>2. CASE i \in 1 .. n - 1
        <5>1. i \in 1 .. Len(Calls[m])  BY <1>4, <2>1, <3>2, <4>2
        <5>2. Calls[m][i] = flag /\ n = Resume(m, flag) => Calls[m][i] = Calls[m][k]
          BY <1>1, <3>2, <5>1, ResumeIn
        <5>3. Resume(m, flag)' = Resume(m, flag)  BY <1>2, <2>1 DEF Resume
        <5> QED  BY <1>2, <2>1, <2>2, <3>2, <3>3, <4>2, <5>2, <5>3 DEF Ran
      <4> QED  BY <1>4, <2>1, <3>2, <4>1, <4>2
    <3>5. 1 .. k' - 1 = 1 .. k
      <4>1. k \in Nat /\ k' = k + 1  BY <1>4, <2>1
      <4> QED  BY Zenon, <4>1, UpTo
    <3> QED  BY <1>2, <2>1, <3>4, <3>5 DEF Ran
  <2>4. \A m \in Earlier[mod'] \cap Chosen : Full(m)'
    BY ZenonT(30), <1>1, <1>3, <1>8, <2>1, RanStays DEF RanInv
  <2> QED  BY ZenonT(30), <1>1, <1>8, <2>1, <2>3, <2>4, RanStays
<1>9. CASE WritesFlag
  <2>1. /\ mod \in Modules /\ k \in 1 .. Len(Calls[mod]) /\ flag' = Calls[mod][k] /\ flag # flag'
        /\ flag' \in ResetTests /\ hist' = hist /\ mod' = "rme" /\ k' = 0 /\ run = 1 /\ ~aborted
    BY <1>4, <1>5, <1>9 DEF WritesFlag, Calling, This
  <2>2. mod \notin SkipModules /\ (mod = "legacy" => LegacyTz)  BY <1>1, <2>1 DEF PlaceInv
  <2>3. PICK t : t = flag'  OBVIOUS
  <2>4. CASE flag' \in RmeResets
    <3>1. mod = "rme"  BY <1>1, <2>1, <2>4, WhereResets
    <3>2. mod \in Chosen  BY Zenon, <2>1, <2>2, <3>1 DEF Chosen
    <3>3. Ran("rme", k)  BY <1>1, <2>1, <3>1, <3>2 DEF RanInv
    <3>4. Resume("rme", t) \in 2 .. Len(Calls["rme"]) /\ k \in {Resume("rme", t) - 1, Resume("rme", t)}
      BY <1>1, <2>1, <2>3, <2>4, <3>1, RmeFacts, CallsFacts
    <3>5. Ran("rme", Resume("rme", t))'  BY <1>1, <1>3, <2>1, <2>3, <3>1, <3>3, <3>4, RanArmed
    <3>6. Resume("rme", flag)' = Resume("rme", t) /\ Resume("rme", t)' = Resume("rme", t)
      BY <1>2, <2>3 DEF Resume
    <3>7. Ran("rme", Resume("rme", flag))'  BY <3>5, <3>6 DEF Ran
    <3> QED  BY <2>1, <2>4, <3>7, EarlierFacts DEF RmeResets, LsDisblFlag, LsTest3
  <2>5. CASE flag' = LsTest3
    <3>1. mod = "legacy"  BY Zenon, <1>1, <2>1, <2>5, WhereResets
    <3>2. mod \in Chosen  BY <2>1, <2>2, <3>1 DEF Chosen
    <3>3. Ran("legacy", k)  BY <1>1, <2>1, <3>1, <3>2 DEF RanInv
    <3>4. Resume("legacy", t) = 4 /\ Len(Calls["legacy"]) = 5 /\ k \in {3, 4}
      <4>1. Calls["legacy"] = LegacyCalls /\ Len(LegacyCalls) = 5  BY LegacyFacts, CallsFacts
      <4>2. k \in 1 .. 5 /\ LegacyCalls[k] = LsTest3  BY Zenon, <2>1, <2>5, <3>1, <4>1
      <4> QED  BY <2>3, <2>5, <4>1, <4>2, LegacyFacts
    <3>5. Resume("legacy", t) \in 2 .. Len(Calls["legacy"]) /\ k \in {Resume("legacy", t) - 1, Resume("legacy", t)}
      BY Zenon, <3>4, AtFour
    <3>6. Ran("legacy", Resume("legacy", t))'  BY <1>1, <1>3, <2>1, <2>3, <3>1, <3>3, <3>5, RanArmed
    <3>7. Resume("legacy", t)' = 4  BY <1>2, <3>4
    <3>8. Ran("legacy", 4)'  BY Zenon, <3>6, <3>7 DEF Ran
    <3>9. "rme" \in Chosen => Full("rme")  BY ZenonT(30), <1>1, <2>1, <3>1, EarlierFacts DEF RanInv
    <3>10. "rme" \in Chosen => Full("rme")'  BY Zenon, <1>2, <2>1, <3>9 DEF Full
    <3> QED  BY <2>1, <2>5, <3>8, <3>10, EarlierFacts DEF RmeResets, LsDisblFlag, LsTest3
  <2> QED  BY <2>1, <2>4, <2>5 DEF ResetTests
<1>10. CASE WritesTieOff
  <2>1. /\ mod = "legacy" /\ k = 5 /\ flag' = LsDisblFlag /\ hist' = hist /\ mod' = "rme" /\ k' = 0
        /\ run = 1 /\ ~aborted /\ Len(Calls["legacy"]) = 5
    BY <1>5, <1>10, LegacyFacts, CallsFacts DEF WritesTieOff, TieOffNext
  <2>2. mod \in Chosen  BY <1>1, <1>3, <2>1 DEF PlaceInv, Chosen
  <2>3. Ran("legacy", 5)  BY <1>1, <2>1, <2>2 DEF RanInv
  <2>4. \A i \in 1 .. 4 : Calls["legacy"][i] = flag => Resume("legacy", flag) # 5
    BY <1>1, <1>3, <2>1, ResumeIn
  <2>5. \A i \in 1 .. 5 - 1 : hist[Calls["legacy"][i]] # "NONE"  BY <2>3, <2>4 DEF Ran
  <2>6. Ran("legacy", 5)'  BY <1>2, <2>1, <2>5 DEF Ran
  <2>7. "rme" \in Chosen => Full("rme")  BY <1>1, <2>1, EarlierFacts DEF RanInv
  <2>8. "rme" \in Chosen => Full("rme")'  BY Zenon, <1>2, <2>1, <2>7 DEF Full
  <2> QED  BY <2>1, <2>6, <2>8, EarlierFacts DEF RmeResets, LsDisblFlag, LsTest3
<1>11. CASE Restarts
  <2>1. run = 1 /\ ~aborted /\ mod' = "rme" /\ k' = 0  BY Zenon, <1>5, <1>11 DEF Restarts
  <2> QED  BY <1>1, <1>11, <2>1, RanStays, EarlierFacts
<1>12. CASE Enters
  <2>1. run = 1 /\ ~aborted /\ mod' = mod /\ k' = EntryOf(mod) /\ hist' = hist /\ flag' = flag
    BY Zenon, <1>5, <1>12 DEF Enters
  <2>2. ASSUME mod' \in Chosen PROVE Ran(mod, k)'
    <3>1. Ran(mod, EntryOf(mod))  BY <2>1, <2>2, RanAtEntry
    <3>2. Resume(mod, flag)' = Resume(mod, flag)  BY Zenon, <1>2, <2>1 DEF Resume
    <3> QED  BY <1>2, <2>1, <3>1, <3>2 DEF Ran
  <2>3. \A m \in Earlier[mod'] \cap Chosen : Full(m)'
    BY ZenonT(30), <1>1, <1>3, <1>12, <2>1, RanStays DEF RanInv
  <2> QED  BY <1>1, <1>12, <2>1, <2>2, <2>3, RanStays
<1>13. CASE Leaves
  <2>1. run = 1 /\ ~aborted /\ mod \in Modules /\ mod' = After[mod] /\ k' = 0  BY Zenon, <1>5, <1>13 DEF Leaves
  <2>2. Earlier[mod'] = Earlier[mod] \cup {mod}  BY <2>1, EarlierFacts, CallsFacts
  <2>3. mod \in Chosen => Full(mod)
    <3>1. SUFFICES ASSUME mod \in Chosen PROVE Full(mod)  OBVIOUS
    <3>2. k = Len(Calls[mod]) + 1  BY Zenon, <1>13, <3>1 DEF Leaves, Chosen
    <3>3. Ran(mod, Len(Calls[mod]) + 1)  BY <1>1, <1>4, <2>1, <3>1, <3>2 DEF RanInv
    <3> QED  BY <1>1, <2>1, <3>3, RanAll
  <2>4. \A m \in Earlier[mod'] \cap Chosen : Full(m)  BY ZenonT(30), <1>1, <2>1, <2>2, <2>3 DEF RanInv
  <2>5. \A m \in Earlier[mod'] \cap Chosen : Full(m)'
    BY ZenonT(30), <1>1, <1>3, <1>13, <2>1, <2>4, RanStays
  <2> QED  BY <1>1, <1>13, <2>1, <2>5, RanStays
<1>14. CASE Idles
  <2>1. /\ run = 1 /\ ~aborted /\ mod' = mod /\ k' = k /\ hist' = hist /\ flag' = flag
    BY Zenon, <1>5, <1>14 DEF Idles
  <2>2. ASSUME mod' \in Chosen, k' > 0 PROVE Ran(mod, k)'
    <3>1. Ran(mod, k)  BY <1>1, <2>1, <2>2 DEF RanInv
    <3>2. Resume(mod, flag)' = Resume(mod, flag)  BY ZenonT(30), <1>2, <2>1 DEF Resume
    <3> QED  BY <1>2, <2>1, <3>1, <3>2 DEF Ran
  <2>3. \A m \in Earlier[mod'] \cap Chosen : Full(m)'
    BY <1>1, <1>3, <1>14, <2>1, RanStays DEF RanInv
  <2> QED  BY <1>1, <1>14, <2>1, <2>2, <2>3, RanStays
<1> QED
  BY Zenon, <1>1, <1>6, <1>7, <1>8, <1>9, <1>10, <1>11, <1>12, <1>13, <1>14, StepKinds

-----------------------------------------------------------------------------
(* The theorems.                                                           *)
LEMMA InitHolds == Init => IInv
<1> SUFFICES ASSUME Init PROVE IInv  OBVIOUS
<1>1. sc \in Scenarios /\ mod = "rme" /\ k = 0 /\ flag = NoFlag /\ run = 1 /\ hist = [t \in Tests |-> "NONE"]
  BY Zenon DEF Init
<1>2. "rme" \in Modules /\ Len(Calls["rme"]) \in Nat  BY <1>1, CallsFacts, ListFacts
<1>3. NoFlag \notin ResetTests \cup {LsDisblFlag}
  BY DEF NoFlag, ResetTests, RmeResets, LsTest3, LsDisblFlag
<1>4. TypeInv  BY <1>1, <1>2 DEF TypeInv
<1>5. PlaceInv /\ ArmedInv  BY <1>1, <1>3 DEF PlaceInv, ArmedInv
<1>6. FlagInv  BY Zenon, <1>1, <1>3 DEF FlagInv, ResetTests
<1>7. RanInv  BY <1>1, <1>3, EarlierFacts DEF RanInv, ResetTests
<1> QED  BY <1>4, <1>5, <1>6, <1>7 DEF IInv

LEMMA NextKeeps == IInv /\ [Next]_vars => IInv'
BY TypeStep, PlaceStep, ArmedStep, FlagStep, RanStep DEF IInv

LEMMA Invariance == Spec => []IInv
BY InitHolds, NextKeeps, PTL DEF Spec

\* In the first run a reset test passes only after it has itself asked for a
\* reset, whatever hangs, resets and skipped modules come in between.
THEOREM ResetsAreReal == Spec => []PassedAfterReset
<1>1. IInv => PassedAfterReset  BY DEF IInv, ArmedInv, PassedAfterReset
<1> QED  BY <1>1, Invariance, PTL

\* A first run that comes to its summary has an outcome for every test the user
\* selected: no boot jumps over a test that has not been run.
THEOREM NoTestIsLost == Spec => []EveryTestRan
<1>1. ASSUME IInv PROVE EveryTestRan
  <2>1. SUFFICES ASSUME Complete, run = 1, NEW t \in Selected,
                        t \in 601 .. 620 => DaRuns
                 PROVE  hist[t] # "NONE"
    BY DEF EveryTestRan, DaRuns
  <2>2. mod = "end" /\ ~aborted  BY <2>1 DEF Complete
  <2>3. PICK m \in Modules \ SkipModules : (m = "legacy" => LegacyTz) /\ t \in {Calls[m][i] : i \in DOMAIN Calls[m]}
    BY Zenon DEF Selected
  <2>4. PICK i \in 1 .. Len(Calls[m]) : t = Calls[m][i]
    BY <1>1, <2>3, ListFacts DEF IInv, TypeInv
  <2>5. m = "da" => DaRuns
    <3>1. SUFFICES ASSUME m = "da" PROVE t \in 601 .. 620  BY <2>1
    <3>a. sc \in Scenarios  BY Zenon, <1>1 DEF IInv, TypeInv
    <3>2. DaCalls \in Seq(601 .. 620)  BY <3>a, SuiteAssumption DEF DaCalls
    <3>3. i \in 1 .. Len(DaCalls) /\ t = DaCalls[i]  BY <2>4, <3>1, CallsFacts
    <3> QED  BY <3>2, <3>3, ElementOf
  <2>6. m \in Chosen  BY Zenon, <2>3, <2>5 DEF Chosen
  <2>7. m \in Earlier["end"]  BY Zenon, <2>3, CallsFacts, EarlierFacts DEF Earlier
  <2> QED  BY <1>1, <2>1, <2>2, <2>4, <2>6, <2>7 DEF IInv, RanInv, Full
<1> QED  BY <1>1, Invariance, PTL

\* No step takes the memory back: the RME module never runs a test before the one
\* its flag stands for, and a flag only gives way to one further on.
THEOREM NoBootGoesBack == Spec => NeverBackwards
<1> DEFINE Forward == mod = "rme" /\ k > 0 /\ run' = run => Rank(flag') >= Rank(flag) /\ k >= Rank(flag)
<1>1. ASSUME IInv, [Next]_vars PROVE [Forward]_vars
  <2>1. SUFFICES ASSUME mod = "rme", k > 0 PROVE Rank(flag') >= Rank(flag) /\ k >= Rank(flag)  OBVIOUS
  <2>2. Rank(flag) \in Nat /\ k >= Rank(flag) /\ k \in Nat
    BY <1>1, <2>1, RankFacts DEF IInv, PlaceInv, TypeInv
  <2>3. CASE WritesFlag
    <3>1. k \in 1 .. Len(Calls["rme"]) /\ flag' = Calls["rme"][k] /\ flag' \in ResetTests
      BY ZenonT(30), <1>1, <2>1, <2>3, ListFacts DEF WritesFlag, Calling, This, IInv, TypeInv
    <3>2. flag' \in RmeResets  BY <1>1, <3>1, CallsFacts, WhereResets DEF IInv, TypeInv, ResetTests
    <3>3. /\ Resume("rme", flag') \in 2 .. Len(RmeCalls)
          /\ k \in {Resume("rme", flag') - 1, Resume("rme", flag')}
      BY <1>1, <3>1, <3>2, RmeFacts, CallsFacts DEF IInv, TypeInv
    <3>4. Rank(flag') = Resume("rme", flag')  BY <3>2 DEF Rank, RmeResets, NoFlag
    <3> QED  BY <2>2, <3>3, <3>4
  <2>4. CASE WritesTieOff  BY <2>1, <2>4 DEF WritesTieOff, TieOffNext
  <2>5. CASE flag' = flag  BY <2>2, <2>5
  <2> QED
    BY Zenon, <1>1, <2>3, <2>4, <2>5, StepKinds DEF Finishes, Restarts, Enters, Leaves, Aborts, RunsAgain, Idles
<1>2. IInv /\ [Next]_vars => [Forward]_vars  BY <1>1
<1>3. NeverBackwards <=> [][Forward]_vars  BY DEF NeverBackwards
<1> QED  BY <1>2, <1>3, Invariance, PTL DEF Spec
=============================================================================
