------------------------------- MODULE Iovirt -------------------------------
(***************************************************************************)
(* The I/O virtualisation table: what says behind which SMMU a PCIe        *)
(* function sits, which stream ID its transactions carry and which device  *)
(* ID and ITS its message interrupts use (val/src/acs_iovirt.c).           *)
(*                                                                         *)
(* Under UEFI the table is built from the firmware's IORT                  *)
(* (platform/pal_uefi/src/pal_iovirt.c): iort_add_block writes a block at  *)
(* the next free place of the table, looks whether the same block is in    *)
(* the table already, and adds the nodes its mappings refer to behind it   *)
(* by calling itself.  The bare-metal layer copies its configuration       *)
(* instead (platform/pal_baremetal/src/pal_iovirt.c).                      *)
(*                                                                         *)
(* The table is kept as memory: cell 0 stands for the counters, a block    *)
(* takes one cell for its header and one for each of its mappings, and     *)
(* the table is walked from header to header as IOVIRT_NEXT_BLOCK does, so *)
(* a block written over another one, or a walk that stops too early, shows.*)
(* (An overlap check that runs past the mappings of a block compares them  *)
(* with words of the next header, which never name a block of the table;   *)
(* the model lets such a comparison fail.)                                 *)
(***************************************************************************)
EXTENDS Integers, Sequences, SequencesExt, FiniteSets

CONSTANTS Iorts,     \* the firmware descriptions considered
          Requesters \* the (segment, requester ID) pairs that are asked for

VARIABLES
  fw,       \* the firmware's description: [pal, nodes], chosen once
  iovirt,   \* g_iovirt_info_table
  built,    \* the table has been created
  ioq       \* the last question and its answer

iovVars == <<fw, iovirt, built, ioq>>

NotFound == -1
SmmuTypes == {"SMMU", "SMMU_V3"}
NoRequest == [seg |-> NotFound, rid |-> NotFound]

\* The counters of the table and its memory (IOVIRT_INFO_TABLE).
EmptyTable ==
  [mem |-> [a \in 1..24 |-> [type |-> "none", maps |-> 0]],
   num_blocks |-> 0,
   num |-> [k \in {"ITS_GROUP", "NAMED_COMPONENT", "ROOT_COMPLEX", "SMMU", "PMCG"} |-> 0]]

CounterOf(type) == IF type \in SmmuTypes THEN "SMMU" ELSE type

Put(t, at, cell) == [t EXCEPT !.mem[at] = cell]

\* The headers of the first n blocks, in the order IOVIRT_NEXT_BLOCK visits.
IOVIRT_NEXT_BLOCK(t, n) ==
  LET at[i \in 1..n] == IF i = 1 THEN 1 ELSE at[i - 1] + 1 + t.mem[at[i - 1]].maps
  IN  at

Walk(t) == IOVIRT_NEXT_BLOCK(t, t.num_blocks)
-----------------------------------------------------------------------------
(* Building the table from the IORT. *)

\* The same type, the same number of mappings and the same contents.
find_block(t, at) ==
  LET w == Walk(t)
      same == {i \in 1..t.num_blocks : t.mem[w[i]] = [t.mem[at] EXCEPT !.flags = t.mem[w[i]].flags]}
  IN  IF same = {} THEN 0 ELSE w[CHOOSE i \in same : \A j \in same : i <= j]

\* Are the context interrupts of an SMMUv2 all different?
smmu_ctx_int_distinct(ints) == \A i, j \in 1..Len(ints) : (i # j) => ints[i] # ints[j]

\* The base of the SMMU at cell a, if one is there.
SmmuBaseAt(t, a) == IF t.mem[a].type \in SmmuTypes THEN t.mem[a].data ELSE 0

RECURSIVE iort_add_block(_, _, _), AddMappings(_, _, _, _, _)

\* The loop over the mappings of node n, whose block is at cell "at": the
\* node a mapping refers to is added at "next" unless it is there already.
AddMappings(t, n, at, i, next) ==
  LET node == fw.nodes[n] IN
  IF i > Len(node.maps)
  THEN [t |-> t, next |-> next]
  ELSE LET m == node.maps[i]
           r == iort_add_block(t, m.ref, next)
           smmu == IF node.type = "ROOT_COMPLEX" THEN SmmuBaseAt(r.t, r.offset) ELSE 0
           filled == Put(Put(r.t, at + i, [m EXCEPT !.ref = r.offset]),
                         at, [r.t.mem[at] EXCEPT !.smmu_base = smmu])
       IN  AddMappings(filled, n, at, i + 1, r.next)

\* Adds node n at cell "at".  Returns the table, the cell where the node's
\* block is, and the cell where the next block goes.
iort_add_block(t, n, at) ==
  LET node == fw.nodes[n]
      maps == IF node.type = "ITS_GROUP" THEN 1 ELSE Len(node.maps)
      behind == at + 1 + maps
      header == [type |-> node.type, maps |-> maps, data |-> node.data, ref |-> 0,
                 smmu_base |-> 0, flags |-> {}]
      begun == IF node.type = "ITS_GROUP"
               THEN Put(Put(t, at, header), at + 1, [id |-> node.data])
               ELSE Put(t, at, header)
      counted == IF node.type = "PMCG"
                 THEN LET r == iort_add_block(begun, node.ref, behind)
                      IN  Put(r.t, at, [header EXCEPT !.ref = r.offset])
                 ELSE begun
      already == find_block(counted, at)
      flagged == IF node.type = "SMMU" /\ ~smmu_ctx_int_distinct(node.ints)
                 THEN Put(counted, at, [counted.mem[at] EXCEPT !.flags = {"ctx"}])
                 ELSE counted
      added == IF node.type = "ITS_GROUP" THEN [t |-> flagged, next |-> behind]
               ELSE AddMappings(flagged, n, at, 1, behind)
  IN  IF already # 0
      THEN [t |-> counted, offset |-> already, next |-> at]
      ELSE [t |-> [added.t EXCEPT !.num_blocks = @ + 1, !.num[CounterOf(node.type)] = @ + 1],
            offset |-> at, next |-> added.next]

\* The outputs of a mapping: the last one is left out of the range.
Outputs(m) == [first |-> m.out, last |-> m.out + m.count - 1]

Meets(k, m) ==
  LET a == Outputs(k)  b == Outputs(m)
  IN  /\ k.ref = m.ref
      /\ \/ (a.first >= b.first) /\ (a.first <= b.last)
         \/ (a.last >= b.first) /\ (a.last <= b.last)
         \/ (a.first < b.first) /\ (a.last > b.last)

\* Every mapping against the ones behind it, in its own block and in the
\* blocks that follow; both blocks of an overlapping pair are flagged.
check_mapping_overlap(t) ==
  LET w == Walk(t)
      mapped == {i \in 1..t.num_blocks : t.mem[w[i]].type # "ITS_GROUP"}
      map(i, k) == t.mem[w[i] + k]
      pairs == {<<i, k, j, l>> \in mapped \X (1..3) \X mapped \X (1..3) :
                  /\ k <= t.mem[w[i]].maps /\ l <= t.mem[w[j]].maps
                  /\ (i < j) \/ ((i = j) /\ (k < l))
                  /\ Meets(map(i, k), map(j, l))}
      flag(i) == {IF t.mem[map(p[1], p[2]).ref].type = "ITS_GROUP" THEN "devid" ELSE "strid" :
                    p \in {q \in pairs : i \in {q[1], q[3]}}}
      at(a) == {i \in mapped : w[i] = a}
  IN  [t EXCEPT !.mem = [a \in DOMAIN t.mem |->
         IF at(a) = {} THEN t.mem[a]
         ELSE [t.mem[a] EXCEPT !.flags = @ \cup flag(CHOOSE i \in at(a) : TRUE)]]]

\* Every node of the IORT in turn, then the overlap check.
UefiTable ==
  LET t[i \in 0..Len(fw.nodes)] ==
        IF i = 0 THEN [t |-> EmptyTable, offset |-> 0, next |-> 1]
        ELSE iort_add_block(t[i - 1].t, i, t[i - 1].next)
  IN  check_mapping_overlap(t[Len(fw.nodes)].t)

\* The bare-metal table: the configured nodes one behind the other.  The
\* mappings of the root complex refer to the nodes behind the ITS groups,
\* one each; those of an SMMU to the place the configuration gives.
BareMetalTable ==
  LET node(i) == fw.nodes[i]
      maps(i) == IF node(i).type = "ITS_GROUP" THEN 1 ELSE Len(node(i).maps)
      at[i \in 1..Len(fw.nodes)] == IF i = 1 THEN 1 ELSE at[i - 1] + 1 + maps(i - 1)
      its == Cardinality({i \in 1..Len(fw.nodes) : node(i).type = "ITS_GROUP"})
      refOf(i, j) == IF node(i).type = "ROOT_COMPLEX" THEN at[j + its] ELSE at[node(i).maps[j].ref]
      flags(i) == IF node(i).type = "SMMU" /\ ~smmu_ctx_int_distinct(node(i).ints) THEN {"ctx"} ELSE {}
      header(i) == [type |-> node(i).type, maps |-> maps(i), data |-> node(i).data, ref |-> 0,
                    smmu_base |-> 0, flags |-> flags(i)]
      cell(a) ==
        LET i == CHOOSE n \in 1..Len(fw.nodes) : at[n] <= a /\ a <= at[n] + maps(n)
        IN  IF a = at[i] THEN header(i)
            ELSE IF node(i).type = "ITS_GROUP" THEN [id |-> node(i).data]
            ELSE [node(i).maps[a - at[i]] EXCEPT !.ref = refOf(i, a - at[i])]
      used == at[Len(fw.nodes)] + maps(Len(fw.nodes))
  IN  [mem |-> [a \in 1..24 |-> IF a <= used THEN cell(a) ELSE EmptyTable.mem[a]],
       num_blocks |-> Len(fw.nodes),
       num |-> [k \in DOMAIN EmptyTable.num |->
                  Cardinality({i \in 1..Len(fw.nodes) : CounterOf(node(i).type) = k})]]

\* iovirt_create_override_table: one SMMU and nothing else.
iovirt_create_override_table ==
  [EmptyTable EXCEPT !.num_blocks = 1, !.num["SMMU"] = 1,
     !.mem[1] = [type |-> "SMMU_V3", maps |-> 0, data |-> fw.nodes[1].data, ref |-> 0,
                 smmu_base |-> 0, flags |-> {}]]

pal_iovirt_create_info_table ==
  CASE fw.pal = "uefi" -> UefiTable
    [] fw.pal = "baremetal" -> BareMetalTable
    [] fw.pal = "override" -> iovirt_create_override_table
-----------------------------------------------------------------------------
(* Questions about the table. *)

In(m, x) == x >= m.base /\ x <= m.base + m.count

\* The first mapping of the block at cell a that x falls in, 0 if none does.
MappingOf(a, x) ==
  LET hits == {k \in 1..iovirt.mem[a].maps : In(iovirt.mem[a + k], x)}
  IN  IF hits = {} THEN 0 ELSE CHOOSE k \in hits : \A l \in hits : k <= l

\* The root complex of the segment in which rid is mapped: leaving the loop
\* over the mappings does not leave the one over the blocks, so the last
\* such root complex counts.
RootComplexOf(seg, rid) ==
  LET w == Walk(iovirt)
      rcs == {i \in 1..iovirt.num_blocks : /\ iovirt.mem[w[i]].type = "ROOT_COMPLEX"
                                           /\ iovirt.mem[w[i]].data = seg
                                           /\ MappingOf(w[i], rid) # 0}
  IN  IF rcs = {} THEN 0 ELSE w[CHOOSE i \in rcs : \A j \in rcs : i >= j]

\* Mutant: the offset within the mapping is not taken.
NotRebased(a, x) == LET m == iovirt.mem[a + MappingOf(a, x)] IN [id |-> x + m.out, ref |-> m.ref]

\* The identifier the root complex hands on, and to which block.
Output(a, x) == LET m == iovirt.mem[a + MappingOf(a, x)] IN [id |-> x - m.base + m.out, ref |-> m.ref]

ItsAt(a) == IF iovirt.mem[a].type = "ITS_GROUP" THEN iovirt.mem[a + 1].id ELSE 0

Unknown == [ok |-> FALSE, stream |-> NotFound, device |-> NotFound, its |-> NotFound]

\* What becomes of an identifier that the root complex hands on.
HandedOn(o) ==
  LET d == Output(o.ref, o.id)
  IN  CASE iovirt.mem[o.ref].type = "ITS_GROUP" ->
             [ok |-> TRUE, stream |-> NotFound, device |-> o.id, its |-> ItsAt(o.ref)]
        [] iovirt.mem[o.ref].type \in SmmuTypes ->
             IF MappingOf(o.ref, o.id) = 0 THEN Unknown
             ELSE [ok |-> TRUE, stream |-> o.id, device |-> d.id, its |-> ItsAt(d.ref)]
        [] OTHER -> Unknown

val_iovirt_get_device_info(seg, rid) ==
  LET rc == RootComplexOf(seg, rid) IN IF rc = 0 THEN Unknown ELSE HandedOn(Output(rc, rid))

SmmuBase(o) ==
  IF iovirt.mem[o.ref].type \in SmmuTypes /\ MappingOf(o.ref, o.id) # 0 THEN iovirt.mem[o.ref].data ELSE 0

\* The base of the SMMU in front of the requester, 0 if there is none.
pal_iovirt_get_rc_smmu_base(seg, rid) ==
  LET rc == RootComplexOf(seg, rid) IN IF rc = 0 THEN NotFound ELSE SmmuBase(Output(rc, rid))

\* The SMMUs in the order of the table, as val_smmu_get_info counts them.
val_iovirt_get_smmu_info ==
  LET w == Walk(iovirt)
      smmu(i) == iovirt.mem[w[i]].type \in SmmuTypes
      picked == SelectSeq([i \in 1..iovirt.num_blocks |-> i], smmu)
  IN  [k \in 1..Len(picked) |-> iovirt.mem[w[picked[k]]].data]

\* The root complexes in the order of the table.
val_iovirt_get_pcie_rc_info ==
  LET w == Walk(iovirt)
      rc(i) == iovirt.mem[w[i]].type = "ROOT_COMPLEX"
      picked == SelectSeq([i \in 1..iovirt.num_blocks |-> i], rc)
  IN  [k \in 1..Len(picked) |-> w[picked[k]]]

\* The index of the SMMU in front of the requester; the search runs from the
\* last SMMU to the first.
val_iovirt_get_rc_smmu_index(seg, rid) ==
  LET base == pal_iovirt_get_rc_smmu_base(seg, rid)
      smmus == val_iovirt_get_smmu_info
      hits == {k \in 1..Len(smmus) : smmus[k] = base}
  IN  IF base = 0 \/ hits = {} THEN NotFound ELSE CHOOSE k \in hits : \A j \in hits : k >= j

\* 1 when no stream IDs of the k-th root complex overlap.
val_iovirt_unique_rid_strid_map(k) ==
  "strid" \notin iovirt.mem[val_iovirt_get_pcie_rc_info[k]].flags

\* 1 when the context interrupts of the SMMU with this base are distinct.
val_iovirt_check_unique_ctx_intid(base) ==
  \A i \in 1..iovirt.num_blocks :
    LET b == iovirt.mem[Walk(iovirt)[i]]
    IN  (b.type \in SmmuTypes /\ b.data = base) => "ctx" \notin b.flags
-----------------------------------------------------------------------------
IovInit ==
  /\ fw \in Iorts
  /\ iovirt = EmptyTable
  /\ built = FALSE
  /\ ioq = NoRequest

\* val_iovirt_create_info_table.
val_iovirt_create_info_table ==
  /\ ~built
  /\ iovirt' = pal_iovirt_create_info_table
  /\ built' = TRUE
  /\ UNCHANGED <<fw, ioq>>

\* A test asks for the requester q (val_iovirt_get_device_info and
\* val_iovirt_get_rc_smmu_index); the table is only read.
AskFor(q) ==
  /\ built
  /\ ioq' = q
  /\ UNCHANGED <<fw, iovirt, built>>

IovNext ==
  \/ val_iovirt_create_info_table
  \/ \E q \in Requesters : AskFor(q)
-----------------------------------------------------------------------------
(* What the IORT itself says, without the table. *)

NodesOf(types) == {n \in 1..Len(fw.nodes) : fw.nodes[n].type \in types}

\* The mapping of node n that x falls in.
Hit(n, x) == {m \in Range(fw.nodes[n].maps) : In(m, x)}

\* The pairs (root complex, mapping) that serve the requester.
Served(q) == {<<n, m>> \in NodesOf({"ROOT_COMPLEX"}) \X UNION {Range(fw.nodes[n].maps) : n \in 1..Len(fw.nodes)} :
                fw.nodes[n].data = q.seg /\ m \in Hit(n, q.rid)}

\* What a requester's stream and device IDs are according to the IORT.
Described(q) ==
  LET s == CHOOSE p \in Served(q) : TRUE
      id == q.rid - s[2].base + s[2].out
      ref == s[2].ref
      d == CHOOSE m \in Hit(ref, id) : TRUE
      failed == [ok |-> FALSE, stream |-> NotFound, device |-> NotFound, its |-> NotFound]
  IN  IF Served(q) = {} THEN failed
      ELSE IF fw.nodes[ref].type = "ITS_GROUP"
      THEN [ok |-> TRUE, stream |-> NotFound, device |-> id, its |-> fw.nodes[ref].data]
      ELSE IF Hit(ref, id) = {} THEN failed
      ELSE [ok |-> TRUE, stream |-> id, device |-> id - d.base + d.out,
            its |-> fw.nodes[d.ref].data]

\* The answers about the requester are what the IORT says of it.
AnsweredRight(info, smmu) ==
  /\ info = Described(ioq)
  /\ (smmu # NotFound) <=> (info.ok /\ info.stream # NotFound)
  /\ (smmu # NotFound) =>
        \E p \in Served(ioq) : fw.nodes[p[2].ref].data = val_iovirt_get_smmu_info[smmu]

\* What is asked of the table is answered as the IORT describes it: the
\* stream ID, device ID and ITS that val_iovirt_get_device_info returns, and
\* the SMMU val_iovirt_get_rc_smmu_index finds, whatever the order of the
\* nodes in the IORT and however often a node is referred to.
DeviceInfoRight ==
  (built /\ ioq # NoRequest /\ fw.pal # "override") =>
    AnsweredRight(val_iovirt_get_device_info(ioq.seg, ioq.rid), val_iovirt_get_rc_smmu_index(ioq.seg, ioq.rid))

\* The table lists every SMMU of the IORT once, and as many as it counts:
\* the driver initialises the SMMUs val_iovirt_get_smmu_info enumerates, so
\* one that were missing or listed twice would be left off or set up again.
SmmusListed ==
  (built /\ fw.pal # "override") =>
    /\ iovirt.num["SMMU"] = Len(val_iovirt_get_smmu_info)
    /\ \A n \in NodesOf(SmmuTypes) :
         Cardinality({k \in 1..Len(val_iovirt_get_smmu_info) : val_iovirt_get_smmu_info[k] = fw.nodes[n].data}) = 1
    /\ Len(val_iovirt_get_pcie_rc_info) = Cardinality(NodesOf({"ROOT_COMPLEX"}))

\* An SMMU that a root complex refers to by two mappings stands before it.
SmmuFirst ==
  \A n \in NodesOf({"ROOT_COMPLEX"}) : \A i, j \in 1..Len(fw.nodes[n].maps) :
    (i # j /\ fw.nodes[n].maps[i].ref = fw.nodes[n].maps[j].ref) => fw.nodes[n].maps[i].ref < n

\* Every SMMU is listed once when the firmware puts an SMMU before a root
\* complex that refers to it twice.  (find_block walks as many blocks as are
\* finished; a root complex whose mappings are still being added is one of
\* them in place of the SMMU behind it, which is then added a second time.)
SmmusListedInOrder == SmmuFirst => SmmusListed

\* The stream IDs of a root complex are reported to overlap only if two of
\* its mappings, or one of its and one of another block, really give the
\* same identifier to the same node (check_mapping_overlap through
\* val_iovirt_unique_rid_strid_map), and always if they share one that is
\* not the last of a range; an SMMU is reported to reuse a context interrupt
\* exactly if it does (val_iovirt_check_unique_ctx_intid).
OverlapFlagged ==
  (built /\ fw.pal = "uefi") =>
    /\ \A n \in NodesOf({"SMMU"}) :
         val_iovirt_check_unique_ctx_intid(fw.nodes[n].data) <=> IsInjective(fw.nodes[n].ints)
    /\ \A k \in 1..Len(val_iovirt_get_pcie_rc_info) :
         LET seg == iovirt.mem[val_iovirt_get_pcie_rc_info[k]].data
             mine == UNION {Range(fw.nodes[n].maps) : n \in {x \in NodesOf({"ROOT_COMPLEX"}) : fw.nodes[x].data = seg}}
             all == UNION {Range(fw.nodes[n].maps) : n \in 1..Len(fw.nodes)}
             to(m, last) == IF fw.nodes[m.ref].type = "ITS_GROUP" THEN {} ELSE {<<m.ref, x>> : x \in m.out..last}
             shared(cut) == \E m \in mine, o \in all :
                              m # o /\ to(m, m.out + m.count - cut) \cap to(o, o.out + o.count - cut) # {}
         IN  /\ shared(1) => ~val_iovirt_unique_rid_strid_map(k)
             /\ ~val_iovirt_unique_rid_strid_map(k) => shared(0)

\* The table says what the IORT says: of the requesters (DeviceInfoRight), of
\* the SMMUs and root complexes (SmmusListedInOrder), and of the identifiers
\* and interrupts that are not unique (OverlapFlagged).
IortFaithful == DeviceInfoRight /\ SmmusListedInOrder /\ OverlapFlagged
=============================================================================
