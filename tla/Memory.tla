------------------------------- MODULE Memory -------------------------------
(***************************************************************************)
(* The two allocators of the suite: the pool the realm SMMU driver uses at *)
(* EL3 (a first-fit list of blocks, each behind a header that is in the    *)
(* pool), and the heap of the bare-metal build (an address that goes up).  *)
(* Addresses and sizes are in words of 8 bytes.                            *)
(***************************************************************************)
EXTENDS Integers, Sequences, FiniteSets

CONSTANTS PoolSize,   \* MEMORY_POOL_SIZE
          HeapSize,   \* PLATFORM_HEAP_REGION_SIZE
          PageWords,  \* the alignment of tables and of pages
          Requests,   \* the sizes and alignments asked for
          MaxAreas    \* bound on the areas handed out by each

Header == 3  \* size, is_free and next

ASSUME MemoryAssumption ==
  /\ {PoolSize, HeapSize, PageWords, MaxAreas} \subseteq Nat /\ PoolSize > Header /\ PageWords > 0
  /\ Requests \subseteq [size : Nat, align : Nat \ {0}]

VARIABLES pool,       \* the blocks of the free_list, <<>> before the first call
          areas,      \* history: what my_malloc handed out and was not freed
          cut,        \* a free wrote over the link of a block
          heap_base,
          given       \* history: what mem_alloc handed out

memvars == <<pool, areas, cut, heap_base, given>>

align_size(n, a) == ((n + a - 1) \div a) * a
Area(at, size) == at .. at + size - 1

-----------------------------------------------------------------------------
(* The pool.                                                               *)
BlockAt(at, size, free) == [at |-> at, size |-> size, free |-> free]
memory_pool_init == <<BlockAt(0, PoolSize - Header, TRUE)>>

Start(b)      == b.at + Header
Padding(b, a) == align_size(Start(b), a) - Start(b)

\* Mutant: the padding before the aligned address is not counted.
FitsUnpadded(b, size, a) == b.free /\ b.size >= size

Fits(b, size, a) == b.free /\ b.size >= size + Padding(b, a)

split_block(b, size) ==
  <<BlockAt(b.at, size, FALSE), BlockAt(b.at + Header + size, b.size - size - Header, TRUE)>>

\* The first block that fits; the rest of it becomes a block if there is room
\* for its header.
my_malloc(req) ==
  LET list == IF pool = <<>> THEN memory_pool_init ELSE pool
      size == align_size(req.size, req.align)
      hits == {i \in 1 .. Len(list) : Fits(list[i], size, req.align)}
      i    == CHOOSE j \in hits : \A k \in hits : j <= k
      b    == list[i]
      need == size + Padding(b, req.align)
      new  == IF b.size > need + Header THEN split_block(b, need) ELSE <<[b EXCEPT !.free = FALSE]>>
  IN /\ ~cut /\ Cardinality(areas) < MaxAreas
     /\ pool' = IF hits = {} THEN list
                ELSE SubSeq(list, 1, i - 1) \o new \o SubSeq(list, i + 1, Len(list))
     /\ areas' = IF hits = {} THEN areas
                 ELSE areas \cup {[at |-> Start(b) + Padding(b, req.align), size |-> req.size]}
     /\ UNCHANGED <<cut, heap_base, given>>

\* One pass over the list: a block swallows the free one behind it, and the
\* pass goes on behind both.
Coalesce(list) ==
  LET c[i \in 1 .. Len(list) + 1] ==
        IF i > Len(list) THEN <<>>
        ELSE IF i < Len(list) /\ list[i].free /\ list[i + 1].free
          THEN <<[list[i] EXCEPT !.size = @ + list[i + 1].size + Header]>> \o c[i + 2]
        ELSE <<list[i]>> \o c[i + 1]
  IN c[1]

\* The header is taken to be right before the area. Behind a padding it is not:
\* the store hits the padding, or, behind one word of it, the block's next.
my_free(area) ==
  /\ ~cut
  /\ areas' = areas \ {area}
  /\ cut' = (\E i \in 1 .. Len(pool) : area.at = Start(pool[i]) + 1)
  /\ pool' = Coalesce([i \in 1 .. Len(pool) |->
                IF Start(pool[i]) = area.at THEN [pool[i] EXCEPT !.free = TRUE] ELSE pool[i]])
  /\ UNCHANGED <<heap_base, given>>

-----------------------------------------------------------------------------
(* The bare-metal heap. Nothing is ever given back to it.                  *)
is_power_of_2(n) == \E k \in 0 .. n : n = 2 ^ k

ADDR_ALIGN(n, a) == ((n + a - 1) \div a) * a

heap_alloc(a, size) ==
  LET addr == ADDR_ALIGN(heap_base, a)
      room == size + addr - heap_base
  IN IF HeapSize - heap_base < room THEN UNCHANGED <<heap_base, given>>
     ELSE /\ heap_base' = heap_base + room
          /\ given' = Append(given, [at |-> addr, size |-> size - (a - 1), align |-> a])

mem_alloc(a, size) ==
  IF size = 0 \/ ~is_power_of_2(a) THEN UNCHANGED <<heap_base, given>>
  ELSE heap_alloc(a, size + a - 1)

pal_mem_alloc(size)           == mem_alloc(1, size)
pal_mem_calloc(num, size)     == mem_alloc(1, num * size)
pal_mem_allocate_shared(n, size) == pal_mem_alloc(n * size)
pal_mem_alloc_cacheable(size) == mem_alloc(1, size)
pal_mem_alloc_pages(n)        == mem_alloc(PageWords, n * PageWords)
pal_aligned_alloc(a, size)    == mem_alloc(a, size)

HeapCall ==
  /\ Len(given) < MaxAreas
  /\ \/ \E r \in Requests : \/ pal_mem_alloc(r.size) \/ pal_mem_calloc(2, r.size)
                            \/ pal_mem_alloc_cacheable(r.size) \/ pal_aligned_alloc(r.align, r.size)
     \/ pal_mem_alloc_pages(1) \/ pal_mem_allocate_shared(2, 1)
  /\ UNCHANGED <<pool, areas, cut>>

\* pal_mem_free, pal_mem_free_pages and mem_free do nothing.
mem_free == given # <<>> /\ UNCHANGED memvars

-----------------------------------------------------------------------------
MemInit == pool = <<>> /\ areas = {} /\ cut = FALSE /\ heap_base = 0 /\ given = <<>>

\* With the list cut, the next walk of it leaves the pool: nothing is modelled.
PoolNext == \/ \E r \in Requests : my_malloc(r)
            \/ \E a \in areas : my_free(a)
            \/ cut /\ UNCHANGED memvars
HeapNext == HeapCall \/ mem_free

-----------------------------------------------------------------------------
PoolSound ==
  pool # <<>> =>
    /\ pool[1].at = 0
    /\ \A i \in 1 .. Len(pool) :
         pool[i].at + Header + pool[i].size = IF i = Len(pool) THEN PoolSize ELSE pool[i + 1].at
    /\ \A a \in areas : \E i \in 1 .. Len(pool) :
         ~pool[i].free /\ Start(pool[i]) <= a.at /\ a.at + a.size <= Start(pool[i]) + pool[i].size
    /\ \A a, b \in areas : a # b => Area(a.at, a.size) \cap Area(b.at, b.size) = {}

HeapSound ==
  \A i \in 1 .. Len(given) :
    /\ given[i].at % given[i].align = 0 /\ given[i].at + given[i].size <= HeapSize
    /\ \A j \in 1 .. i - 1 : given[j].at + given[j].size <= given[i].at

\* Neither allocator gives out memory twice. The blocks of the pool and their
\* headers tile it, and every area that is in use lies in a block that is not
\* free, whatever was split and merged; what the heap hands out is aligned,
\* within the heap and apart from all it handed out before.
MemorySound == PoolSound /\ HeapSound
=============================================================================
