# TLA+ models of the RME System Architecture Compliance Suite

The suite checks that a machine implements Arm's Realm Management Extension. It
runs at EL2 on bare metal or under UEFI, drives every PE, the GIC, the SMMUs and
the PCIe hierarchy, and does at EL3, through an SMC handler linked into the
trusted firmware, what EL2 may not do. A verdict of the suite is only worth
something if the suite's own concurrency, its resets and its protocols are
right. That is what these modules are about: they are translated from the C and
assembly under `src/`, definition by definition (`PROJECT.json`, "map").

## The system and its parts

| Part | Source | State | Hard behaviour | Modules |
|---|---|---|---|---|
| Test dispatch | `acs_test_infra.c`, `acs_pe_infra.c`, `acs_status.c` | per-PE status and payload pointer in shared memory, counters | PEs report while the primary polls; late and missing reports; PSCI retries | `TestInfra`, `TestVerdicts`, `TestInfraProofs` |
| PE table and stacks | `pal_pe.c`, `acs_pe_infra.c`, `ModuleEntryPoint.S` | table of MPIDRs, one allocation for all stacks | sparse affinities; PEs that come and go together | `PeTable`, `SuiteProofs` |
| Test sequence | `test_entry_rme.c`, `acs_legacy.c`, `acs_da.c`, the two applications, reset tests | flag and counters in non-volatile memory | system resets, hangs, runs on the memory of an earlier run | `RmeSuite`, `SuiteProofs`, `SuiteCountProofs` |
| EL3 access protocol | `plat_acs_smc_handler.c`, `ack_helper_functions.S`, `acs_el3.c`, memory tests | flags of `shared_data`, ELR/ESR | faults and SMCs enter one handler and are told apart by flags | `El3Access`, `El3AccessProofs`, `El3VerdictProofs` |
| EL3 tables | `val_el3/pgt_common.c` | GPT and EL3 page tables | edits of live tables, the order of stores and invalidations | `GranuleTable`, `El3Tables`, `SmmuV3QueueProofs` |
| EL2 tables | `acs_pgt.c`, `acs_memory.c`, `pal_memory.c` | page tables, counters kept between calls | recursion over blocks and pages, failed allocations | `Pgt` |
| Realm SMMU | `smmuv3_realm.c`, `ack_common.c` | as the EL2 driver, behind one register frame | two stages and a bypass, caches | `RealmSmmu` |
| Pool and heap | `smmuv3_realm.c`, `pal_misc.c` | list of blocks; a heap that only grows | splitting, alignment, merging | `Memory`, `El3AccessProofs` |
| SMMUv3 driver (EL2) | `smmu_v3/smmu_v3.c` | command queue, stream tables, context descriptors, masters | the SMMU caches, prefetches, consumes and acknowledges concurrently | `SmmuV3`, `SmmuV3StepProofs`, `SmmuV3QueueProofs`, `SmmuV3TableProofs` |
| GIC | `acs_gic*.c`, `gic/`, `pal_gic.c` | handlers, distributor, redistributor, CPU interface | interrupts at any time, those the firmware left pending too | `Gic` |
| ITS | `gic/its/` | command queue, device and LPI tables | a queue consumed concurrently, writes in flight | `Its` |
| IO virtualisation | `acs_iovirt.c`, `pal_iovirt.c` | the table built from the IORT | nodes in any order, id maps through several nodes | `Iovirt` |
| Timers and wake-up | `acs_timer.c`, `acs_wakeup.c`, `acs_wd.c`, `pal_timer_wd.c`, rme023, 024, 027 | timers, handlers | an interrupt that races the suspend or belongs to someone else | `Wakeup` |
| PCIe enumeration | `pal_pcie_enumeration.c`, `acs_pcie.c`, `pal_pcie.c` | bus numbers, windows and BARs, the device table | a recursion whose accesses are routed by the registers it is writing | `PcieEnum` |
| Configuration space | `acs_pcie.c`, `acs_da.c` | the registers of the functions | read-modify-writes of registers the function changes too | `CfgSpace` |
| Exerciser | `acs_exerciser.c`, `pal_exerciser.c` | the stimulus device's registers | requests of several fields in one register | `Exerciser` |
| Device assignment | `acs_da.c`, `pal_tdisp_spdm.c`, da008, da012 | IDE streams, DOE mailboxes, TDISP states | late devices, one step of several failing | `DeviceAssign` |

The parts meet in few places: a test of any module is dispatched by the test
dispatch; the sequence decides which tests are run and when; a payload uses the
EL3 protocol to change the granule protection table and the EL3 page tables and
to access memory with a chosen physical address space (PAS), and the drivers of
the SMMU, the GIC and PCIe to make devices access it. `Its` works on the
registers of `Gic`; `DeviceAssign` and `Exerciser` work on the functions of
`CfgSpace`.

## The modules

Variables carry the names of the program's globals; the history variables,
which no action reads, are marked in the declarations. A call that other actors can
see in pieces is several actions, with a variable for its place (`pc`, `call`,
`gcall`, `icall`, `rcall`, `job`, `da`, `wk`); a call nobody sees in pieces is one.

* **TestInfra** has one step per access to the memory the PEs share. The primary's
  `pc` walks through `val_initialize_test`, the payload, `val_execute_on_pe` (store
  of the payload pointer, CPU_ON, its retry while the PE is still on), the rounds
  and scans of `val_wait_for_test_completion` and `val_check_for_error`; each
  secondary boots, reads its payload in `val_test_entry`, reports, and switches
  itself off. A test is `single` (num_pe = 1), `payload` (all PEs at once) or
  `serial` (rme008: one PE after another). `Patient` says whether a PE always
  answers before a loop's budget is used up.
* **TestVerdicts** is the abstract promise: tests are opened one by one, a PE
  reports at most once about the open test, the verdict follows from the reports.
  `KeepsPromise` is the refinement, with `open`, `done`, `got` and `outcome`
  computed from `test`, `pc`, `reported` and `verdict`.
* **PeTable** reads the platform's PEs or the GICC structures of the MADT one by
  one (`AddPe`), allocates the stacks from the greatest affinities
  (`PalAllocateSecondaryStack`) and then switches PEs on and off in any order. A PE
  that enters at `ModuleEntryPoint` computes its own position from its MPIDR.
  Addresses are in units of 8 bytes, sizes wrap at the 32 bits of the request.
* **RmeSuite**: the position is the module and the index of its next call; a reset
  throws away everything but `flag` and `saved` in the non-volatile memory, and
  `val_rme_execute_tests` and its siblings resume from them as their gotos do. A
  test is a nondeterministic verdict. `Hang` is the user's reset of a machine that
  hangs, `UnexpectedException` the jump to the summary, `Rerun` a new run on the
  memory the last one left.
* **El3Access**: a test is a loop of rounds; a round asks for a mapping (an SMC),
  sets the flags of `shared_data` and has the address accessed at EL3 (another
  SMC). `HandleFault`, `ServeAccess` and `ToFirmware` are the three ways out of
  `ack_handler_el3`. The machine answers an access with a granule protection fault,
  quietly, or by letting it through; which answers are possible is the scenario.
* **El3Tables**: `add_mmu_entry` descends with an explicit stack of frames and takes
  new tables from `free_pa`; the PE may fill its TLB between any two steps, and
  `tlbi_vae3` drops the page whose number is its operand. It extends
  **GranuleTable**, where `add_gpt_entry` and `modify_gpt_gpi` edit the descriptors of
  the two levels, blocks and contiguous ones too.
* **Pgt**: `fill_translation_table` is a stack of activations; its static counters
  and `offset` survive between calls; an allocation may fail at every level.
* **Memory**: the pool of `smmuv3_realm.c` as a sequence of blocks with headers, and
  the heap of the bare-metal `pal_misc.c`.
* **RealmSmmu**: services of EL3 that set up a Realm SMMU. The steps an SMMU can see
  are in `rtodo`; beside it the SMMU acknowledges, consumes and caches stream table
  entries, context descriptors (read through a cached entry) and translations.
* **SmmuV3**: one action per operation of the driver, and for its steps an SMMU can
  see (`todo`): a store of a table entry (words 1 to 3 before word 0), a command
  written, a poll, a write of CR0. Beside it every SMMU acknowledges (`Ack`),
  consumes (`Consume`) and caches (`Fetch`). `prompt` says whether acknowledgements
  and polls beat the driver's timeouts.
* **Gic**: the information table of both platforms, `v2_Init` and `v3_Init` with the
  extended ranges, `val_gic_install_isr` step by step, `Raise` and the dispatcher of
  bare metal. Registers are sets of interrupts.
* **Its**: the tables of each ITS, the command queue as memory that the driver writes
  and the ITS reads at its own pace, MSI-X entries of the devices, messages on
  their way.
* **Iovirt**: the information table is a memory of consecutive cells, as in the
  program, so that a walk with a wrong block size reads the wrong cells.
* **Wakeup**: the timer table, the three wake-up tests, and timers that expire at any
  step; handlers are never removed, as in the program.
* **PcieEnum**: the recursion of `pal_pcie_enumerate_device` is an explicit stack, one
  action per function reached. Which functions answer a configuration access is
  computed from the bus registers at that moment (`Answers`), and a BAR register
  keeps only the address bits above its size. Then
  `val_pcie_create_device_bdf_table` scans through the same `Answers`.
* **CfgSpace**: every read-modify-write is a read and a write with the function's own
  changes possible between them; registers are sets of bits with their kinds
  (read-write, write-one-to-clear, read-only). Checks are sequences of such steps.
* **Exerciser**: the table and the operations on the stimulus device; what is written
  to its registers is cut to 32 bits (`Written`), and capabilities may be missing.
* **DeviceAssign**: the payloads of da008 and da012 with the driver calls they make;
  each DOE message is written, and its response read without waiting; the device
  answers when it does. That a device which is not running, or whose stream is not
  secure, has no DMA is the hardware's part (`Admitted`); `TornDown` is about devices
  that answer promptly.

`MCDevices`, `MCEl3`, `MCInterrupts`, `MCPcie` put modules that do not share state
side by side: the initial state chooses one machine of one of them and the others
stay idle. They interact only within a module or where one EXTENDS the other.

## The runs

Twelve runs; seven must pass, five must find a violation.

**infra_patient** — 3 PEs with the primary in the middle, 5 tests of all kinds,
one skipped by the user. PASS and FAIL are sound (`PassSound`, `FailSound`), no PE
runs a payload of another test than the one being run (`NoStrayPayload`), the
refinement holds (`KeepsPromise`). Three PEs are the fewest with PEs on both
sides of the primary; two tests of the same kind in a row, and every kind next to
another, occur.

**infra_timed** — PEs may be late or never answer. The suite still ends
(`Termination`), and the expiry fails a PE that exists and behind which nobody is
pending (`ExpiryBlamesLast`).

**suite** — three scenarios: all RME resets with ordinary tests between them, a
skipped test, a skipped module and a hang; the legacy module with its own reset and
the tie-off reset, PEs that may not answer and two runs; the last reset test left
out by its number.
Every selected test ran, each is counted once, a reset test passes only when it
really reset, a boot never goes back, the suite ends. One ordinary test between two
reset tests stands for all of them; a scenario bounds its hangs (one, anywhere) and
its runs (`hangs`, `runs`).

**el3** — what runs at EL3 or under it. Tests of every shape on a machine that
faults, rme004 and others on a machine that answers anything: no requested service
is lost (`ServicesRun`), each SMC and each access comes back (`HandsBack`), PASS and
FAIL mean what they say (`PassMeansProtected`, `FailMeansBreach`). The tables of
EL3 say what was asked (`El3AsAsked`; accesses through them too, but for pages whose
old translation the PE still holds, see `el3_remap`), those of EL2 translate as asked
and are given back (`RegionsMapped`, `PagesAccounted`), a Realm stream translates as
asked between calls and during calls for other streams, with entry, descriptor and
translation cached each by itself (`RlmAsAsked`), neither allocator gives memory out twice (`MemorySound`). Four
rounds let every position of the matching PAS, and two accesses in a row of each
kind, happen; three levels of tables with 1 or 2 bits each have a first, an inner
and a last level. `RegionsMapped` is about tables whose regions are each one page or
one block, or the first region of all; the others are mapped too, and for them
`PagesAccounted` is checked. The pool of 32 words holds four areas with their headers, so that
blocks are split, filled exactly and merged on both sides; the Realm queue has
8 entries and wraps.

**smmu_driver** — six scenarios: one stream mapped in both stages, remapped,
unmapped, disabled, stopped; two streams; substreams; two SMMUs beside one that is
not a v3; a two-level stream table; an SMMU that is late. Every stream translates as
promised whatever was cached before (`AsPromised`), commands are consumed in order
and never overwritten (`QueueFaithful`), no entry points to a freed table and each
table has one owner (`TablesOwned`), calls return (`Returns`). The queue has
4 entries, exactly the longest batch, so that full and empty differ in the wrap bit
alone; up to 5 calls give map, remap, unmap and map again. The driver stops when
the tests make no more calls, so deadlock is not checked.

**interrupts** — GIC machines (v2, v3, extended ranges, several redistributors,
UEFI tables, one without a distributor) and ITS machines (small tables, memory
that runs out, every page size); IORTs in every order of their nodes; eight boards
with timers and watchdog; PE tables dense and sparse. No interrupt is taken without
its handler and none is lost (`IrqSound`), frames listed in GICR structures are those
of the PE asked for (`FramesFound`), messages are mapped between calls and dead after a free
(`MsiMapped`), the table says what the IORT says (`IortFaithful`), a wake-up test
says what happened (`WakeupSound`), stacks are apart (`StacksApart`). Two handlers
and two interrupts raised give nesting, replacement and a spurious one; a queue of
32 slots and polls of 3 steps let a poll end by consumption and by being given up.
A machine may wait for an interrupt for ever, so deadlock is not checked.

**pcie** — enumeration of machines with two root ports, a switch, ports with nothing
or several functions below, two host bridges, two segments with the same bus
numbers, an ECAM one bus too short: accesses reach the bus they mean and bus ranges
nest (`BusesRouted`), BARs do not overlap and exactly the right windows let requests
through (`BarsPlaced`, in the areas of which the code keeps account: `Regular`), areas go on past what was placed (`NextIterationFree`), the
table and its queries are right (`TableRight`). Then configuration space, exerciser
and assignment: `RegistersAsAsked`, `ChecksSound`, `ExercisersAsAsked`,
`StreamsAsAsked`, `PassMeansAssigned`, `TornDown`. The window granule of 1 MB is
16 units and BARs have 1 to 64 of them, so that starts are aligned and not, areas lie
within and across granules, and BARs larger than a granule come where they fit and
where the register drops address bits (the history variable `cut`); three levels of bridges are the fewest in which a bridge has
bridges above, below and beside it; one error at any step of two calls is enough to
hit every read-modify-write; two exercisers of which one may have no DVSEC or no PASID
capability are asked for addresses below and above 4 GB; stream identifiers run out at
12, within one test when a root port has four streams. The tests stop when
they have made their calls, so deadlock is not checked.

**infra_late**, **el3_quiet**, **smmu_unmap**, **pcie_single_bar**, **el3_remap** —
expected violations, see below.

Fairness. `infra_*`: weak fairness of the primary, which runs a loop with a budget
and is never blocked; of the secondaries only when the run is patient. `suite`: the
application has one thread and no step of it blocks. `smmu_driver`: the PE runs the
driver, and an enabled SMMU makes progress as the architecture demands of it. The
other runs check safety only.

Each property has a mutant in `PROJECT.json`: a change of one definition such as a
slip in the code would make, under which the run finds the property violated.

## Disagreements between the code and what it says of itself

Each is a violation run whose counterexample TLC finds; `PROJECT.json`
("findings") quotes the line.

* `infra_late`: a PE that stores PASS just after the expiry failed it makes the test
  pass while another PE never reported (`val/src/acs_test_infra.c:494`).
* `el3_quiet`: an access that was expected to fault and did not leaves
  `exception_expected` set; the next SMC is taken for the fault
  (`test_pool/rme/test_rme025.c:78`).
* `smmu_unmap`: `val_smmu_unmap` indexes a two-level stream table as a linear one
  (`val/sys_arch_src/smmu_v3/smmu_v3.c:951`).
* `pcie_single_bar`: after a BAR on a 1 MB boundary the start of the 32-bit area does
  not move on, and the next bus gets the same address
  (`platform/pal_baremetal/src/pal_pcie_enumeration.c:109`).
* `el3_remap`: `tlbi_vae3` executes TLBI VAE3 on the address of the page where the
  instruction takes its number, so that a page mapped again is still translated as
  before (`val_el3/plat_acs_smc_handler.c:180`).

### Met while modelling

The passing runs' instances or the properties' conditions leave these out; where
the condition is in a property its comment says so.

* Dispatch: when the primary is the last PE, `val_check_for_error` judges by the first
  error it reads although the primary's own status may be PENDING
  (`acs_test_infra.c:464`).
* PE stacks: the stack pointer starts at the base plus the position times 256 bytes
  and grows down, so the PE with all affinities zero, when it is not the primary,
  runs below the allocation; a failed allocation is not noticed; the size is
  computed in 32 bits; `val_pe_get_index_mpid` gives 0 for an unknown MPIDR.
* Sequence: with the legacy module tests are counted twice and the DA module is
  skipped (`pal_misc.c:790`, `acs_da.c:70`); skipping test 32 makes the DA module,
  which "will execute all RME DA tests" (`acs_da.c:35`), run nothing (`acs_da.c:68`);
  ls003 does not save the counters; a reset test skipped by number counts twice; a
  run on the memory of an earlier run lets rme032 pass without a reset
  (`test_rme032.c:45`); `status` is assigned, not or-ed, after a reset
  (`test_entry_rme.c:80`); the tie-off is disabled through a service that does
  nothing with it (`acs_legacy.c:96`).
* EL3 tests: `acs_ldr_pas_filter` drops what it loaded (`ack_helper_functions.S:141`);
  rme028 leaves `exception_generated` set; ls002 reads a value nobody stores; rme009
  and ls002 start from an uninitialised `status_fail_cnt`, rme004's has 8 bits.
* EL3 tables: `free_pa` is never reset nor bounded; new tables are not zeroed;
  splitting a block loses its other pages; a contiguous GPT descriptor is edited in
  one entry only; only the leaf descriptor is cleaned; after `tlbi_vae3` the PE may
  still hold the old translation (`el3_remap`; mapping a page twice happens in
  `test_rme012.c:52` and `:67`).
* EL2 tables: the counters kept between calls leave pages unmapped when a region is
  more than one page or block (`acs_pgt.c`, `fill_translation_table`);
  `val_pe_mmu_map_rmv` never writes the entry back, although its comment says "Mark VA-PA
  mapping as INVALID" (`acs_pgt.c:403`; nothing calls it); `val_pgt_get_attributes`
  walks wrongly when the first level is narrower than the others; a failed allocation
  frees live tables; a region that is refused leaks the root; a block written over a
  table leaks the table, and a table written over a block loses the block's other pages.
* Allocators: a free of an area behind padding does not free it and overwrites what
  follows; `mem_free` of the heap does nothing.
* SMMU drivers: unmapping leaves a zeroed master with stream id 0 in front of the
  real one of stream 0; a stream id behind two SMMUs shares one set of context
  descriptors; `smmu_reset` returns 1 on success and on failure; the test for a full
  queue looks at indices that never move; context descriptors are freed before the
  invalidation (`smmu_v3.c:954`, `smmuv3_realm.c:1227`), so that during the call an SMMU
  that holds the old entry may read a freed descriptor; a poll that expires is reported
  and otherwise ignored. The Realm driver uses one register frame for
  all SMMUs, leaves CMDQEN set in a reset and switches the non-secure CR0.
* GIC: enabling an extended SPI writes GICD_ICENABLERE, which disables it
  (`gic_v3_extended.c:112`), and extended SPIs are routed through wrong registers
  (`:179`); a redistributor listed in a GICC structure is never found, since the table
  counts it as a GICR structure's (`pal_uefi/src/pal_gic.c:98`, `acs_gic.c:163`); frames
  are walked two by two also where a PE has four (`acs_gic.c:167`); nothing waits for
  GICR_CTLR.RWP after a disable (`gic_v3.c:206`), which is taken here as immediate; `val_gic_set_intr_trigger` for one reaches another
  register; priorities of private interrupts are written to the control frame
  (`gic_v3.c:284`); an installation that failed still enables an SPI
  (`acs_gic_support.c:143`); only the first GICR structure is searched.
* ITS: `g_cwriter_ptr` never wraps (`rme_gic_its.c:322`), so the run ends before it
  would; `TableSize` has 32 bits and a table of 4 GB or more is taken for a
  smaller one (`:200`); all devices share one interrupt translation table of 32 KB (`:281`) while
  MAPD announces every event (`:539`), so that events from 8192 on lie behind it; the redistributor base is cut to 32 bits; an MSI-X table that cannot be
  filled leaves the LPI mapped; `val_its_init` succeeds without memory.
* Iovirt: an SMMU a root complex refers to twice is listed twice when the complex
  comes first in the IORT; of two root complexes with the same segment and mappings,
  which no IORT here has, the second is taken for the first; a PMCG before its SMMU is not connected; ranges overlap
  by one at their ends.
* Timers: `val_platform_timer_get_entry_index` compares with `>` and looks the first
  timer of a later block up past the end of the one before; in rme023 and rme024 an
  interrupt before the suspend leaves nothing to wake the PE; rme027 leaves the
  watchdog armed when it gives up; a frequency of 0 disables rme023's timer.
* PCIe enumeration: an endpoint before a bridge shares its last address with the first
  BAR below the bridge (`pal_pcie_enumeration.c:306`); a BAR larger than 1 MB that ends
  an area is cut by the window and overlapped by the next bus (`:111`, `:425`); one that
  starts where it is not aligned lies below the address the allocator goes on from
  (`:356`), and the BARs of ports are never aligned; the second bridge past the
  last bus is walked outside the ECAM (`:450`); 64-bit windows overwrite 32-bit
  prefetchable ones (`:167`); `pal_pcie_get_root_port_bdf` gives up at the first table
  entry (`pal_pcie.c:709`); the device table has a fixed size (`acs_pcie.c:575`).
* Configuration space: seven read-modify-writes (bus master, memory space, error
  reporting, target abort) write back status bits that are cleared by writing them
  (`acs_pcie.c:1200`, `:1234`, `:1487`); the check for RMSD write protection fails the
  register when the write was blocked, the reverse of its comment (`acs_pcie.c:2465`);
  the checks for full protection never make the root's write and pass a register the
  non-secure world can only read or only write (`acs_da.c:603`); the search for the DA capability stops at a DVSEC of
  another vendor; the TDISP address is cut to 32 bits; a check that fails leaves its
  test data behind; the ECAM base of an endpoint is that of the segment's first window.
* Exerciser: the segment is ignored; address types and MSI indices accumulate
  (`pal_exerciser.c:400`); DMA and ATS addresses and lengths are written through the
  32 bits of `pal_mmio_write` (`:131`, `:450`, `pal_misc.c:213`); a DVSEC that is not found
  is not noticed, and a read-only register, or an unknown one, is written (`:192`,
  `:455`); injecting an error overwrites the control register, and ending poison
  clears it.
* Device assignment: `pal_device_lock` and `pal_device_unlock` return 0 whatever the
  device answered and read each response without waiting; two exercisers behind one
  root port share stream 1; stream locks are never released; the RID is packed twice
  (`acs_da.c:529`) and the valid bit is stored over its base (`:412`), so that a stream
  takes every requester up to its limit; a test that draws more than 255 stream
  identifiers gives some out twice; da012 enables
  TDISP where its comment says "Disable the TDISP for RP" (`test_da012.c:158`); da011
  disables it inside its loop; da013 and da016 do not unlock.

## What is proved

TLAPS checks every proof to the last leaf. The theorems hold for every value of the
constants that the named assumptions admit. Some of the modules hold the proofs of more
than one component.

* **TestInfraProofs** — any number of PEs and tests, any kinds, any skip list, either
  value of `Patient`: type correctness (`TypeCorrect`); and, when the PEs answer in
  time, `PassIsSound`, `FailIsSound` (when the primary is not the last PE),
  `PayloadsInStep` (`NoStrayPayload`) and `WaitIsComplete` (the wait ends only when
  nobody is pending). None of these is inductive by itself. The strengthening `IInv`
  says what the primary's loops rely on: a PE that is on has the payload of the current
  test, is PENDING and lies behind the dispatch loop (`BusyInv`); PEs the loop has not
  reached are PENDING (`PendInv`); a PENDING PE behind the scan has been noticed
  (`ScanInv`); a status of the current test is backed by a report (`StatusInv`); the
  loop's progress (`ProgressInv`); nobody is pending, or someone has failed, when the
  test is judged (`JudgeInv`); and what the check has read so far (`CheckInv`).
  `SoundStep` has one proof step per action; `ConcludeSound` gets the verdict's
  soundness from it. When the PEs do not answer in time, `ExpiryIsRight` says whom the
  wait blames (`ExpiryBlamesLast`).

  `DispatchKeepsPromise`: under the same conditions TestInfra implements TestVerdicts.
  The initial states map to initial states, and each step to a step or a stutter: the
  start of a test to `Open`, a report to `Hear`, the judgement to `Close`, everything
  else to nothing. On top of `IInv` it needs `ReportInv`: no report is ahead of the
  test being run, and what was heard of a PE about it is its status.
* **SuiteProofs**, the sequence — for every list of calls in which each reset test is
  called twice in a row and rme032 is the last of them, as `test_entry_rme.c` calls
  them (`SuiteAssumption`), every choice of modules, every skip list and any number of
  hangs: `ResetsAreReal` (`PassedAfterReset`), `NoTestIsLost` (`EveryTestRan`) and the
  action property `NoBootGoesBack` (`NeverBackwards`). The invariant relates the
  position, the flag in the non-volatile memory and the history: the RME module is
  never before the place its flag stands for (`PlaceInv`), a flag was written by a test
  that asked for its reset (`ArmedInv`), and every call before the position, or before
  the place the flag stands for, has an outcome (`RanInv`). The order of rme032 matters
  (`FlagInv`): it replaces the flags of the other reset tests, which the DA module
  would take for those of an interrupted run.
* **SuiteCountProofs** — `CountersAreRight` (`CountedOnce`): the counters of a first
  run's summary count every test once with its last outcome, however many boots it
  took. `CountedOnce` says where the code does not promise it: a second run starts from
  the first one's counters, ls003 does not save them, a reset between the store of the
  flag and that of the counters loses what lay in between, rme031 counts twice when it
  gives up before its reset, and a reset test left out by its number counts at each of
  its two calls. The invariant on top of the sequence's: behind a reset test the flag
  stands at least at that test's place, so that a boot never takes up counters older
  than what was run since (`OrderInv`); and the counters are those of the tests called
  before the place the run has come to, as the saved ones are those at the call that
  saved them (`CountInv`). One lemma per way of changing them: a test that ends is
  counted and joins the tests before the place (`FinishCounts`), a reset test saves
  (`ArmCounts`), its second call takes the saved counters up and counts it
  (`ResumeCounts`). It needs what `SuiteAssumption` says besides: every RME test that
  is not a reset test, and every DA test, is called once.
* **El3AccessProofs** — for any number of rounds and any set of scenarios whose scripts
  are orderly (`OrderlyScripts`: a test maps before it accesses in a round, and one
  that leaves its expectation standing runs only where a refused access faults; TLC
  evaluates it on the instance). `ServicesAlwaysRun` and `HandsAlwaysBack`: the
  invariant says where the script and the PE are (`PlaceInv`), that what was mapped
  stays so to the end of the round (`MapInv`), and that at the vector an expectation
  belongs to a fault or to the access about to be made and elsewhere is not standing,
  except behind an access whose test takes it back (`FlagInv`): the handler tells a
  fault from an SMC by these flags alone. What the verdicts need of a machine that
  complies (`SoundInv`, `SeeingInv`) is proved there too.
* **El3VerdictProofs** — the verdicts of the memory tests: `PassesAreEarned`
  (`PassMeansProtected`) holds for tests of stores on a machine that answers an access
  of a wrong PAS in any way, and for all orderly scripts on a machine that complies
  (`Sound`). The tests of filtered loads on a machine that does not comply are outside
  it for a reason: what they load is thrown away (see above), so they pass. The
  invariant for stores (`StoreInv`): what the machine did wrong in this test is
  counted, about to be seen by the test's check, or has ended the suite, even if an
  expectation left by an earlier test swallows the mapping. `FirstFailureIsReal` says
  for any machine that the first failure is the machine's, and `FailuresAreReal`
  (`FailMeansBreach`) that all are where a run has one test or the machine complies.
  The invariant (`CountInv`) says which flags a compliant machine leaves at each point;
  it needs `JudgedScripts`: no test that judges faults follows rme028, which leaves
  `exception_generated` set.
* **El3AccessProofs**, the heap — `HeapApart`, for any heap and any requests: what
  `mem_alloc` hands out is aligned, within the heap and apart from all it handed out
  before. The invariant: everything handed out lies below `heap_base`.
* **SmmuV3QueueProofs**, the granule protection table — `GranulesAsAsked`: `GptAsAsked`, the
  part of `El3AsAsked` about the GPT, for every width of the two levels, every set of
  GPIs and every sequence of calls. `GptSpec` is what `El3Tables` does to `gpt` and
  `set`: calls of `SetGpi`, the body of `AddGptEntry`, and nothing else. Its initial
  tables are any blocks, contiguous descriptors and granules in which no level 1 table
  belongs to two entries (`GptOk`), which the code relies on: it writes through a
  table's base without asking who else points there. The argument is arithmetic: two
  pages with the same level 0 and level 1 index share the quotient by 16, and their
  place among the 16 GPIs tells them apart (`DivTwice`, `OneRange`). The provers do not
  evaluate powers, so `GptAssumption` says of them what is used; TLC evaluates it.
* **SmmuV3QueueProofs**, the command queue — `NoCommandIsLost` (`QueueFaithful`), for any
  number of SMMUs and any calls, when the queue has at least four entries (`Nent >= 4`; SMMU_IDR1.CMDQS
  gives its size) and the SMMU is prompt. `smmu_cmdq_write_cmd` never finds the queue
  full because every run of commands a call issues is polled after at most four
  (`Polled`), of which `TodoInv` speaks for the steps to come and `PendInv` for the
  commands outstanding; `QueueInv` relates the two pointers with their wrap bit to the
  commands in the buffer (`Distance`, arithmetic modulo twice the size). What every
  step does to the queue and to the steps to come is stated once for both SMMU proofs,
  in **SmmuV3StepProofs**.
* **SmmuV3TableProofs** — `TablesHaveOneOwner` (`TablesOwned`), when the scenarios are
  `Unmappable`: if there are unmaps at all, the maps are into one-level tables and no
  two SMMUs map the same stream id. Both are what the code relies on: `smmu_master_at`
  looks a master up by its stream id alone, and in a two-level table the unmap clears
  words of the first level and leaves the entry. The invariant (`OwnInv`): every entry
  that points to a table, stored or among the steps still to come, has a master that
  owns it, and the allocated tables are those of the masters, one each.
* **SuiteProofs**, the stacks — `SecondariesApart`: for every table of distinct MPIDRs
  (`PeAssumption`), however sparse, and every order in which PEs are switched on and
  off, the stacks of PEs that are on do not meet and lie in the allocation (the PE of
  affinity zero aside), and each finds the slot of its own payload. The argument: the
  position in the stack area is a number in mixed radix whose digits are the affinities
  and whose radices are the greatest affinities plus one (`Digit`, `Radix`, `Below`,
  `Digits`), so different MPIDRs get different positions below the product
  (`OnePlaceEach`, `PlaceForEach`). `PeInv` carries the facts that make this apply: the
  maxima bound the table read so far (`TableInv`), the allocation was made for the
  final maxima (`StackInv`), a PE that is on is in the table (`CpuInv`).

### Only model-checked

Liveness under fairness (`Termination`, `Returns`) and ENABLED are outside what TLAPS
proves. So is induction over data: the merging of the pool's blocks (`Coalesce`), the
walks of page tables, id maps and configuration space, and `GetEntryIndex` are
recursive functions, whose result for every input cannot be proved with these
provers; `MemorySound` is therefore proved for the heap and checked for the pool. Of
`SmmuV3` what the translations come to (`AsPromised`, which ranges over the caches)
is checked only; so are, of `El3Tables`, the stage 1 tables of EL3 and the TLB, and the
properties of `Pgt`, `RealmSmmu`, `Gic`, `Its`, `PcieEnum`, `CfgSpace`, `Exerciser`,
`DeviceAssign`, `Wakeup` and `Iovirt`, on the instances above.

## Not modelled, and why

* Tests that read a register and compare it (most of the DA tests, rme001, 003, ls001,
  004, i001 and others): no state of the suite changes between the read and the verdict. Their
  dispatch is in TestInfra.
* i002, and test_g001's loop over devices: a line of calls of modules that are
  modelled by themselves; all of them at once, at the bounds at which each is
  interesting, is out of TLC's reach.
* MEC, encryption and cache maintenance tests: they compare values the machine
  computes; a model would state what the machine should do, not what the suite does.
* `val_pcie_write_detect_bitfield_check`, the address association comparisons of
  `acs_da.c:122`, `val_get_exerciser_err_info`: tables and comparisons of data.
* Peripheral, DMA and ACPI tables: copied once and only read; no test calls
  `val_dma_*`.
* UEFI's PCIe and exerciser layers: reads of firmware tables, or the bare-metal code
  with other accessors.
* Printing, strings, UART, command line: I/O without a property.
* Assembly other than the EL3 handler and `ModuleEntryPoint`: single instructions,
  part of the actions that use them.
* Hardware (SMMU, GIC, ITS, timers, devices, PSCI) is modelled as far as the code
  relies on it, and marked external in the map.

`PROJECT.json` lists the parts with their status ("components") and what is hard to
test in them ("hazards"), with the properties that cover each.
