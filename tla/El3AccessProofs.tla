-------------------------- MODULE El3AccessProofs ---------------------------
(***************************************************************************)
(* The bare-metal heap: what it hands out is apart, for every size of it   *)
(* and every request. And the protocol with EL3, for every script of the   *)
(* suite's kinds of steps, of any length and with any number of rounds:    *)
(* ack_handler_el3 runs every service and hands control back to the test,  *)
(* and on a machine that complies no access is wrongly granted.            *)
(***************************************************************************)
EXTENDS El3Access, Memory, TLAPS

-----------------------------------------------------------------------------
(* The bare-metal heap.                                                    *)

HeapSpec == MemInit /\ [][HeapNext]_memvars

Given == [at : Nat, size : Nat, align : Nat \ {0}]

\* All that was handed out lies below heap_base.
HeapInv ==
  /\ heap_base \in 0 .. HeapSize
  /\ given \in Seq(Given)
  /\ \A i \in 1 .. Len(given) :
       /\ given[i].at % given[i].align = 0 /\ given[i].at + given[i].size <= heap_base
       /\ \A j \in 1 .. i - 1 : given[j].at + given[j].size <= given[i].at

-----------------------------------------------------------------------------
LEMMA Multiple == ASSUME NEW e \in Nat, NEW a \in Nat \ {0} PROVE (e * a) % a = 0
<1> DEFINE q == (e * a) \div a
           r == (e * a) % a
<1>1. e * a \in Nat OBVIOUS
<1>2. q \in Int /\ r \in 0 .. a - 1 /\ e * a = a * q + r BY <1>1
<1>3. CASE e <= q
  <2>1. a * e <= a * q BY <1>2, <1>3
  <2> QED BY <1>2, <2>1
<1>4. CASE e >= q + 1
  <2>1. a * e >= a * q + a BY <1>2, <1>4
  <2> QED BY <1>2, <2>1
<1> QED BY <1>2, <1>3, <1>4

\* The address handed out is the next multiple of the alignment.
LEMMA Aligned ==
  ASSUME NEW n \in Nat, NEW a \in Nat \ {0}
  PROVE  /\ ADDR_ALIGN(n, a) \in Nat /\ ADDR_ALIGN(n, a) % a = 0
         /\ n <= ADDR_ALIGN(n, a)
<1> DEFINE q == (n + a - 1) \div a
           r == (n + a - 1) % a
<1>1. n + a - 1 \in Nat OBVIOUS
<1>2. q \in Nat /\ r \in 0 .. a - 1 /\ n + a - 1 = a * q + r BY <1>1
<1>3. q * a \in Nat /\ q * a = a * q BY <1>2
<1>4. (q * a) % a = 0 BY Zenon, <1>2, Multiple
<1>5. n <= q * a BY <1>2, <1>3
<1> HIDE DEF q
<1> QED BY <1>3, <1>4, <1>5 DEF ADDR_ALIGN, q

-----------------------------------------------------------------------------
\* One call, of any size and alignment: it takes room above heap_base or fails.
LEMMA AllocStep ==
  ASSUME HeapInv, NEW a \in Nat \ {0}, NEW size \in Nat, mem_alloc(a, size)
  PROVE  HeapInv'
<1>h. heap_base \in Nat /\ HeapSize \in Nat /\ heap_base <= HeapSize BY MemoryAssumption DEF HeapInv
<1>1. CASE UNCHANGED <<heap_base, given>> BY <1>1 DEF HeapInv
<1>2. CASE ~UNCHANGED <<heap_base, given>>
  <2> DEFINE addr == ADDR_ALIGN(heap_base, a)
             new  == [at |-> addr, size |-> size, align |-> a]
  <2>1. addr \in Nat /\ addr % a = 0 /\ heap_base <= addr BY <1>h, Aligned
  <2>2. /\ heap_base' = heap_base + ((size + a - 1) + addr - heap_base)
        /\ given' = Append(given, [at |-> addr, size |-> (size + a - 1) - (a - 1), align |-> a])
        /\ ~(HeapSize - heap_base < (size + a - 1) + addr - heap_base)
    BY <1>2 DEF mem_alloc, heap_alloc
  <2> HIDE DEF addr
  <2>3. heap_base' = addr + size + a - 1 /\ heap_base' <= HeapSize BY <1>h, <2>1, <2>2
  <2>4. given' = Append(given, new)
    <3>1. (size + a - 1) - (a - 1) = size OBVIOUS
    <3> QED BY <2>2, <3>1
  <2>5. new \in Given BY <2>1 DEF Given
  <2>6. given \in Seq(Given) BY DEF HeapInv
  <2>7. /\ given' \in Seq(Given) /\ Len(given') = Len(given) + 1 /\ Len(given) \in Nat
        /\ given'[Len(given) + 1] = new
        /\ \A i \in 1 .. Len(given) : given'[i] = given[i]
    BY <2>4, <2>5, <2>6
  <2>8. \A i \in 1 .. Len(given) : given[i].at + given[i].size <= heap_base BY DEF HeapInv
  <2>9. ASSUME NEW i \in 1 .. Len(given')
        PROVE  /\ given'[i].at % given'[i].align = 0 /\ given'[i].at + given'[i].size <= heap_base'
               /\ \A j \in 1 .. i - 1 : given'[j].at + given'[j].size <= given'[i].at
    <3>1. CASE i = Len(given) + 1
      <4>1. given'[i] = new BY <2>7, <3>1
      <4>2. new.at % new.align = 0 /\ new.at + new.size <= heap_base' BY <2>1, <2>3
      <4>3. ASSUME NEW j \in 1 .. i - 1 PROVE given'[j].at + given'[j].size <= new.at
        <5>1. j \in 1 .. Len(given) BY <2>7, <3>1
        <5>2. given[j] \in Given BY <2>6, <5>1
        <5>3. given'[j] = given[j] /\ given[j].at + given[j].size <= heap_base BY <2>7, <2>8, <5>1
        <5> QED BY <1>h, <2>1, <5>2, <5>3 DEF Given
      <4> QED BY <4>1, <4>2, <4>3
    <3>2. CASE i # Len(given) + 1
      <4>1. i \in 1 .. Len(given) BY <2>7, <3>2
      <4>2. given'[i] = given[i] /\ given[i] \in Given BY <2>6, <2>7, <4>1
      <4>3. given[i].at + given[i].size <= heap_base' BY <1>h, <2>1, <2>3, <2>8, <4>1, <4>2 DEF Given
      <4>4. \A j \in 1 .. i - 1 : given'[j] = given[j] BY <2>7, <4>1
      <4> QED BY <4>1, <4>2, <4>3, <4>4 DEF HeapInv
    <3> QED BY <3>1, <3>2
  <2>10. heap_base' \in 0 .. HeapSize BY <1>h, <2>1, <2>3
  <2> QED BY <2>7, <2>9, <2>10 DEF HeapInv
<1> QED BY <1>1, <1>2

\* What the bare-metal heap hands out is aligned as asked, within the heap and
\* apart from all it handed out before, for every size of the heap, size and
\* alignment of the requests and number of calls.
THEOREM HeapApart == HeapSpec => []HeapSound
<1>1. MemInit => HeapInv BY MemoryAssumption DEF MemInit, HeapInv
<1>2. HeapInv /\ [HeapNext]_memvars => HeapInv'
  <2> SUFFICES ASSUME HeapInv, [HeapNext]_memvars PROVE HeapInv'
    OBVIOUS
  <2>1. CASE UNCHANGED memvars BY <2>1 DEF memvars, HeapInv
  <2>2. CASE mem_free BY <2>2 DEF mem_free, memvars, HeapInv
  <2>3. CASE HeapCall
    <3> USE DEF pal_mem_alloc, pal_mem_calloc, pal_mem_alloc_cacheable, pal_aligned_alloc, pal_mem_alloc_pages,
                pal_mem_allocate_shared
    <3>1. CASE \E r \in Requests : \/ pal_mem_alloc(r.size) \/ pal_mem_calloc(2, r.size)
                                   \/ pal_mem_alloc_cacheable(r.size) \/ pal_aligned_alloc(r.align, r.size)
      <4>1. PICK r \in Requests : \/ pal_mem_alloc(r.size) \/ pal_mem_calloc(2, r.size)
                                  \/ pal_mem_alloc_cacheable(r.size) \/ pal_aligned_alloc(r.align, r.size)
        BY <3>1
      <4>2. r.size \in Nat /\ r.align \in Nat \ {0} /\ 2 * r.size \in Nat /\ 1 \in Nat \ {0} BY MemoryAssumption
      <4> QED BY <4>1, <4>2, AllocStep
    <3>2. CASE pal_mem_alloc_pages(1) \/ pal_mem_allocate_shared(2, 1)
      <4>1. PageWords \in Nat \ {0} /\ 1 * PageWords \in Nat /\ 1 \in Nat \ {0} /\ 2 * 1 \in Nat BY MemoryAssumption
      <4> QED BY <3>2, <4>1, AllocStep
    <3> QED BY <2>3, <3>1, <3>2 DEF HeapCall
  <2> QED BY <2>1, <2>2, <2>3 DEF HeapNext
<1>3. HeapInv => HeapSound
  <2> SUFFICES ASSUME HeapInv, NEW i \in 1 .. Len(given)
               PROVE  /\ given[i].at % given[i].align = 0 /\ given[i].at + given[i].size <= HeapSize
                      /\ \A j \in 1 .. i - 1 : given[j].at + given[j].size <= given[i].at
    BY DEF HeapSound
  <2>1. given[i] \in Given /\ HeapSize \in Nat BY MemoryAssumption DEF HeapInv
  <2>2. /\ given[i].at % given[i].align = 0 /\ given[i].at + given[i].size <= heap_base
        /\ \A j \in 1 .. i - 1 : given[j].at + given[j].size <= given[i].at
    BY DEF HeapInv
  <2>3. given[i].at \in Nat /\ given[i].size \in Nat  BY <2>1 DEF Given
  <2>5. heap_base \in Nat /\ heap_base <= HeapSize  BY <2>1 DEF HeapInv
  <2>4. given[i].at + given[i].size <= HeapSize  BY <2>1, <2>2, <2>3, <2>5
  <2> QED BY <2>2, <2>4
<1> QED BY <1>1, <1>2, <1>3, PTL DEF HeapSpec

-----------------------------------------------------------------------------
(* The access protocol.                                                    *)

\* The instructions an exception to EL3 may be taken at.
Places == {"smc", "mut", "watchdog", "list"}

\* Where the script is, and that flags are Booleans.
PlaceInv ==
  /\ scenario \in Scenarios
  /\ test \in Nat \ {0} /\ op \in Nat \ {0}
  /\ Running => op <= Len(Test.body)
  /\ cpu # "el2" => Running
  /\ expected \in BOOLEAN /\ mut \in BOOLEAN /\ mapped \in BOOLEAN
  /\ elr \in Places /\ saved \in Places
  /\ breach \in BOOLEAN /\ blind \in BOOLEAN /\ swallowed \in Nat
  /\ results \in Seq([pass : BOOLEAN, breach : BOOLEAN, blind : BOOLEAN])

\* What is mapped stays so to the end of the round.
MapInv ==
  Compliant /\ Running =>
    /\ cpu = "judge" /\ Step = Map => mapped
    /\ (\E j \in 1 .. op - 1 : Test.body[j] = Map) /\ (cpu = "el2" \/ Step # Map) => mapped

\* At the vector an expectation belongs to a fault, or to the access that is
\* about to be made; elsewhere in EL3 and in EL2 it is not standing, except
\* behind an access whose test takes it back.
Flags ==
  /\ swallowed = 0 /\ saved = "smc"
  /\ cpu \in {"el2", "vector", "str", "ldr", "read", "acs_end", "firmware", "watchdog", "judge"}
  /\ cpu \in {"el2", "firmware", "read", "watchdog"} => ~expected
  /\ cpu # "vector" => ~mut
  /\ cpu = "vector" => /\ elr \in {"smc", "mut", "watchdog"}
                       /\ elr = "smc" => esr = "smc" /\ (expected => mut) /\ (mut <=> Now.kind = "access")
                       /\ elr # "smc" => expected /\ ~mut
  /\ cpu = "firmware" => esr = "smc" /\ Now.kind # "access"
  /\ mut \/ cpu \in {"str", "ldr", "read"} => expected = Now.expects
  /\ cpu \in {"str", "ldr", "read", "acs_end"} \/ (cpu = "vector" /\ elr = "mut") => Now.kind = "access"
  /\ cpu \in {"acs_end", "judge"} /\ expected => Now = TakenBack
  /\ cpu = "watchdog" \/ (cpu = "vector" /\ elr = "watchdog") => Step = Watchdog

FlagInv == Compliant => Flags

IInv == PlaceInv /\ MapInv /\ FlagInv

-----------------------------------------------------------------------------
LEMMA StepKinds ==
  ASSUME NEW st \in Steps
  PROVE  /\ st.kind \in {"smc", "map", "list", "watchdog", "access", "pas"}
         /\ st.kind = "smc" <=> st = Smc
         /\ st.kind = "map" <=> st = Map
         /\ st.kind = "list" <=> st = List
         /\ st.kind = "watchdog" <=> st = Watchdog
         /\ st.kind = "access" <=> st \in {Store, Inactive, Marked}
         /\ st.kind = "pas" <=> st \in {PasAccess(Store), PasAccess(Filtered), PasAccess(TakenBack)}
BY DEF Steps, Smc, Map, List, Watchdog, Store, Inactive, Marked, PasAccess, Filtered, TakenBack, Access, Plain

\* What the tests' accesses are.
LEMMA AccessKinds ==
  /\ Store.kind = "access" /\ Store.expects = TRUE /\ Store.check = "fault"
  /\ Filtered.kind = "access" /\ Filtered.expects = TRUE /\ Filtered.check = "fault_or_init"
  /\ TakenBack.kind = "access" /\ TakenBack.expects = TRUE /\ TakenBack.clears = TRUE /\ TakenBack.check = "fault_or_init"
  /\ Inactive.kind = "access" /\ Inactive.expects = FALSE /\ Inactive.check = "init"
  /\ Marked.kind = "access" /\ Marked.expects = FALSE /\ Marked.check = "read"
  /\ Plain.kind = "access" /\ Plain.expects = FALSE /\ Plain.check = "no_fault"
  /\ \A x : PasAccess(x).same = Plain /\ PasAccess(x).other = x
  /\ Filtered # TakenBack /\ Filtered # Store /\ TakenBack # Store
BY DEF Store, Filtered, TakenBack, Inactive, Marked, Plain, PasAccess, Access

LEMMA NowKinds ==
  ASSUME Step \in Steps
  PROVE  /\ Now.kind = "access" <=> Step.kind \in {"access", "pas"}
         /\ Now.kind # "access" => Now = Step
         /\ Now.kind = "access" => \/ Now.expects = TRUE /\ ~Granted /\ Now \in {Store, Filtered, TakenBack}
                                   \/ Now.expects = FALSE /\ (Now = Inactive \/ Granted)
         /\ Now = Filtered => Step = PasAccess(Filtered)
<1>1. CASE Step.kind \notin {"access", "pas"}
  <2>1. Now = Step BY <1>1 DEF Now
  <2> QED BY <1>1, <2>1, AccessKinds
<1>2. CASE Step.kind = "access"
  <2>1. Now = Step /\ Step \in {Store, Inactive, Marked} BY <1>2, StepKinds DEF Now
  <2>2. Granted <=> Step = Marked BY <1>2, <2>1, AccessKinds DEF Granted
  <2> QED BY <1>2, <2>1, <2>2, AccessKinds
<1>3. CASE Step.kind = "pas"
  <2>1. PICK x \in {Store, Filtered, TakenBack} : Step = PasAccess(x) BY <1>3, StepKinds
  <2>2. Now = IF round = same THEN Plain ELSE x BY <1>3, <2>1, AccessKinds DEF Now
  <2>3. Granted <=> round = same BY <1>3 DEF Granted
  <2> QED BY <1>3, <2>1, <2>2, <2>3, AccessKinds
<1> QED BY Zenon, <1>1, <1>2, <1>3

\* The six accesses.
LEMMA NowIsOne ==
  ASSUME Step \in Steps, Now.kind = "access"
  PROVE  Now \in {Store, Filtered, TakenBack, Inactive, Plain} \/ (Now = Marked /\ Step = Marked)
<1>1. CASE Step.kind = "access"
  <2>1. Now = Step /\ Step \in {Store, Inactive, Marked} BY <1>1, StepKinds DEF Now
  <2> QED BY <2>1
<1>2. CASE Step.kind = "pas"
  <2>1. PICK x \in {Store, Filtered, TakenBack} : Step = PasAccess(x) BY <1>2, StepKinds
  <2>2. Now = IF round = same THEN Plain ELSE x BY <1>2, <2>1, AccessKinds DEF Now
  <2> QED BY <2>1, <2>2
<1> QED BY <1>1, <1>2, NowKinds

-----------------------------------------------------------------------------
LEMMA ScriptFacts ==
  ASSUME OrderlyScripts, NEW s \in Scenarios, NEW n \in Nat \ {0}, n <= Len(s.script)
  PROVE  /\ Len(s.script[n].body) \in Nat \ {0}
         /\ \A i \in 1 .. Len(s.script[n].body) :
              /\ s.script[n].body[i] \in Steps
              /\ s.script[n].body[i] \notin {Smc, Map} => \E j \in 1 .. i - 1 : s.script[n].body[j] = Map
              /\ s.script[n].body[i] \in {PasAccess(Filtered), Watchdog} => "quiet" \notin s.machine.mismatch
<1>1. Orderly(s) BY DEF OrderlyScripts
<1>2. n \in 1 .. Len(s.script) BY <1>1 DEF Orderly
<1> QED BY <1>1, <1>2 DEF Orderly

LEMMA StepFacts ==
  ASSUME OrderlyScripts, PlaceInv, Running
  PROVE  /\ Len(Test.body) \in Nat \ {0} /\ op \in 1 .. Len(Test.body)
         /\ Step \in Steps
         /\ Step \notin {Smc, Map} => \E j \in 1 .. op - 1 : Test.body[j] = Map
         /\ Step \in {PasAccess(Filtered), Watchdog} => "quiet" \notin scenario.machine.mismatch
<1>1. scenario \in Scenarios /\ test \in Nat \ {0} /\ test <= Len(scenario.script) /\ Test = scenario.script[test]
  BY DEF PlaceInv, Running, Test, Script
<1>2. Len(Test.body) \in Nat \ {0} BY <1>1, ScriptFacts
<1>3. op \in 1 .. Len(Test.body) BY <1>2 DEF PlaceInv
<1>4. \A i \in 1 .. Len(Test.body) :
        /\ Test.body[i] \in Steps
        /\ Test.body[i] \notin {Smc, Map} => \E j \in 1 .. i - 1 : Test.body[j] = Map
        /\ Test.body[i] \in {PasAccess(Filtered), Watchdog} => "quiet" \notin scenario.machine.mismatch
  BY Zenon, <1>1, ScriptFacts
<1> QED BY <1>2, <1>3, <1>4 DEF Step

LEMMA PlaceInit == OrderlyScripts /\ Init => PlaceInv
<1> SUFFICES ASSUME OrderlyScripts, Init PROVE PlaceInv
  OBVIOUS
<1>1. 1 <= Len(scenario.script) => Len(scenario.script[1].body) \in Nat \ {0}
  BY ScriptFacts DEF Init
<1>2. results \in Seq([pass : BOOLEAN, breach : BOOLEAN, blind : BOOLEAN]) BY DEF Init
<1>3. Running => op <= Len(Test.body) BY <1>1 DEF Init, Running, Test, Script
<1>4. /\ expected \in BOOLEAN /\ mut \in BOOLEAN /\ mapped \in BOOLEAN /\ breach \in BOOLEAN /\ blind \in BOOLEAN
  BY Zenon DEF Init
<1>5. /\ scenario \in Scenarios /\ test \in Nat \ {0} /\ op \in Nat \ {0} /\ swallowed \in Nat /\ cpu = "el2"
      /\ elr \in Places /\ saved \in Places
  BY DEF Init, Places
<1> QED BY <1>2, <1>3, <1>4, <1>5 DEF PlaceInv

\* The steps that stay in the test: the ones of EL3 and the calls of EL2.
Within == UNCHANGED <<place, results>>

LEMMA PlaceWithin ==
  ASSUME PlaceInv, Within, cpu' # "el2" => Running \/ cpu # "el2",
         expected' \in BOOLEAN, mut' \in BOOLEAN, mapped' \in BOOLEAN, breach' \in BOOLEAN, blind' \in BOOLEAN,
         elr' \in Places, saved' \in Places, swallowed' \in Nat
  PROVE  PlaceInv'
<1>1. UNCHANGED <<scenario, test, round, op, same, results>> BY DEF Within, place
<1> QED BY <1>1 DEF PlaceInv, Running, Test, Script

LEMMA PlaceStep ==
  ASSUME OrderlyScripts, PlaceInv, [Next]_vars
  PROVE  PlaceInv'
<1> USE DEF place, flags, hist
<1>0. CASE UNCHANGED vars BY <1>0 DEF vars, PlaceInv, Running, Test, Script
<1>1. CASE CallService
  <2>1. mapped' \in BOOLEAN BY Zenon, <1>1 DEF CallService, PlaceInv
  <2> QED BY Zenon, <1>1, <2>1, PlaceWithin DEF CallService, Take, Within, PlaceInv, Places
<1>2. CASE AccessMut
  <2>1. Running /\ Step \in Steps BY <1>2, StepFacts DEF AccessMut
  <2>2. expected' \in BOOLEAN BY Zenon, <1>2, <2>1, NowKinds DEF AccessMut
  <2> QED BY <1>2, <2>1, <2>2, PlaceWithin DEF AccessMut, Take, Within, PlaceInv, Places
<1>3. CASE SetWatchdog BY <1>3, PlaceWithin DEF SetWatchdog, Take, Within, PlaceInv, Places
<1>4. CASE HandleFault
  <2>1. swallowed' \in Nat BY <1>4 DEF HandleFault, asm_eret, PlaceInv
  <2> QED BY Zenon, <1>4, <2>1, PlaceWithin DEF HandleFault, Within, PlaceInv
<1>5. CASE ServeAccess BY Zenon, <1>5, PlaceWithin DEF ServeAccess, Within, PlaceInv
<1>6. CASE ToFirmware BY <1>6, PlaceWithin DEF ToFirmware, Within, PlaceInv
<1>7. CASE Perform BY <1>7, PlaceWithin DEF Perform, Note, Take, Within, PlaceInv, Places
<1>8. CASE DeadLoad BY <1>8, PlaceWithin DEF DeadLoad, Within, PlaceInv
<1>9. CASE Leave BY <1>9, PlaceWithin DEF Leave, Within, PlaceInv
<1>10. CASE Panic BY <1>10, PlaceWithin DEF Panic, Within, PlaceInv
<1>11. CASE ServeMap BY <1>11, PlaceWithin DEF ServeMap, Within, PlaceInv
<1>12. CASE access_mut BY <1>12, PlaceWithin DEF access_mut, Note, Take, Within, PlaceInv, Places
<1>13. CASE val_wd_set_ws0_el3 BY <1>13, PlaceWithin DEF val_wd_set_ws0_el3, Within, PlaceInv
<1>14. CASE WatchdogAccess BY Zenon, <1>14, PlaceWithin DEF WatchdogAccess, Note, Take, Within, PlaceInv, Places
<1>15. CASE WatchdogEnd BY <1>15, PlaceWithin DEF WatchdogEnd, Within, PlaceInv
<1>16. CASE Judge
  <2>1. PICK count : Advance(count) BY <1>16 DEF Judge
  <2>2. /\ expected' \in BOOLEAN /\ mut' \in BOOLEAN /\ mapped' \in BOOLEAN /\ swallowed' \in Nat /\ cpu' = "el2"
        /\ UNCHANGED <<elr, saved>>
    BY <1>16 DEF Judge, Reset, PlaceInv
  <2>3. Running /\ Len(Test.body) \in Nat \ {0}
    BY <1>16, StepFacts DEF Judge, PlaceInv
  <2>4. CASE op < Len(Test.body) BY <2>1, <2>2, <2>3, <2>4 DEF Advance, PlaceInv, Running, Test, Script
  <2>5. CASE ~(op < Len(Test.body)) /\ round < Test.rounds
    BY <2>1, <2>2, <2>3, <2>5 DEF Advance, PlaceInv, Running, Test, Script
  <2>6. CASE ~(op < Len(Test.body)) /\ ~(round < Test.rounds)
    <3>1. /\ results' = Append(results, [pass |-> count = 0, breach |-> breach, blind |-> blind])
          /\ scenario' = scenario /\ test' = test + 1 /\ op' = 1 /\ breach' = FALSE /\ blind' = FALSE
      BY <2>1, <2>6 DEF Advance
    <3>2. results' \in Seq([pass : BOOLEAN, breach : BOOLEAN, blind : BOOLEAN])
      <4>1. [pass |-> count = 0, breach |-> breach, blind |-> blind] \in [pass : BOOLEAN, breach : BOOLEAN, blind : BOOLEAN]
        BY DEF PlaceInv
      <4> QED BY <3>1, <4>1 DEF PlaceInv
    <3>3. test + 1 <= Len(scenario.script) => Len(scenario.script[test + 1].body) \in Nat \ {0}
      <4>1. scenario \in Scenarios /\ test + 1 \in Nat \ {0} BY DEF PlaceInv
      <4> QED BY Zenon, <4>1, ScriptFacts
    <3>4. (Running => op <= Len(Test.body))' BY <3>1, <3>3 DEF Running, Test, Script
    <3>5. breach' \in BOOLEAN /\ blind' \in BOOLEAN BY Zenon, <3>1
    <3>6. scenario' \in Scenarios /\ test' \in Nat \ {0} /\ op' \in Nat \ {0} /\ elr' \in Places /\ saved' \in Places
      BY <2>2, <3>1 DEF PlaceInv
    <3> QED BY <2>2, <3>2, <3>4, <3>5, <3>6 DEF PlaceInv
  <2> QED BY <2>4, <2>5, <2>6
<1>17. CASE End BY <1>17 DEF End, vars, PlaceInv, Running, Test, Script
<1> QED BY <1>0, <1>1, <1>2, <1>3, <1>4, <1>5, <1>6, <1>7, <1>8, <1>9, <1>10, <1>11, <1>12, <1>13, <1>14, <1>15,
           <1>16, <1>17 DEF Next

-----------------------------------------------------------------------------
(* A compliant machine has been one all along.                             *)
LEMMA CompliantStep ==
  ASSUME PlaceInv, [Next]_vars, Compliant'
  PROVE  Compliant
<1> USE DEF place, flags, hist
<1>1. CASE results' = results /\ (breach => breach')
  BY <1>1 DEF Compliant
<1>2. CASE ~(results' = results /\ (breach => breach'))
  <2>1. Judge
    <3>1. ~Perform BY Zenon, <1>2 DEF Perform, Note
    <3>2. ~access_mut BY Zenon, <1>2 DEF access_mut, Note
    <3>3. ~WatchdogAccess BY Zenon, <1>2 DEF WatchdogAccess, Note
    <3>4. ~CallService /\ ~AccessMut /\ ~SetWatchdog BY Zenon, <1>2 DEF CallService, AccessMut, SetWatchdog
    <3>5. ~HandleFault /\ ~ServeAccess /\ ~ToFirmware BY <1>2 DEF HandleFault, ServeAccess, ToFirmware
    <3>6. ~DeadLoad /\ ~Leave /\ ~Panic BY <1>2 DEF DeadLoad, Leave, Panic
    <3>7. ~ServeMap /\ ~val_wd_set_ws0_el3 /\ ~WatchdogEnd BY <1>2 DEF ServeMap, val_wd_set_ws0_el3, WatchdogEnd
    <3>8. ~End /\ ~UNCHANGED vars BY <1>2 DEF End, vars
    <3> QED BY <3>1, <3>2, <3>3, <3>4, <3>5, <3>6, <3>7, <3>8 DEF Next
  <2>2. PICK count : Advance(count) BY <2>1 DEF Judge
  <2>3. results' = Append(results, [pass |-> count = 0, breach |-> breach, blind |-> blind])
    BY <1>2, <2>2 DEF Advance
  <2>4. /\ Len(results') = Len(results) + 1 /\ Len(results) \in Nat
        /\ results'[Len(results) + 1].breach = breach
        /\ \A n \in 1 .. Len(results) : results'[n] = results[n]
    BY <2>3 DEF PlaceInv
  <2>5. \A n \in 1 .. Len(results) + 1 : ~results'[n].breach BY <2>4 DEF Compliant
  <2> QED BY <2>4, <2>5 DEF Compliant
<1> QED BY <1>1, <1>2

-----------------------------------------------------------------------------
(* The machine's answers.                                                  *)
LEMMA WrongFacts ==
  ASSUME NEW a, a # "abort"
  PROVE  /\ Granted => (Wrong(a) <=> a # "through")
         /\ ~Granted /\ Now.kind # "access" => (Wrong(a) <=> a = "through")
         /\ ~Granted /\ Now.kind = "access" /\ Now.check = "fault" => (Wrong(a) <=> a # "gpf")
         /\ ~Granted /\ Now.kind = "access" /\ Now.check # "fault" => (Wrong(a) <=> a = "through")
BY DEF Wrong

LEMMA GrantedFacts ==
  /\ Step.kind = "list" => Granted = TRUE
  /\ Step.kind = "watchdog" => Granted = FALSE
BY Zenon DEF Granted

\* An access of a test, as a compliant machine answers it: it faults exactly if
\* the test expects it, or leaves an expectation the test takes back.
LEMMA AccessAnswers ==
  ASSUME OrderlyScripts, IInv, Running, cpu # "el2", Now.kind = "access", NEW a \in Outcomes, Compliant, ~Wrong(a)
  PROVE  IF Now.expects THEN a \in {"gpf", "abort"} \/ Now = TakenBack ELSE a \notin {"gpf", "abort"}
<1>1. Step \in Steps /\ Step \notin {Smc, Map} BY StepFacts, NowKinds, StepKinds DEF IInv
<1>2. mapped BY <1>1, StepFacts DEF IInv, MapInv
<1>3. a # "abort"
  <2>1. Outcomes \subseteq {"quiet"} \cup scenario.machine.mismatch \cup scenario.machine.match
    BY <1>2 DEF Outcomes
  <2>2. scenario \in Scenarios BY DEF IInv, PlaceInv
  <2>3. scenario.machine.match \subseteq Answers /\ scenario.machine.mismatch \subseteq Answers
    BY <2>2, El3Assumption
  <2> QED BY <2>1, <2>3 DEF Answers
<1>4. CASE Now.expects = FALSE
  <2>1. CASE Now = Inactive
    BY <1>2, <1>3, <1>4, <2>1 DEF Outcomes
  <2>2. CASE Granted BY <1>3, <1>4, <2>2, WrongFacts
  <2> QED BY Zenon, <1>1, <1>4, <2>1, <2>2, NowKinds
<1>5. CASE Now.expects = TRUE
  <2>1. ~Granted /\ Now \in {Store, Filtered, TakenBack} BY Zenon, <1>1, <1>5, NowKinds
  <2>2. Now # Inactive BY <1>5, AccessKinds
  <2>3. a \in scenario.machine.mismatch BY <1>2, <2>1, <2>2 DEF Outcomes
  <2>4. CASE Now = Store BY <1>3, <1>5, <2>1, <2>4, WrongFacts, AccessKinds
  <2>5. CASE Now = Filtered
    <3>1. "quiet" \notin scenario.machine.mismatch BY <1>1, <2>5, NowKinds, StepFacts DEF IInv
    <3>2. a # "through" BY <1>3, <2>1, <2>5, WrongFacts, AccessKinds
    <3>3. a \in Answers BY <2>3, El3Assumption DEF IInv, PlaceInv
    <3> QED BY <1>5, <2>3, <3>1, <3>2, <3>3 DEF Answers
  <2> QED BY <1>5, <2>1, <2>4, <2>5
<1> QED BY Zenon, <1>1, <1>4, <1>5, NowKinds

\* The accesses of the list and of the watchdog's registers.
LEMMA ServiceAnswers ==
  ASSUME OrderlyScripts, IInv, Running, cpu # "el2", Step \in {List, Watchdog}, NEW a \in Outcomes, Compliant, ~Wrong(a)
  PROVE  IF Step = List THEN a = "through" ELSE a = "gpf"
<1>1. Step \in Steps /\ Step \notin {Smc, Map} /\ Step.kind \in {"list", "watchdog"} /\ Now = Step /\ Now.kind # "access"
  <2>1. Step \in Steps BY StepFacts DEF IInv
  <2>2. Step.kind \in {"list", "watchdog"} BY DEF List, Watchdog
  <2>3. Step \notin {Smc, Map} BY <2>2 DEF Smc, Map
  <2> QED BY <2>1, <2>2, <2>3, NowKinds
<1>2. mapped BY <1>1, StepFacts DEF IInv, MapInv
<1>3. Now # Inactive BY <1>1, AccessKinds
<1>4. a \in IF Granted THEN scenario.machine.match ELSE scenario.machine.mismatch BY <1>2, <1>3 DEF Outcomes
<1>5. a \in Answers BY <1>4, El3Assumption DEF IInv, PlaceInv
<1>6. a # "abort" BY <1>5 DEF Answers
<1>7. CASE Step = List
  <2>1. Granted BY <1>7, GrantedFacts DEF List
  <2> QED BY <1>6, <1>7, <2>1, WrongFacts
<1>8. CASE Step = Watchdog
  <2>1. ~Granted /\ Step # List BY <1>8, GrantedFacts DEF List, Watchdog
  <2>2. "quiet" \notin scenario.machine.mismatch BY <1>8, StepFacts DEF IInv
  <2>3. a # "through" BY Zenon, <1>1, <1>6, <2>1, WrongFacts
  <2> QED BY <1>4, <1>5, <1>8, <2>1, <2>2, <2>3 DEF Answers
<1> QED BY <1>7, <1>8

-----------------------------------------------------------------------------
\* The steps that stay in the test and map nothing, or map at the Map step.
LEMMA MapStep ==
  ASSUME OrderlyScripts, IInv, [Next]_vars
  PROVE  MapInv'
<1> USE DEF place, flags, hist, IInv
<1> SUFFICES ASSUME Compliant', Running'
             PROVE  /\ cpu' = "judge" /\ Step' = Map => mapped'
                    /\ (\E j \in 1 .. op' - 1 : Test.body[j]' = Map) /\ (cpu' = "el2" \/ Step' # Map) => mapped'
  BY DEF MapInv
<1>c. Compliant BY Zenon, CompliantStep
<1>0. CASE UNCHANGED vars BY <1>0, <1>c DEF vars, MapInv, Running, Step, Test, Script
<1>1. CASE CallService
  <2>1. Running /\ Step \in Steps BY Zenon, <1>1, StepFacts DEF CallService
  <2>2. Step # Map => mapped' = mapped BY ZenonT(30), <1>1, <2>1, StepKinds DEF CallService
  <2> QED BY Zenon, <1>1, <1>c, <2>1, <2>2 DEF CallService, Take, MapInv, Running, Step, Test, Script
<1>2. CASE AccessMut
  <2>1. Step # Map BY <1>2, StepFacts, NowKinds, StepKinds DEF AccessMut
  <2> QED BY Zenon, <1>2, <1>c, <2>1 DEF AccessMut, Take, MapInv, Running, Step, Test, Script
<1>3. CASE SetWatchdog BY Zenon, <1>3, <1>c DEF SetWatchdog, Take, MapInv, Running, Step, Test, Script
<1>4. CASE ServeMap
  <2>1. Running /\ Step \in Steps BY <1>4, StepFacts DEF ServeMap, PlaceInv
  <2>2. Step = Map => mapped' BY Zenon, <1>4, <2>1, StepKinds DEF ServeMap
  <2>3. mapped => mapped' BY Zenon, <1>4 DEF ServeMap
  <2> QED BY <1>4, <1>c, <2>1, <2>2, <2>3 DEF ServeMap, MapInv, Running, Step, Test, Script
<1>5. CASE Judge
  <2>1. PICK count : Advance(count) BY <1>5 DEF Judge
  <2>2. Running /\ op \in 1 .. Len(Test.body) BY <1>5, StepFacts DEF Judge, PlaceInv
  <2>3. cpu = "judge" /\ cpu' = "el2" /\ mapped' = mapped BY <1>5 DEF Judge
  <2>4. CASE op < Len(Test.body)
    <3>1. op' = op + 1 /\ UNCHANGED <<scenario, test>> BY <2>1, <2>4 DEF Advance
    <3>2. ASSUME NEW j \in 1 .. op' - 1, Test.body[j]' = Map PROVE mapped
      <4>1. Test.body[j] = Map /\ j \in 1 .. op BY <3>1, <3>2, <2>2 DEF Test, Script
      <4>2. CASE j = op BY <1>c, <2>2, <2>3, <4>1, <4>2 DEF MapInv, Step
      <4>3. CASE j # op
        <5>1. j \in 1 .. op - 1 BY <4>1, <4>3, <2>2
        <5> QED BY <1>c, <2>2, <2>3, <4>1, <5>1 DEF MapInv
      <4> QED BY <4>2, <4>3
    <3> QED BY <2>3, <3>2
  <2>5. CASE ~(op < Len(Test.body))
    <3>1. op' = 1 BY <2>1, <2>5 DEF Advance
    <3> QED BY <2>3, <3>1
  <2> QED BY <2>4, <2>5
<1>6. CASE HandleFault \/ ServeAccess \/ ToFirmware \/ Perform \/ DeadLoad \/ Leave \/ Panic \/ access_mut
           \/ val_wd_set_ws0_el3 \/ WatchdogAccess \/ WatchdogEnd
  <2>1. Within /\ mapped' = mapped /\ cpu \notin {"el2", "judge"} /\ cpu' # "el2" /\ Running
    <3>1. CASE HandleFault BY Zenon, <1>6, <3>1 DEF HandleFault, asm_eret, Within, PlaceInv
    <3>2. CASE ServeAccess \/ ToFirmware BY Zenon, <1>6, <3>2 DEF ServeAccess, ToFirmware, Within, PlaceInv
    <3>3. CASE Perform \/ DeadLoad \/ Leave BY Zenon, <1>6, <3>3 DEF Perform, Take, DeadLoad, Leave, Within, PlaceInv
    <3>4. CASE Panic \/ access_mut BY Zenon, <1>6, <3>4 DEF Panic, Take, access_mut, Within, PlaceInv
    <3>5. CASE val_wd_set_ws0_el3 \/ WatchdogAccess \/ WatchdogEnd
      BY <1>6, <3>5 DEF val_wd_set_ws0_el3, WatchdogAccess, Take, WatchdogEnd, Within, PlaceInv
    <3> QED BY ZenonT(30), <1>6, <3>1, <3>2, <3>3, <3>4, <3>5
  <2>2. cpu' = "judge" => Step # Map
    <3>1. CASE access_mut
      <4>1. Step.kind = "list" BY <3>1 DEF access_mut
      <4> QED BY <4>1 DEF Map
    <3>2. CASE WatchdogEnd
      <4>1. Step = Watchdog BY <1>c, <3>2 DEF WatchdogEnd, FlagInv, Flags
      <4> QED BY <4>1 DEF Map, Watchdog
    <3>3. CASE Leave
      <4>1. Now.kind = "access" BY <1>c, <3>3 DEF Leave, FlagInv, Flags
      <4> QED BY <4>1, <2>1, StepFacts, NowKinds, StepKinds
    <3>4. CASE HandleFault
      <4>1. elr \in {"mut", "watchdog"} BY <1>c, <3>4 DEF HandleFault, FlagInv, Flags
      <4> QED BY <3>4, <4>1 DEF HandleFault, asm_eret
    <3>5. CASE Perform BY <3>5 DEF Perform, Take
    <3>6. CASE WatchdogAccess BY <3>6 DEF WatchdogAccess, Take
    <3>7. CASE ServeAccess \/ ToFirmware \/ DeadLoad \/ Panic \/ val_wd_set_ws0_el3
      BY <3>7 DEF ServeAccess, ToFirmware, DeadLoad, Panic, val_wd_set_ws0_el3
    <3> QED BY <1>6, <3>1, <3>2, <3>3, <3>4, <3>5, <3>6, <3>7
  <2> QED BY <1>c, <2>1, <2>2 DEF Within, MapInv, Running, Step, Test, Script
<1>7. CASE End BY Zenon, <1>7, <1>c DEF End, vars, MapInv, Running, Step, Test, Script
<1> QED BY ZenonT(30), <1>0, <1>1, <1>2, <1>3, <1>4, <1>5, <1>6, <1>7 DEF Next

-----------------------------------------------------------------------------

LEMMA FlagStep ==
  ASSUME OrderlyScripts, IInv, [Next]_vars
  PROVE  FlagInv'
<1> USE DEF place, flags, hist
<1> SUFFICES ASSUME Compliant' PROVE Flags'
  BY DEF FlagInv
<1>c. Compliant BY CompliantStep DEF IInv
<1>f. Flags BY <1>c DEF IInv, FlagInv
<1>p. PlaceInv BY DEF IInv
<1>s. Running => Step \in Steps BY Zenon, <1>p, StepFacts
<1>w. ASSUME Within PROVE UNCHANGED <<Step, Now>> BY <1>w DEF Within, Step, Now, Test, Script
<1>0. CASE UNCHANGED vars BY ZenonT(30), <1>0, <1>f DEF vars, Flags, Step, Now, Test, Script
<1>1. CASE CallService
  <2>1. Now.kind # "access" BY <1>1, <1>s, NowKinds DEF CallService
  <2>2. UNCHANGED <<Step, Now>> BY <1>1, <1>w DEF CallService, Within
  <2> QED BY <1>1, <1>f, <2>1, <2>2 DEF CallService, Take, Flags
<1>2. CASE AccessMut
  <2>1. UNCHANGED <<Step, Now>> BY Zenon, <1>2, <1>w DEF AccessMut, Within
  <2> QED BY <1>2, <1>f, <2>1 DEF AccessMut, Take, Flags
<1>3. CASE SetWatchdog
  <2>1. Now.kind # "access" BY <1>3, <1>s, NowKinds DEF SetWatchdog
  <2>2. UNCHANGED <<Step, Now>> BY Zenon, <1>3, <1>w DEF SetWatchdog, Within
  <2> QED BY <1>3, <1>f, <2>1, <2>2 DEF SetWatchdog, Take, Flags
<1>4. CASE HandleFault
  <2>1. UNCHANGED <<Step, Now>> BY <1>4, <1>w DEF HandleFault, Within
  <2>2. elr # "smc" BY <1>4, <1>f DEF HandleFault, Flags
  <2> QED BY <1>4, <1>f, <2>1, <2>2 DEF HandleFault, asm_eret, Flags
<1>5. CASE ServeAccess
  <2>1. UNCHANGED <<Step, Now>> BY <1>5, <1>w DEF ServeAccess, Within
  <2>2. elr = "smc" /\ Now.kind = "access" BY <1>5, <1>f DEF ServeAccess, Flags
  <2> QED BY <1>5, <1>f, <2>1, <2>2 DEF ServeAccess, Flags
<1>6. CASE ToFirmware
  <2>1. UNCHANGED <<Step, Now>> BY <1>6, <1>w DEF ToFirmware, Within
  <2>2. elr = "smc" BY <1>6, <1>f DEF ToFirmware, Flags
  <2> QED BY <1>6, <1>f, <2>1, <2>2 DEF ToFirmware, Flags
<1>7. CASE Perform
  <2>1. UNCHANGED <<Step, Now>> BY <1>7, <1>w DEF Perform, Within
  <2>2. PICK a \in Outcomes : /\ Note(a)
                              /\ IF a \in {"gpf", "abort"} THEN Take(a, "mut")
                                 ELSE cpu' = "acs_end" /\ UNCHANGED <<esr, elr>>
    BY <1>7 DEF Perform
  <2>3. ~Wrong(a) BY Zenon, <2>2 DEF Note, Compliant
  <2>4. /\ Now.kind = "access" /\ cpu \in {"str", "ldr", "read"} /\ expected = Now.expects
        /\ UNCHANGED <<saved, flags, swallowed>>
    BY <1>7, <1>f DEF Perform, Flags
  <2>5. IF Now.expects THEN a \in {"gpf", "abort"} \/ Now = TakenBack ELSE a \notin {"gpf", "abort"}
    BY <1>c, <1>p, <2>2, <2>3, <2>4, AccessAnswers DEF PlaceInv
  <2>6. CASE a \in {"gpf", "abort"}
    <3>1. cpu' = "vector" /\ elr' = "mut" BY <2>2, <2>6 DEF Take
    <3>2. expected BY <2>4, <2>5, <2>6
    <3> QED BY <1>f, <2>1, <2>4, <3>1, <3>2 DEF Flags
  <2>7. CASE a \notin {"gpf", "abort"}
    <3>1. cpu' = "acs_end" BY <2>2, <2>7
    <3>2. expected => Now = TakenBack BY <2>4, <2>5, <2>7
    <3> QED BY <1>f, <2>1, <2>4, <3>1, <3>2 DEF Flags
  <2> QED BY <2>6, <2>7
<1>8. CASE DeadLoad
  <2>1. UNCHANGED <<Step, Now>> BY <1>8, <1>w DEF DeadLoad, Within
  <2> QED BY <1>8, <1>f, <2>1 DEF DeadLoad, Flags
<1>9. CASE Leave
  <2>1. UNCHANGED <<Step, Now>> BY <1>9, <1>w DEF Leave, Within
  <2> QED BY <1>9, <1>f, <2>1 DEF Leave, Flags
<1>10. CASE Panic BY <1>10, <1>f DEF Panic, Flags
<1>11. CASE ServeMap
  <2>1. UNCHANGED <<Step, Now>> BY Zenon, <1>11, <1>w DEF ServeMap, Within
  <2> QED BY <1>11, <1>f, <2>1 DEF ServeMap, Flags
<1>12. CASE access_mut
  <2>1. UNCHANGED <<Step, Now>> BY <1>12, <1>w DEF access_mut, Within
  <2>2. PICK a \in Outcomes : /\ Note(a)
                              /\ IF a \in {"gpf", "abort"} THEN Take(a, "list")
                                 ELSE cpu' = "judge" /\ UNCHANGED <<esr, elr>>
    BY <1>12 DEF access_mut
  <2>3. ~Wrong(a) BY Zenon, <2>2 DEF Note, Compliant
  <2>4. Running /\ cpu = "firmware" /\ Step = List BY <1>12, <1>p, <1>s, StepKinds DEF access_mut, PlaceInv
  <2>5. a = "through" BY <1>c, <2>2, <2>3, <2>4, ServiceAnswers
  <2>6. cpu' = "judge" BY <2>2, <2>5
  <2> QED BY <1>12, <1>f, <2>1, <2>6 DEF access_mut, Flags
<1>13. CASE val_wd_set_ws0_el3
  <2>1. UNCHANGED <<Step, Now>> BY <1>13, <1>w DEF val_wd_set_ws0_el3, Within
  <2>2. Step = Watchdog BY <1>13, <1>p, <1>s, StepKinds DEF val_wd_set_ws0_el3, PlaceInv
  <2> QED BY <1>13, <1>f, <2>1, <2>2 DEF val_wd_set_ws0_el3, Flags
<1>14. CASE WatchdogAccess
  <2>1. UNCHANGED <<Step, Now>> BY <1>14, <1>w DEF WatchdogAccess, Within
  <2>2. PICK a \in Outcomes : /\ Note(a)
                              /\ IF a \in {"gpf", "abort"} THEN Take(a, "watchdog")
                                 ELSE cpu' = "watchdog" /\ UNCHANGED <<esr, elr>>
    BY <1>14 DEF WatchdogAccess
  <2>3. ~Wrong(a) BY Zenon, <2>2 DEF Note, Compliant
  <2>4. Running /\ cpu = "watchdog" /\ Step = Watchdog BY <1>14, <1>f, <1>p DEF WatchdogAccess, Flags, PlaceInv
  <2>5. a = "gpf" BY <1>c, <2>2, <2>3, <2>4, ServiceAnswers DEF List, Watchdog
  <2>6. cpu' = "vector" /\ elr' = "watchdog" BY <2>2, <2>5 DEF Take
  <2> QED BY Zenon, <1>14, <1>f, <2>1, <2>4, <2>6 DEF WatchdogAccess, Flags
<1>15. CASE WatchdogEnd
  <2>1. UNCHANGED <<Step, Now>> BY <1>15, <1>w DEF WatchdogEnd, Within
  <2> QED BY <1>15, <1>f, <2>1 DEF WatchdogEnd, Flags
<1>16. CASE Judge
  <2>1. expected' = FALSE BY <1>16, <1>f, <1>p, AccessKinds DEF Judge, Reset, Flags, PlaceInv
  <2>2. cpu = "judge" /\ cpu' = "el2" /\ UNCHANGED <<saved, mut, swallowed>> BY <1>16 DEF Judge
  <2> QED BY Zenon, <1>f, <2>1, <2>2 DEF Flags
<1>17. CASE End BY Zenon, <1>17, <1>f DEF End, vars, Flags, Step, Now, Test, Script
<1> QED BY <1>0, <1>1, <1>2, <1>3, <1>4, <1>5, <1>6, <1>7, <1>8, <1>9, <1>10, <1>11, <1>12, <1>13, <1>14, <1>15,
           <1>16, <1>17 DEF Next

-----------------------------------------------------------------------------
LEMMA Inductive == OrderlyScripts /\ Spec => []IInv
<1> SUFFICES ASSUME OrderlyScripts PROVE Spec => []IInv
  OBVIOUS
<1>1. Init => IInv
  <2> SUFFICES ASSUME Init PROVE IInv
    OBVIOUS
  <2>1. PlaceInv BY PlaceInit
  <2>2. MapInv BY DEF Init, MapInv
  <2>3. FlagInv BY DEF Init, FlagInv, Flags
  <2> QED BY <2>1, <2>2, <2>3 DEF IInv
<1>2. IInv /\ [Next]_vars => IInv'
  BY PlaceStep, MapStep, FlagStep DEF IInv
<1> QED BY <1>1, <1>2, PTL DEF Spec

\* Whatever the scripts, as long as they are made of the suite's steps in the
\* suite's order, however many rounds they have and whatever a machine may
\* answer: while no answer is one the tests are there to detect, every service
\* asked for with an SMC is run.
THEOREM ServicesAlwaysRun == OrderlyScripts /\ Spec => []ServicesRun
<1>1. IInv => ServicesRun BY DEF IInv, FlagInv, Flags, ServicesRun
<1> QED BY <1>1, Inductive, PTL

\* For the same scripts and machines, ack_handler_el3 hands control back to the
\* test: neither does the firmware's panic nor a wrong return address end the
\* suite, and the return address it saved is that of the SMC.
THEOREM HandsAlwaysBack == OrderlyScripts /\ Spec => []HandsBack
<1>1. IInv => HandsBack BY DEF IInv, FlagInv, Flags, HandsBack
<1> QED BY <1>1, Inductive, PTL

-----------------------------------------------------------------------------
(* A machine that complies.                                                *)

\* An access that a test makes is one of a mapped address.
LEMMA AccessMapped ==
  ASSUME OrderlyScripts, IInv, Running, cpu # "el2", Now.kind = "access", Compliant
  PROVE  /\ mapped /\ Step \in Steps /\ Step # Watchdog /\ Step # List
         /\ \A a \in Outcomes : a # "abort"
<1>1. Step \in Steps /\ Step \notin {Smc, Map, Watchdog, List} BY Zenon, StepFacts, NowKinds, StepKinds DEF IInv
<1>2. mapped BY <1>1, StepFacts DEF IInv, MapInv
<1>3. scenario.machine.match \subseteq Answers /\ scenario.machine.mismatch \subseteq Answers
  BY El3Assumption DEF IInv, PlaceInv
<1>4. ASSUME NEW a \in Outcomes PROVE a # "abort"
  <2>1. a \in {"quiet"} \cup Answers BY <1>2, <1>3 DEF Outcomes
  <2> QED BY <2>1 DEF Answers
<1> QED BY Zenon, <1>1, <1>2, <1>4

\* A machine that gives the tests of the script no answer they are there to
\* detect: it refuses an access of a wrong PAS, and by a fault where a test
\* stores.
Sound(s) ==
  /\ s.machine.match = {"through"} /\ "through" \notin s.machine.mismatch
  /\ "quiet" \in s.machine.mismatch =>
       \A n \in 1 .. Len(s.script) : \A i \in 1 .. Len(s.script[n].body) :
         s.script[n].body[i] \notin {Store, PasAccess(Store)}

\* On such a machine there is no breach in any test.
SoundInv == Sound(scenario) => Compliant

LEMMA SoundAnswers ==
  ASSUME OrderlyScripts, PlaceInv, Running, Sound(scenario), NEW a \in Outcomes
  PROVE  ~Wrong(a)
<1>1. Step \in Steps /\ op \in 1 .. Len(Test.body) BY StepFacts
<1>2. CASE a = "abort" BY <1>2 DEF Wrong
<1>3. CASE a # "abort"
  <2>1. mapped BY <1>3 DEF Outcomes
  <2>2. CASE Now = Inactive
    <3>1. Now.kind = "access" /\ Now.check = "init" BY <2>2, AccessKinds
    <3>2. ~Granted
      <4>1. Step.kind = "access" \/ Step.kind = "pas" BY <1>1, <3>1, NowKinds
      <4>2. Step.kind # "pas"
        <5>1. ASSUME NEW x \in {Store, Filtered, TakenBack}, Step = PasAccess(x) PROVE FALSE
          <6>1. Step.kind = "pas" BY <5>1 DEF PasAccess
          <6>2. Now = IF round = same THEN Plain ELSE x BY <5>1, <6>1, AccessKinds DEF Now
          <6> QED BY <3>1, <6>2, AccessKinds
        <5> QED BY <1>1, <5>1, StepKinds
      <4>3. Now = Step /\ Step.kind = "access" BY <4>1, <4>2 DEF Now
      <4> QED BY <3>1, <4>3 DEF Granted
    <3>3. a # "through" BY <2>1, <2>2 DEF Outcomes, Sound
    <3> QED BY Zenon, <1>3, <3>1, <3>2, <3>3, WrongFacts
  <2>3. CASE Now # Inactive /\ Granted
    <3>1. a = "through" BY <2>1, <2>3 DEF Outcomes, Sound
    <3> QED BY <1>3, <2>3, <3>1, WrongFacts
  <2>4. CASE Now # Inactive /\ ~Granted
    <3>1. a \in scenario.machine.mismatch /\ a # "through" BY <2>1, <2>4 DEF Outcomes, Sound
    <3>2. CASE Now.kind = "access" /\ Now.check = "fault"
      <4>1. Step \in {Store, PasAccess(Store)}
        <5>1. Now = Store BY <1>1, <3>2, NowIsOne, AccessKinds
        <5>2. CASE Step.kind = "access" BY <5>1, <5>2 DEF Now
        <5>3. CASE Step.kind = "pas"
          <6>1. PICK x \in {Store, Filtered, TakenBack} : Step = PasAccess(x) BY <1>1, <5>3, StepKinds
          <6>2. Now = IF round = same THEN Plain ELSE x BY <5>3, <6>1, AccessKinds DEF Now
          <6>3. x = Store BY Zenon, <5>1, <6>2, AccessKinds
          <6> QED BY <6>1, <6>3
        <5> QED BY <1>1, <3>2, <5>2, <5>3, NowKinds
      <4>2. test \in 1 .. Len(scenario.script) /\ Test = scenario.script[test]
        <5>1. Orderly(scenario) BY Zenon DEF OrderlyScripts, PlaceInv
        <5> QED BY <5>1 DEF PlaceInv, Running, Test, Script, Orderly
      <4>3. "quiet" \notin scenario.machine.mismatch BY <1>1, <4>1, <4>2 DEF Sound, Step
      <4>4. a \in Answers BY <3>1, El3Assumption DEF PlaceInv
      <4>5. a = "gpf" BY <3>1, <4>3, <4>4 DEF Answers
      <4> QED BY <1>3, <2>4, <3>2, <4>5, WrongFacts
    <3>3. CASE ~(Now.kind = "access" /\ Now.check = "fault") BY <1>3, <2>4, <3>1, <3>3, WrongFacts
    <3> QED BY <3>2, <3>3
  <2> QED BY <2>2, <2>3, <2>4
<1> QED BY <1>2, <1>3

LEMMA SoundInductive == OrderlyScripts /\ Spec => []SoundInv
<1> SUFFICES ASSUME OrderlyScripts PROVE Spec => []SoundInv
  OBVIOUS
<1>1. Init => SoundInv BY DEF Init, SoundInv, Compliant
<1>2. PlaceInv /\ SoundInv /\ [Next]_vars => SoundInv'
  <2> SUFFICES ASSUME PlaceInv, SoundInv, [Next]_vars, Sound(scenario)' PROVE Compliant'
    BY DEF SoundInv
  <2> USE DEF hist
  <2>1. CASE UNCHANGED <<scenario, breach, results>> BY <2>1 DEF SoundInv, Sound, Compliant
  <2>2. CASE Judge
    <3>1. scenario' = scenario BY <2>2 DEF Judge, Advance
    <3>2. Compliant BY Zenon, <3>1 DEF SoundInv, Sound
    <3>3. PICK count : Advance(count) BY <2>2 DEF Judge
    <3>4. CASE UNCHANGED <<breach, results>> BY <3>2, <3>4 DEF Compliant
    <3>5. CASE ~UNCHANGED <<breach, results>>
      <4>1. ~breach' /\ results' = Append(results, [pass |-> count = 0, breach |-> breach, blind |-> blind])
        BY Zenon, <3>3, <3>5 DEF Advance
      <4>2. /\ Len(results') = Len(results) + 1 /\ Len(results) \in Nat
            /\ results'[Len(results) + 1].breach = breach
            /\ \A n \in 1 .. Len(results) : results'[n] = results[n]
        BY <4>1 DEF PlaceInv
      <4>3. \A n \in 1 .. Len(results) + 1 : ~results'[n].breach BY <3>2, <4>2 DEF Compliant
      <4> QED BY <4>1, <4>2, <4>3 DEF Compliant
    <3> QED BY <3>4, <3>5
  <2>3. CASE Perform \/ access_mut \/ WatchdogAccess
    <3>1. UNCHANGED <<scenario, results>> /\ Running /\ \E a \in Outcomes : Note(a)
      BY Zenon, <2>3 DEF Perform, access_mut, WatchdogAccess, place, PlaceInv
    <3>2. Compliant /\ Sound(scenario) BY <3>1 DEF SoundInv, Sound
    <3>3. PICK a \in Outcomes : Note(a) BY <3>1
    <3>4. ~Wrong(a) BY <3>1, <3>2, <3>3, SoundAnswers
    <3> QED BY Zenon, <3>1, <3>2, <3>3, <3>4 DEF Note, Compliant
  <2>4. CASE Next /\ ~Judge /\ ~(Perform \/ access_mut \/ WatchdogAccess)
    <3> USE DEF place
    <3>1. CASE CallService \/ AccessMut \/ SetWatchdog BY ZenonT(30), <2>1, <3>1 DEF CallService, AccessMut, SetWatchdog
    <3>2. CASE HandleFault \/ ServeAccess \/ ToFirmware BY Zenon, <2>1, <3>2 DEF HandleFault, ServeAccess, ToFirmware
    <3>3. CASE DeadLoad \/ Leave \/ Panic \/ ServeMap BY <2>1, <3>3 DEF DeadLoad, Leave, Panic, ServeMap
    <3>4. CASE val_wd_set_ws0_el3 \/ WatchdogEnd BY <2>1, <3>4 DEF val_wd_set_ws0_el3, WatchdogEnd
    <3>5. CASE End BY <2>1, <3>5 DEF End, vars
    <3> QED BY <2>4, <3>1, <3>2, <3>3, <3>4, <3>5 DEF Next
  <2>5. CASE UNCHANGED vars BY <2>1, <2>5 DEF vars, place
  <2> QED BY <2>2, <2>3, <2>4, <2>5
<1>3. IInv => PlaceInv BY DEF IInv
<1> QED BY <1>1, <1>2, <1>3, Inductive, PTL DEF Spec

\* On a compliant machine no access is made of an address that is not mapped.
SeeingInv == Compliant => ~blind /\ \A n \in 1 .. Len(results) : ~results[n].blind

LEMMA SeeingInductive == OrderlyScripts /\ Spec => []SeeingInv
<1> SUFFICES ASSUME OrderlyScripts PROVE Spec => []SeeingInv
  OBVIOUS
<1>1. Init => SeeingInv BY DEF Init, SeeingInv
<1>2. IInv /\ SeeingInv /\ [Next]_vars => SeeingInv'
  <2> SUFFICES ASSUME IInv, SeeingInv, [Next]_vars, Compliant'
               PROVE  ~blind' /\ \A n \in 1 .. Len(results') : ~results'[n].blind
    BY DEF SeeingInv
  <2> USE DEF hist
  <2>p. PlaceInv BY DEF IInv
  <2>c. Compliant BY <2>p, CompliantStep
  <2>s. ~blind /\ \A n \in 1 .. Len(results) : ~results[n].blind BY <2>c DEF SeeingInv
  <2>1. CASE UNCHANGED <<blind, results>> BY <2>1, <2>s
  <2>2. CASE Judge
    <3>1. PICK count : Advance(count) BY <2>2 DEF Judge
    <3>2. CASE ~UNCHANGED <<blind, results>>
      <4>1. ~blind' /\ results' = Append(results, [pass |-> count = 0, breach |-> breach, blind |-> blind])
        BY <3>1, <3>2 DEF Advance
      <4>2. /\ Len(results') = Len(results) + 1 /\ Len(results) \in Nat
            /\ results'[Len(results) + 1].blind = blind
            /\ \A n \in 1 .. Len(results) : results'[n] = results[n]
        BY <2>p, <4>1 DEF PlaceInv
      <4> QED BY <2>s, <4>1, <4>2
    <3> QED BY <2>1, <3>2
  <2>3. CASE Perform
    <3>1. Running /\ cpu # "el2" /\ Now.kind = "access"
      BY <2>3, <2>c, <2>p DEF Perform, PlaceInv, IInv, FlagInv, Flags
    <3>2. mapped BY <2>c, <3>1, AccessMapped
    <3>3. UNCHANGED results /\ blind' = (blind \/ ~mapped) BY <2>3 DEF Perform, Note
    <3> QED BY Zenon, <2>s, <3>2, <3>3
  <2>4. CASE access_mut \/ WatchdogAccess
    <3>1. Running /\ cpu # "el2" BY <2>4, <2>p DEF access_mut, WatchdogAccess, PlaceInv
    <3>2. Step \in Steps BY <2>p, <3>1, StepFacts
    <3>3. Step.kind \in {"list", "watchdog"}
      <4>1. CASE access_mut BY <4>1 DEF access_mut
      <4>2. CASE WatchdogAccess
        <5>1. Step = Watchdog BY <2>c, <4>2 DEF WatchdogAccess, IInv, FlagInv, Flags
        <5> QED BY <5>1 DEF Watchdog
      <4> QED BY <2>4, <4>1, <4>2
    <3>4. Step \notin {Smc, Map} BY <3>3 DEF Smc, Map
    <3>5. mapped BY <2>c, <2>p, <3>1, <3>4, StepFacts DEF IInv, MapInv
    <3>6. UNCHANGED results /\ blind' = (blind \/ ~mapped) BY <2>4 DEF access_mut, WatchdogAccess, Note
    <3> QED BY Zenon, <2>s, <3>5, <3>6
  <2>5. CASE CallService \/ AccessMut \/ SetWatchdog BY ZenonT(30), <2>1, <2>5 DEF CallService, AccessMut, SetWatchdog
  <2>6. CASE HandleFault \/ ServeAccess \/ ToFirmware BY <2>1, <2>6 DEF HandleFault, ServeAccess, ToFirmware
  <2>7. CASE DeadLoad \/ Leave \/ Panic \/ ServeMap BY <2>1, <2>7 DEF DeadLoad, Leave, Panic, ServeMap
  <2>8. CASE val_wd_set_ws0_el3 \/ WatchdogEnd BY <2>1, <2>8 DEF val_wd_set_ws0_el3, WatchdogEnd
  <2>9. CASE End \/ UNCHANGED vars BY <2>1, <2>9 DEF End, vars
  <2> QED BY <2>2, <2>3, <2>4, <2>5, <2>6, <2>7, <2>8, <2>9 DEF Next
<1> QED BY <1>1, <1>2, Inductive, PTL DEF Spec

=============================================================================
