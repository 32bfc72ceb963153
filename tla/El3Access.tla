------------------------------ MODULE El3Access ------------------------------
(***************************************************************************)
(* The protocol by which a test at EL2 has an address accessed at EL3 and  *)
(* learns whether the access faulted. The test sets flags in shared_data   *)
(* and makes an SMC; ack_handler_el3, installed in front of the vectors of *)
(* the trusted firmware, tells from the same flags an SMC it must serve    *)
(* itself, an SMC for the firmware and a fault of the access. The tests    *)
(* run on one PE, so a step is one visit to an exception level.            *)
(*                                                                         *)
(* A test is a loop of rounds over the PASes; a round maps the address     *)
(* with one access PAS and accesses it, as the resource's PAS or not.      *)
(***************************************************************************)
EXTENDS Integers, Sequences

CONSTANTS Scenarios,  \* the scripts run, each with the machine it runs on
          Rounds      \* bound on the rounds of a loop (4 to 12 in the code)

\* gpf: granule protection fault; quiet: no fault, nothing read or written;
\* through: the memory is read or written.
Answers == {"gpf", "quiet", "through"}

ASSUME El3Assumption ==
  /\ Rounds \in Nat \ {0}
  /\ \A s \in Scenarios : /\ Len(s.script) > 0
       \* what it may answer to an access of the right PAS, and of another
       /\ s.machine \in [match : (SUBSET Answers) \ {{}}, mismatch : (SUBSET Answers) \ {{}}]

VARIABLES scenario,              \* the script and the machine
          test, round, op,       \* where the script is
          same,                  \* the round whose access PAS is the resource's
          cpu,                   \* what the PE executes
          esr, elr, saved,       \* ESR_EL3, ELR_EL3, shared_data->elr_el3
          expected, generated,   \* shared_data->exception_expected, _generated
          mut, filter, generic,  \* ->access_mut, ->pas_filter_flag, ->generic_flag
          data,                  \* ->shared_data_access[0].data still INIT_DATA
          mapped,                \* the VA of the round is mapped at EL3
          wd,                    \* next store of val_wd_set_ws0_el3
          fails,                 \* status_fail_cnt
          breach, blind,         \* history of the test: the machine misbehaved,
                                 \* an access was made that was never mapped
          swallowed,             \* history: services asked for and never run
          results                \* verdicts of the tests that ended

flags == <<expected, generated, mut, filter, generic>>
place == <<scenario, test, round, op, same>>
hist  == <<breach, blind, swallowed>>
vars  == <<place, cpu, esr, elr, saved, flags, data, mapped, wd, fails, hist, results>>

-----------------------------------------------------------------------------
(* The tests. An access is described by the flags the test sets before it  *)
(* and by the check it makes after it.                                     *)
Access(exp, flt, clr, chk) ==
  [kind |-> "access", expects |-> exp, filters |-> flt, clears |-> clr, check |-> chk]

Plain     == Access(FALSE, FALSE, FALSE, "no_fault")
Store     == Access(TRUE, FALSE, FALSE, "fault")
Filtered  == Access(TRUE, TRUE, FALSE, "fault_or_init")
TakenBack == Access(TRUE, TRUE, TRUE, "fault_or_init")
Inactive  == Access(FALSE, TRUE, FALSE, "init")
Marked    == Access(FALSE, FALSE, FALSE, "read")
Smc       == [kind |-> "smc"]
Map       == [kind |-> "map"]
List      == [kind |-> "list"]
Watchdog  == [kind |-> "watchdog"]
PasAccess(other) == [kind |-> "pas", same |-> Plain, other |-> other]

\* A loop of n rounds over body; garbage: status_fail_cnt is not initialised.
Loop(n, body, garbage) == [rounds |-> n, body |-> body, garbage |-> garbage]

rme004 == Loop(Rounds, <<Map, PasAccess(Store)>>, FALSE)
rme009 == Loop(Rounds, <<Map, PasAccess(Store)>>, TRUE)
rme011 == Loop(Rounds, <<Map, PasAccess(TakenBack)>>, FALSE)
rme016 == Loop(Rounds, <<Map, PasAccess(Filtered), PasAccess(Filtered)>>, FALSE)
rme017 == Loop(Rounds, <<Map, PasAccess(Filtered), PasAccess(Filtered)>>, FALSE)
rme021 == Loop(1, <<Smc, Map, List, Smc, Store>>, FALSE)
rme025 == Loop(Rounds, <<Map, PasAccess(Filtered)>>, FALSE)
rme026 == Loop(Rounds, <<Map, PasAccess(Filtered)>>, FALSE)
rme028 == Loop(1, <<Map, Watchdog>>, FALSE)
rme029 == Loop(1, <<Smc>> \o [i \in 1 .. 2 * Rounds |-> IF i % 2 = 1 THEN Map ELSE Inactive], FALSE)
rme032 == Loop(Rounds, <<Map, PasAccess(Filtered), PasAccess(Filtered)>>, FALSE)
ls002  == Loop(Rounds, <<Map, Marked>>, TRUE)

\* The steps the tests are made of.
Steps == {Smc, Map, List, Watchdog, Store, Inactive, Marked,
          PasAccess(Store), PasAccess(Filtered), PasAccess(TakenBack)}

\* A test that accesses has mapped in the same round, and one that leaves its
\* expectation standing runs only where a refused access always faults.
Orderly(s) ==
  /\ Len(s.script) \in Nat
  /\ \A n \in 1 .. Len(s.script) :
       LET body == s.script[n].body
       IN  /\ Len(body) \in Nat \ {0}
           /\ \A i \in 1 .. Len(body) :
                /\ body[i] \in Steps
                /\ body[i] \notin {Smc, Map} => \E j \in 1 .. i - 1 : body[j] = Map
                /\ body[i] \in {PasAccess(Filtered), Watchdog} => "quiet" \notin s.machine.mismatch

OrderlyScripts == \A s \in Scenarios : Orderly(s)

Script == scenario.script
Test == Script[test]
Step == Test.body[op]
\* The access the test makes at this step, given the PAS of the round.
Now  == IF Step.kind # "pas" THEN Step
        ELSE IF round = same THEN Step.same ELSE Step.other
\* Whether the PAS of the access now running is the resource's.
Granted == CASE Step.kind = "pas"    -> round = same
             [] Step.kind = "list"   -> TRUE
             [] Step.kind = "access" -> Step.check = "read"
             [] OTHER                -> FALSE
Running == test <= Len(Script)

-----------------------------------------------------------------------------
Init ==
  /\ scenario \in Scenarios
  /\ test = 1 /\ round = 1 /\ op = 1
  /\ same \in 0 .. Rounds
  /\ cpu = "el2" /\ esr = "smc" /\ elr = "smc" /\ saved = "smc"
  /\ expected = FALSE /\ generated = FALSE /\ mut = FALSE
  /\ filter = FALSE /\ generic = FALSE
  /\ data = TRUE /\ mapped = FALSE /\ wd = 0
  /\ fails \in IF Script[1].garbage THEN {0, 1} ELSE {0}
  /\ breach = FALSE /\ blind = FALSE /\ swallowed = 0
  /\ results = <<>>

\* The exception e is taken to EL3; at is the instruction ELR_EL3 points to.
Take(e, at) == cpu' = "vector" /\ esr' = e /\ elr' = at

\* EL2: a service of the firmware is called. Each round maps a VA of its own.
CallService ==
  /\ Running /\ cpu = "el2" /\ Step.kind \in {"smc", "map", "list"}
  /\ mapped' = IF Step.kind = "map" THEN FALSE ELSE mapped
  /\ Take("smc", "smc")
  /\ UNCHANGED <<place, saved, flags, data, wd, fails, hist, results>>

\* EL2: the flags are set and val_pe_access_mut_el3 is called.
AccessMut ==
  /\ Running /\ cpu = "el2" /\ Now.kind = "access"
  /\ expected' = Now.expects /\ mut' = TRUE
  /\ filter' = (Now.filters \/ filter)
  /\ data' = (Now.check = "read" \/ data)
  /\ Take("smc", "smc")
  /\ UNCHANGED <<place, saved, generated, generic, mapped, wd, fails, hist, results>>

\* EL2: rme028 asks for the root watchdog to be set through a non-root mapping.
SetWatchdog ==
  /\ Running /\ cpu = "el2" /\ Step.kind = "watchdog"
  /\ generic' = TRUE
  /\ Take("smc", "smc")
  /\ UNCHANGED <<place, saved, expected, generated, mut, filter, data, mapped, wd,
                 fails, hist, results>>

-----------------------------------------------------------------------------
(* EL3: ack_handler_el3, one action per branch.                            *)

\* asm_eret: ELR_EL3 + 4. After a fault that is the instruction behind the
\* access. After an SMC it is one too far: the call returns without the
\* service, and as the ldp that pops the frame of UserCallSMC is skipped, the
\* caller goes on with a stack pointer 16 too low, or goes astray with it.
asm_eret ==
  \/ elr = "smc" /\ cpu' \in {"judge", "astray"} /\ swallowed' = swallowed + 1
  \/ elr = "mut" /\ cpu' = "acs_end" /\ UNCHANGED swallowed
  \/ elr = "watchdog" /\ cpu' = "watchdog" /\ UNCHANGED swallowed
  \/ elr = "list" /\ cpu' = "judge" /\ UNCHANGED swallowed

\* Mutant: the fault is taken and the expectation is left standing.
HandleFaultOnce ==
  /\ cpu = "vector" /\ expected /\ ~mut
  /\ generated' = (generated \/ esr = "gpf")
  /\ asm_eret
  /\ UNCHANGED <<place, esr, elr, saved, expected, mut, filter, generic, data,
                 mapped, wd, fails, breach, blind, results>>

HandleFault ==
  /\ cpu = "vector" /\ expected /\ ~mut
  /\ generated' = (generated \/ esr = "gpf")
  /\ expected' = FALSE
  /\ asm_eret
  /\ UNCHANGED <<place, esr, elr, saved, mut, filter, generic, data, mapped, wd,
                 fails, breach, blind, results>>

\* Mutant: the flag is not taken back before the access.
ServeAccessAgain ==
  /\ cpu = "vector" /\ mut
  /\ saved' = elr
  /\ cpu' = IF filter THEN "ldr" ELSE IF expected THEN "str" ELSE "read"
  /\ UNCHANGED <<place, esr, elr, flags, data, mapped, wd, fails, hist, results>>

ServeAccess ==
  /\ cpu = "vector" /\ mut
  /\ mut' = FALSE
  /\ saved' = elr
  /\ cpu' = IF filter THEN "ldr" ELSE IF expected THEN "str" ELSE "read"
  /\ UNCHANGED <<place, esr, elr, expected, generated, filter, generic, data,
                 mapped, wd, fails, hist, results>>

\* branch_asm to the firmware's own vector.
ToFirmware ==
  /\ cpu = "vector" /\ ~mut /\ ~expected
  /\ cpu' = "firmware"
  /\ UNCHANGED <<place, esr, elr, saved, flags, data, mapped, wd, fails, hist, results>>

\* What the machine may answer to the access. An unmapped VA aborts; a PAS
\* filter in inactive mode does not fault an access of the right PAS.
Outcomes == IF ~mapped THEN {"abort"}
            ELSE IF Now = Inactive THEN {"quiet"} \cup (scenario.machine.mismatch \ {"gpf"})
            ELSE IF Granted THEN scenario.machine.match ELSE scenario.machine.mismatch

\* Whether the answer is one the test is there to detect.
Wrong(a) == /\ a # "abort"
            /\ IF Granted THEN a # "through"
               ELSE IF Now.kind = "access" /\ Now.check = "fault" THEN a # "gpf"
               ELSE a = "through"

Note(a) == /\ breach' = (breach \/ Wrong(a))
           /\ blind' = (blind \/ ~mapped)

\* The str or ldr of acs_str and acs_ldr_pas_filter: what ldr loads stays in
\* x1. The compiler may drop the load of the third branch: its result is dead.
Perform ==
  /\ cpu \in {"str", "ldr", "read"}
  /\ \E a \in Outcomes :
       /\ Note(a)
       /\ IF a \in {"gpf", "abort"} THEN Take(a, "mut")
          ELSE cpu' = "acs_end" /\ UNCHANGED <<esr, elr>>
  /\ UNCHANGED <<place, saved, flags, data, mapped, wd, fails, swallowed, results>>

DeadLoad ==
  /\ cpu = "read"
  /\ cpu' = "acs_end"
  /\ UNCHANGED <<place, esr, elr, saved, flags, data, mapped, wd, fails, hist, results>>

\* The end of acs_str, of acs_ldr_pas_filter and of the handler: ELR_EL3 is
\* loaded from shared_data and the PE returns behind the SMC.
Leave ==
  /\ cpu = "acs_end"
  /\ elr' = saved
  /\ cpu' = "judge"
  /\ UNCHANGED <<place, esr, saved, flags, data, mapped, wd, fails, hist, results>>

-----------------------------------------------------------------------------
(* The firmware dispatches SMCs to plat_arm_acs_smc_handler, and stops the  *)
(* machine on a fault taken from EL3.                                      *)
Panic ==
  /\ cpu = "firmware" /\ esr # "smc"
  /\ cpu' = "dead"
  /\ UNCHANGED <<place, esr, elr, saved, flags, data, mapped, wd, fails, hist, results>>

\* RME_ADD_GPT_ENTRY and RME_ADD_MMU_ENTRY.
ServeMap ==
  /\ cpu = "firmware" /\ esr = "smc" /\ Step.kind \in {"smc", "map"}
  /\ mapped' = (mapped \/ Step.kind = "map")
  /\ cpu' = "judge"
  /\ UNCHANGED <<place, esr, elr, saved, flags, data, wd, fails, hist, results>>

\* RME_ACCESS_MUT: access_mut() makes the accesses of the list.
access_mut ==
  /\ cpu = "firmware" /\ esr = "smc" /\ Step.kind = "list"
  /\ \E a \in Outcomes :
       /\ Note(a)
       /\ data' = (data /\ a # "through")
       /\ IF a \in {"gpf", "abort"} THEN Take(a, "list")
          ELSE cpu' = "judge" /\ UNCHANGED <<esr, elr>>
  /\ UNCHANGED <<place, saved, flags, mapped, wd, fails, swallowed, results>>

\* ROOT_WATCHDOG: the read of the identification register, the stores of the
\* lower and, for version 1, of the upper offset and of the enable bit; each is
\* preceded by setting the expectation. A version read by a load that faulted
\* is whatever the register held.
val_wd_set_ws0_el3 ==
  /\ cpu = "firmware" /\ esr = "smc" /\ Step.kind = "watchdog"
  /\ wd' = 1
  /\ cpu' = "watchdog"
  /\ UNCHANGED <<place, esr, elr, saved, flags, data, mapped, fails, hist, results>>

WatchdogAccess ==
  /\ cpu = "watchdog" /\ wd \in 1 .. 4
  /\ expected' = TRUE /\ mut' = FALSE
  /\ wd' \in IF wd = 2 THEN {3, 4} ELSE {wd + 1}
  /\ \E a \in Outcomes :
       /\ Note(a)
       /\ IF a \in {"gpf", "abort"} THEN Take(a, "watchdog")
          ELSE cpu' = "watchdog" /\ UNCHANGED <<esr, elr>>
  /\ UNCHANGED <<place, saved, generated, filter, generic, data, mapped, fails,
                 swallowed, results>>

\* The service returns; ELR_EL3 is the firmware's own copy.
WatchdogEnd ==
  /\ cpu = "watchdog" /\ wd = 5
  /\ generic' = FALSE /\ wd' = 0
  /\ cpu' = "judge"
  /\ UNCHANGED <<place, esr, elr, saved, expected, generated, mut, filter, data,
                 mapped, fails, hist, results>>

-----------------------------------------------------------------------------
(* EL2: the check behind each call, and the way to the next one.           *)

\* Mutant: the test takes any access that comes back for one that faulted.
CountedNever == FALSE

\* Whether status_fail_cnt is incremented.
Counted == /\ Now.kind = "access"
           /\ CASE Now.check = "no_fault"      -> generated
                [] Now.check = "fault"         -> ~generated
                [] Now.check = "fault_or_init" -> ~generated /\ ~data
                [] Now.check = "init"          -> ~data
                [] Now.check = "read"          -> generated \/ data

\* The watchdog interrupts, if at all, when a store reached its registers.
Interrupted == Step.kind = "watchdog" /\ breach

\* Mutant: the record of the fault is never cleared.
ResetKeepsFault ==
  /\ filter' = (filter /\ ~(Now.kind = "access" /\ Now.filters))
  /\ expected' = (expected /\ ~(Now.kind = "access" /\ Now.clears))
  /\ UNCHANGED generated

\* The flags the test puts back after the access.
Reset ==
  /\ filter' = (filter /\ ~(Now.kind = "access" /\ Now.filters))
  /\ expected' = (expected /\ ~(Now.kind = "access" /\ Now.clears))
  /\ generated' = (generated /\ ~(Now.kind = "access"
                      /\ Now.check \in {"fault", "fault_or_init", "read"}))

Advance(count) ==
  IF op < Len(Test.body)
    THEN /\ op' = op + 1 /\ fails' = count
         /\ UNCHANGED <<scenario, test, round, same, breach, blind, data, results>>
  ELSE IF round < Test.rounds
    THEN /\ op' = 1 /\ round' = round + 1 /\ fails' = count
         /\ UNCHANGED <<scenario, test, same, breach, blind, data, results>>
  ELSE /\ results' = Append(results, [pass |-> count = 0, breach |-> breach,
                                      blind |-> blind])
       /\ test' = test + 1 /\ round' = 1 /\ op' = 1
       /\ same' \in 0 .. Rounds
       /\ fails' \in IF test < Len(Script) /\ Script[test + 1].garbage
                       THEN {0, 1} ELSE {0}
       /\ breach' = FALSE /\ blind' = FALSE /\ data' = TRUE
       /\ UNCHANGED scenario

Judge ==
  /\ cpu = "judge"
  /\ cpu' = "el2"
  /\ Reset
  /\ \E irq \in {FALSE, Interrupted} : Advance(fails + IF Counted \/ irq THEN 1 ELSE 0)
  /\ UNCHANGED <<esr, elr, saved, mut, generic, mapped, wd, swallowed>>

Finished == ~Running \/ cpu \in {"dead", "astray"}
End == Finished /\ UNCHANGED vars

Next == \/ CallService \/ AccessMut \/ SetWatchdog
        \/ HandleFault \/ ServeAccess \/ ToFirmware
        \/ Perform \/ DeadLoad \/ Leave
        \/ Panic \/ ServeMap \/ access_mut
        \/ val_wd_set_ws0_el3 \/ WatchdogAccess \/ WatchdogEnd
        \/ Judge \/ End

Spec == Init /\ [][Next]_vars

-----------------------------------------------------------------------------
\* So far the machine gave the tests no answer they are there to detect.
Compliant == ~breach /\ \A n \in 1 .. Len(results) : ~results[n].breach

\* On a compliant machine every service a test asks for with an SMC is run: none
\* is taken by ack_handler_el3 for the fault of an access.
ServicesRun == Compliant => swallowed = 0

\* On a compliant machine the handler hands control back to the test: neither
\* the firmware's panic nor a wrong return address ends the suite, and a fault
\* of an access never replaces the return address of the SMC that asked for it.
HandsBack == Compliant => cpu \notin {"dead", "astray"} /\ saved = "smc"

\* A test that passes has accessed what it mapped, and the machine answered
\* each of its accesses as the test demands.
PassMeansProtected ==
  \A n \in 1 .. Len(results) : results[n].pass =>
    ~results[n].breach /\ ~results[n].blind

\* A test that fails has met an answer the machine should not have given;
\* excepted are the tests that count failures in a variable they do not set to
\* zero (status_fail_cnt of rme009 and ls002), which may fail on any machine.
FailMeansBreach ==
  \A n \in 1 .. Len(results) :
    ~results[n].pass => results[n].breach \/ Script[n].garbage
=============================================================================
