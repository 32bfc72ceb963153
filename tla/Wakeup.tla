------------------------------- MODULE Wakeup -------------------------------
(***************************************************************************)
(* The timers, the low power states and the tests that wait for a timer to *)
(* wake them: test_rme023 (EL1 physical timer, WFI), test_rme024 (system   *)
(* timer, PSCI suspend) and test_rme027 (root watchdog, polling). They run *)
(* one after another on the primary PE; their handlers stay installed, and *)
(* run whenever the line of a timer is up and interrupts can be taken.     *)
(***************************************************************************)
EXTENDS Integers, SequencesExt

CONSTANTS
  Boards,     \* see MCInterrupts
  PollBudget  \* turns of test_rme027's loop

VARIABLES wb,     \* the board
          tinfo,  \* g_timer_info_table: [num, blocks]
          tm,     \* the timers: [en, mask, due]
          isrs,   \* handlers: the test that installed one, by interrupt
          wk,     \* the primary PE
          wlog    \* what became of the tests

wkvars == <<wb, tinfo, tm, isrs, wk, wlog>>

RT_WDOG_INT_ID == "ws0"
NoTimers       == [num |-> 0, blocks |-> <<>>]

-----------------------------------------------------------------------------
(* pal_timer_create_info_table and what the tests ask of the table. A      *)
(* system timer is [base, gsiv, secure].                                   *)
Unfilled == [base |-> "none", gsiv |-> "none", secure |-> FALSE]

\* The override keeps the flags that were filled in.
pal_timer_platform_override(table) ==
  IF wb.override = Unfilled THEN table
  ELSE [num    |-> 1,
        blocks |-> [table.blocks EXCEPT ![1] = <<[wb.override EXCEPT !.secure = table.blocks[1][1].secure]>>]]

\* Bare metal, where there is one block, and what UEFI reads from the GTDT.
TableOf(blocks) == [num |-> Len(FlattenSeq(blocks)), blocks |-> blocks]

\* Without a GTDT there are no timers and no override.
pal_timer_create_info_table ==
  IF wb.uefi /\ wb.gtdt # <<>> THEN pal_timer_platform_override(TableOf(wb.gtdt)) ELSE TableOf(wb.gtdt)

\* val_platform_timer_get_entry_index: an instance that equals the number of timers of a block
\* is looked up behind them.
GetEntryIndex[instance \in 0 .. 9, block \in 1 .. 9] ==
  IF block <= Len(tinfo.blocks) /\ instance > Len(tinfo.blocks[block])
  THEN GetEntryIndex[instance - Len(tinfo.blocks[block]), block + 1]
  ELSE <<block, instance>>

TimerAt(instance) ==
  LET at == GetEntryIndex[instance, 1]
  IN  IF at[1] > Len(tinfo.blocks) \/ at[2] >= Len(tinfo.blocks[at[1]]) THEN Unfilled
      ELSE tinfo.blocks[at[1]][at[2] + 1]

NonSecure == {i \in 0 .. tinfo.num - 1 : ~TimerAt(i).secure}

val_get_counter_frequency == IF wb.frequency # 0 THEN wb.frequency ELSE wb.cntfrq

-----------------------------------------------------------------------------
(* The timers and their interrupts.                                        *)
Off(t) == [tm EXCEPT ![t].en = FALSE, ![t].mask = TRUE]
Arm(t) == [tm EXCEPT ![t].en = TRUE, ![t].mask = FALSE]

\* The registers of a system timer. A write to none of them goes nowhere.
val_timer_disable_system_timer(base) ==
  IF base \in DOMAIN tm THEN [tm EXCEPT ![base].en = FALSE, ![base].mask = FALSE] ELSE tm

\* The timers of the system, which are those of its tables.
SystemTimers == ToSet(FlattenSeq(wb.gtdt)) \cup ({wb.override} \ {Unfilled})

IntidOf(t) ==
  CASE t = "phy" -> wb.ppi
    [] t = "wd"  -> RT_WDOG_INT_ID
    [] OTHER     -> (CHOOSE s \in SystemTimers : s.base = t).gsiv

Up(t)     == tm[t].en /\ ~tm[t].mask /\ tm[t].due
Pending   == {t \in DOMAIN tm : Up(t) /\ IntidOf(t) \in DOMAIN isrs}

Expire(t) ==
  /\ tm[t].en /\ ~tm[t].due /\ (t = "wd" => wb.watchdog)
  /\ tm' = [tm EXCEPT ![t].due = TRUE]
  /\ UNCHANGED <<wb, tinfo, isrs, wk, wlog>>

\* The handlers of the three tests. The interrupt belongs to the test that armed the timer.
Isr(t) ==
  LET test == isrs[IntidOf(t)]
      mine == wk.test = test /\ wk.armed = t
  IN  /\ t \in Pending /\ wk.pc # "asleep"
      /\ tm' = CASE test = "rme023" -> Off("phy")
                 [] test = "rme024" -> val_timer_disable_system_timer(wk.cnt_base_n)
                 [] test = "rme027" -> Off("wd")
      /\ wk' = [wk EXCEPT !.irq_received = IF test = "rme027" THEN @ ELSE @ \cup {test},
                          !.status = IF test = "rme027" THEN "PASS" ELSE @,
                          !.fired = @ \/ mine, !.stray = @ \/ ~mine]
      /\ UNCHANGED <<wb, tinfo, isrs, wlog>>

-----------------------------------------------------------------------------
(* The tests. A step is taken when no interrupt is to be taken first.      *)
NoIrq == Pending = {}
Now(test, p) == NoIrq /\ wk.test = test /\ wk.pc = p
Still == UNCHANGED <<wb, tinfo>>

\* The application fills the table and stops the timer that firmware may have left running.
val_timer_create_info_table ==
  /\ wk.pc = "boot"
  /\ tinfo' = pal_timer_create_info_table
  /\ tm' = Off("phy")
  /\ wk' = [wk EXCEPT !.pc = "idle"]
  /\ UNCHANGED <<wb, isrs, wlog>>

Begin ==
  /\ NoIrq /\ wk.pc = "idle" /\ Len(wlog) < Len(wb.tests)
  /\ wk' = [wk EXCEPT !.test = wb.tests[Len(wlog) + 1], !.pc = "start", !.status = "PENDING",
                      !.armed = "none", !.fired = FALSE, !.polls = PollBudget]
  /\ Still /\ UNCHANGED <<tm, isrs, wlog>>

Report(status) ==
  /\ wlog' = Append(wlog, [test |-> wk.test, status |-> status, fired |-> wk.fired, regs |-> wk.regs])
  /\ wk' = [wk EXCEPT !.pc = "idle", !.test = "none"]
  /\ Still

Install(intid) == isrs' = [i \in DOMAIN isrs \cup {intid} |-> IF i = intid THEN wk.test ELSE isrs[i]]

Start023 ==
  /\ Now("rme023", "start")
  /\ Install(wb.ppi)
  /\ wk' = [wk EXCEPT !.pc = "save", !.irq_received = @ \ {"rme023"}]
  /\ Still /\ UNCHANGED <<tm, wlog>>

\* The last timer that is not secure.
Start024 ==
  /\ Now("rme024", "start")
  /\ IF NonSecure = {} THEN Report("SKIP1") /\ UNCHANGED <<tm, isrs>>
     ELSE /\ Install(TimerAt(Max(NonSecure)).gsiv)
          /\ wk' = [wk EXCEPT !.pc = "save", !.irq_received = @ \ {"rme024"}, !.timer_num = Max(NonSecure)]
          /\ Still /\ UNCHANGED <<tm, wlog>>

\* val_read_pe_regs_bfr_low_pwr_el3: from here on regs says whether the registers are as saved.
Save ==
  /\ NoIrq /\ wk.pc = "save"
  /\ wk' = [wk EXCEPT !.pc = "arm", !.regs = TRUE]
  /\ Still /\ UNCHANGED <<tm, isrs, wlog>>

\* val_timer_set_phy_el1: stop the timer, set it, start it; for no ticks stop it.
SetPhy ==
  \/ /\ Now("rme023", "arm") /\ tm' = Off("phy")
     /\ wk' = [wk EXCEPT !.pc = IF val_get_counter_frequency = 0 THEN "sleep" ELSE "tval"]
  \/ /\ Now("rme023", "tval") /\ tm' = [tm EXCEPT !["phy"].due = FALSE]
     /\ wk' = [wk EXCEPT !.pc = "enable"]
  \/ /\ Now("rme023", "enable") /\ tm' = Arm("phy")
     /\ wk' = [wk EXCEPT !.pc = "sleep", !.armed = "phy"]

val_timer_set_phy_el1 == SetPhy /\ Still /\ UNCHANGED <<isrs, wlog>>

\* val_timer_set_system_timer, with the base taken from the table first.
val_timer_set_system_timer ==
  /\ \/ /\ Now("rme024", "arm")
        /\ wk' = [wk EXCEPT !.pc = "enable", !.cnt_base_n = TimerAt(wk.timer_num).base]
        /\ LET base == TimerAt(wk.timer_num).base
           IN  tm' = IF base \in DOMAIN tm THEN [tm EXCEPT ![base].due = FALSE] ELSE tm
     \/ /\ Now("rme024", "enable")
        /\ tm' = IF wk.cnt_base_n \in DOMAIN tm THEN Arm(wk.cnt_base_n) ELSE tm
        /\ wk' = [wk EXCEPT !.pc = "sleep", !.armed = wk.cnt_base_n]
  /\ Still /\ UNCHANGED <<isrs, wlog>>

\* val_suspend_pe: the power state that the version and the format of the firmware ask for.
PowerState == IF wb.psci < 1 \/ wb.original THEN 0 ELSE 1

\* WFI, or a suspend that the firmware may refuse.
Sleep ==
  /\ NoIrq /\ wk.pc = "sleep"
  /\ wk' = [wk EXCEPT !.pc = IF wk.test = "rme024" /\ PowerState \notin wb.accepted THEN "refused" ELSE "asleep"]
  /\ Still /\ UNCHANGED <<tm, isrs, wlog>>

\* A pending interrupt ends the low power state; something else may end it as well.
Wake ==
  /\ wk.pc = "asleep" /\ (Pending # {} \/ wb.spurious)
  /\ \E kept \in {TRUE, wb.retains} : wk' = [wk EXCEPT !.pc = "compare", !.regs = kept]
  /\ Still /\ UNCHANGED <<tm, isrs, wlog>>

\* val_cmpr_pe_regs_aftr_low_pwr_el3, val_pe_reg_list_cmp_msd.
Compare ==
  /\ NoIrq /\ wk.pc = "compare"
  /\ wk' = [wk EXCEPT !.pc = "check", !.generic_flag = ~wk.regs]
  /\ Still /\ UNCHANGED <<tm, isrs, wlog>>

Check ==
  /\ NoIrq /\ wk.pc = "check"
  /\ IF wk.test \in wk.irq_received
     THEN Report(IF wk.generic_flag THEN "FAIL2" ELSE "PASS")
     ELSE wk' = [wk EXCEPT !.pc = "missed"] /\ Still /\ UNCHANGED wlog
  /\ UNCHANGED <<tm, isrs>>

\* Mutant: the timer of a test that gives up keeps running.
GiveUpRunning ==
  /\ NoIrq /\ wk.pc \in {"missed", "refused"}
  /\ wk' = [wk EXCEPT !.pc = IF @ = "missed" THEN "failed" ELSE "skipped"]
  /\ Still /\ UNCHANGED <<tm, isrs, wlog>>

\* The timer is stopped before the test gives up, and rme024 stops the other one too.
GiveUp ==
  /\ NoIrq /\ wk.pc \in {"missed", "refused"}
  /\ tm' = IF wk.test = "rme023" THEN Off("phy")
           ELSE LET off == val_timer_disable_system_timer(wk.cnt_base_n)
                IN  IF wk.pc = "refused" THEN off ELSE [off EXCEPT !["phy"].en = FALSE, !["phy"].mask = TRUE]
  /\ wk' = [wk EXCEPT !.pc = IF @ = "missed" THEN "failed" ELSE "skipped"]
  /\ Still /\ UNCHANGED <<isrs, wlog>>

GivenUp ==
  /\ NoIrq /\ wk.pc \in {"failed", "skipped"}
  /\ Report(IF wk.pc = "failed" THEN "FAIL1" ELSE "SKIP2")
  /\ UNCHANGED <<tm, isrs>>

-----------------------------------------------------------------------------
(* test_rme027.                                                            *)
Start027 ==
  /\ Now("rme027", "start")
  /\ IF wb.refuses THEN Report("FAIL2") /\ UNCHANGED <<tm, isrs>>
     ELSE /\ Install(RT_WDOG_INT_ID)
          /\ wk' = [wk EXCEPT !.pc = "arm027"]
          /\ Still /\ UNCHANGED <<tm, wlog>>

\* ROOT_WATCHDOG in EL3: the offset register, then the control register.
val_wd_set_ws0_el3 ==
  /\ Now("rme027", "arm027")
  /\ tm' = [tm EXCEPT !["wd"] = [en |-> TRUE, mask |-> FALSE, due |-> FALSE]]
  /\ wk' = [wk EXCEPT !.pc = "poll", !.armed = "wd"]
  /\ Still /\ UNCHANGED <<isrs, wlog>>

\* A watchdog that works does so within a second, half of the time the loop takes at least.
Poll ==
  /\ Now("rme027", "poll") /\ (wk.polls = 2 /\ wb.watchdog => wk.status # "PENDING")
  /\ IF wk.polls > 1 /\ wk.status = "PENDING"
     THEN wk' = [wk EXCEPT !.polls = @ - 1] /\ Still /\ UNCHANGED wlog
     ELSE Report(IF wk.polls = 1 THEN "FAIL4" ELSE wk.status)
  /\ UNCHANGED <<tm, isrs>>

-----------------------------------------------------------------------------
WkInit ==
  /\ wb \in Boards /\ tinfo = NoTimers /\ isrs = <<>> /\ wlog = <<>>
  /\ tm = [t \in {"phy", "wd"} \cup {s.base : s \in SystemTimers} |->
             [en |-> t = "phy" /\ wb.running, mask |-> FALSE, due |-> FALSE]]
  /\ wk = [pc |-> "boot", test |-> "none", status |-> "PENDING", irq_received |-> {}, timer_num |-> 0,
           cnt_base_n |-> "none", armed |-> "none", fired |-> FALSE, stray |-> FALSE, regs |-> TRUE,
           generic_flag |-> FALSE, polls |-> 0]

WkNext ==
  \/ val_timer_create_info_table \/ Begin \/ Start023 \/ Start024 \/ Start027 \/ Save
  \/ val_timer_set_phy_el1 \/ val_timer_set_system_timer \/ val_wd_set_ws0_el3 \/ Sleep \/ Wake
  \/ Compare \/ Check \/ GiveUp \/ GivenUp \/ Poll
  \/ \E t \in DOMAIN tm : Expire(t) \/ Isr(t)

-----------------------------------------------------------------------------
\* A wake-up test says what happened: the handler of a test runs only while the
\* test that armed its timer waits for it, so that no timer left running by
\* firmware or by an earlier test is taken for the one of this test; it passes
\* only if its own timer woke it and the registers were kept, and it reports lost
\* registers only if they were lost; and between tests the timers of rme023 and
\* rme024 are off.
WakeupSound ==
  /\ ~wk.stray
  /\ \A i \in DOMAIN wlog :
       /\ wlog[i].status = "PASS" => wlog[i].fired /\ (wlog[i].regs \/ wlog[i].test = "rme027")
       /\ wlog[i].status = "FAIL2" /\ wlog[i].test # "rme027" => ~wlog[i].regs
       /\ wlog[i].status = "FAIL4" => ~wb.watchdog
  /\ wk.pc = "idle" => \A t \in DOMAIN tm \ {"wd"} : ~tm[t].en
=============================================================================
