--------------------------------- MODULE Clock ---------------------------------
(* clock_init of src/src/main.c against the reset and clock controller:     *)
(* three bounded waits for a crystal, a PLL and a switch that come when     *)
(* they come, or never.  One step per register access.  Both builds (72 and *)
(* 120 MHz) and the HSE_FAIL_TEST build are initial choices.                *)
EXTENDS Integers

CONSTANT RCC_TIMEOUT  \* readings of a flag before rcc_wait gives up

ASSUME ClockAssumption == RCC_TIMEOUT \in Nat \ {0}

VARIABLES
    mhz, fail_test,  \* the build: USE_120MHZ, HSE_FAIL_TEST
    pc,              \* where clock_init is
    polls            \* readings rcc_wait has made

VARIABLES
    hse, pll,  \* RCC_CR: each is "off", "on" or "ready"
    cfgr,      \* RCC_CFGR: PLLMUL, PPRE1 as a divisor, SW
    sws,       \* RCC_CFGR_SWS: the source SYSCLK really has
    latency,   \* FLASH_ACR
    late       \* history: SYSCLK moved to the PLL after the last reading

codeVars == <<mhz, fail_test, pc, polls>>
rccVars == <<hse, pll, cfgr, sws, latency, late>>
clockVars == <<codeVars, rccVars>>

ResetCfgr == [mul |-> 2, ppre1 |-> 1, sw |-> "HSI"]

ClockInit ==
    /\ mhz \in {72, 120}
    /\ fail_test \in BOOLEAN
    /\ pc = "latency"
    /\ polls = 0
    /\ hse = "off"
    /\ pll = "off"
    /\ cfgr = ResetCfgr
    /\ sws = "HSI"
    /\ latency = 0
    /\ late = FALSE

Results == {"failed", "running"}

-----------------------------------------------------------------------------
(* clock_init.                                                              *)

Step(from, to) == pc = from /\ pc' = to /\ UNCHANGED <<mhz, fail_test, polls>>

LatencyOf72 == 2
FlashLatency == IF mhz = 120 THEN 3 ELSE 2

SetLatency ==
    /\ Step("latency", "hse on")
    /\ latency' = FlashLatency
    /\ UNCHANGED <<hse, pll, cfgr, sws, late>>

hse_start ==
    /\ Step("hse on", IF fail_test THEN "wait hse off" ELSE "wait hse")
    /\ hse' = IF fail_test THEN "off" ELSE "on"
    /\ UNCHANGED <<pll, cfgr, sws, latency, late>>

(* PLLMUL takes no write while the PLL is on.                               *)
WriteCfgr(c) == cfgr' = IF pll # "off" THEN [c EXCEPT !.mul = cfgr.mul] ELSE c

ConfigurePll ==
    /\ Step("configure", "pll on")
    /\ WriteCfgr([mul |-> IF mhz = 120 THEN 15 ELSE 9,
                  ppre1 |-> IF mhz = 120 THEN 4 ELSE 2,
                  sw |-> "HSI"])
    /\ UNCHANGED <<hse, pll, sws, latency, late>>

EnablePll ==
    /\ Step("pll on", "wait pll")
    /\ pll' = "on"
    /\ UNCHANGED <<hse, cfgr, sws, latency, late>>

SelectPll ==
    /\ Step("select", "wait switch")
    /\ cfgr' = [cfgr EXCEPT !.sw = "PLL"]
    /\ UNCHANGED <<hse, pll, sws, latency, late>>

NotCounted == polls
Counted == polls + 1
OnePollMore == polls = RCC_TIMEOUT
TimedOut == polls = RCC_TIMEOUT - 1

(* One reading of a flag in rcc_wait.                                       *)
rcc_wait(at, flag, appeared, timeout) ==
    /\ pc = at
    /\ IF flag \/ TimedOut
       THEN polls' = 0 /\ pc' = IF flag THEN appeared ELSE timeout
       ELSE polls' = Counted /\ UNCHANGED pc
    /\ UNCHANGED <<mhz, fail_test, rccVars>>

SwitchAsked == cfgr.sw = "PLL"
SwitchSeen == sws = "PLL"

(* The fall of HSERDY in the test build is awaited and not looked at.       *)
Wait ==
    \/ rcc_wait("wait hse off", hse # "ready", "wait hse", "wait hse")
    \/ rcc_wait("wait hse", hse = "ready", "configure", "fall back")
    \/ rcc_wait("wait pll", pll = "ready", "select", "fall back")
    \/ rcc_wait("wait switch", SwitchSeen, "running", "fall back")

(* clock_fallback_hsi.  The controller keeps on what SYSCLK runs from.      *)
PrescalersKept == [cfgr EXCEPT !.sw = "HSI"]
FallbackCfgr == ResetCfgr

FallBack ==
    /\ Step("fall back", "stop")
    /\ WriteCfgr(FallbackCfgr)
    /\ UNCHANGED <<hse, pll, sws, latency, late>>

StopClocks ==
    /\ Step("stop", "slow flash")
    /\ IF sws = "PLL" THEN UNCHANGED <<hse, pll>> ELSE hse' = "off" /\ pll' = "off"
    /\ UNCHANGED <<cfgr, sws, latency, late>>

SlowFlash ==
    /\ Step("slow flash", "failed")
    /\ latency' = 0
    /\ UNCHANGED <<hse, pll, cfgr, sws, late>>

clock_init ==
    \/ SetLatency
    \/ hse_start
    \/ ConfigurePll
    \/ EnablePll
    \/ SelectPll
    \/ Wait
    \/ FallBack
    \/ StopClocks
    \/ SlowFlash

-----------------------------------------------------------------------------
(* The controller.                                                          *)

HseStarts ==
    /\ hse = "on"
    /\ hse' = "ready"
    /\ UNCHANGED <<codeVars, pll, cfgr, sws, latency, late>>

PllLocks ==
    /\ pll = "on" /\ hse = "ready"
    /\ pll' = "ready"
    /\ UNCHANGED <<codeVars, hse, cfgr, sws, latency, late>>

Switch ==
    /\ sws # cfgr.sw
    /\ cfgr.sw = "PLL" => pll = "ready"
    /\ sws' = cfgr.sw
    /\ late' = (late \/ pc = "fall back")
    /\ UNCHANGED <<codeVars, hse, pll, cfgr, latency>>

ClockNext == clock_init \/ HseStarts \/ PllLocks \/ Switch

(* The processor executes its program; the controller owes nothing.         *)
ClockSpec == ClockInit /\ [][ClockNext]_clockVars /\ WF_clockVars(clock_init)

-----------------------------------------------------------------------------
(* Correctness.                                                             *)

Oscillator == {"off", "on", "ready"}
Cfgr == [mul : {2, 9, 15}, ppre1 : {1, 2, 4}, sw : {"HSI", "PLL"}]
Places ==
    {"latency", "hse on", "wait hse off", "wait hse", "configure", "pll on", "wait pll",
     "select", "wait switch", "fall back", "stop", "slow flash"}

ClockTypeOK ==
    /\ mhz \in {72, 120} /\ fail_test \in BOOLEAN
    /\ pc \in Places \cup Results
    /\ polls \in 0 .. RCC_TIMEOUT - 1
    /\ hse \in Oscillator /\ pll \in Oscillator
    /\ cfgr \in Cfgr
    /\ sws \in {"HSI", "PLL"}
    /\ latency \in {0, 2, 3} /\ late \in BOOLEAN

(* HSI and HSE are both 8 MHz.                                              *)
SYSCLK == IF sws = "PLL" THEN 8 * cfgr.mul ELSE 8

(* "Flash wait states: 2 for 48-72MHz", "3 for 96-120MHz".                  *)
LatencyFor(f) == IF f < 48 THEN 0 ELSE IF f <= 72 THEN 2 ELSE 3

(* Where clock_fallback_hsi has written CFGR and clock_init has failed.     *)
GivenUp == {"stop", "slow flash", "failed"}

(* At no moment does the core fetch from flash faster than its wait states  *)
(* allow, nor is APB1 clocked above 36 MHz, whichever wait fails            *)
(* (clock_init, clock_fallback_hsi).  The one exception is a core that a    *)
(* late switch, one that came just after rcc_wait gave it up, has moved to  *)
(* the PLL and that the fallback has not yet moved back.                    *)
ClocksInLimits ==
    \/ late /\ sws = "PLL" /\ pc \in GivenUp
    \/ latency >= LatencyFor(SYSCLK) /\ SYSCLK <= 36 * cfgr.ppre1

(* clock_init returns 1 only with the PLL running from the crystal, locked  *)
(* and selected, at the speed of the build ("Returns 1 if the PLL is        *)
(* running and selected").                                                  *)
SuccessIsPll ==
    pc = "running" => hse = "ready" /\ pll = "ready" /\ sws = "PLL" /\ SYSCLK = mhz

(* Whichever wait failed, the application gets the same prescaler, source   *)
(* asked for and wait states ("the state handed to the application is the   *)
(* same whichever failure path got here"), and a crystal and a PLL that are *)
(* both off on the HSI, or, after a late switch only, both still running.   *)
FailureIsUniform ==
    pc = "failed" =>
        /\ cfgr.sw = "HSI" /\ cfgr.ppre1 = 1 /\ latency = 0
        /\ \/ sws = "HSI" /\ hse = "off" /\ pll = "off"
           \/ late /\ hse = "ready" /\ pll = "ready"

(* What the comment of clock_fallback_hsi promises the application after a  *)
(* failure ("always inherits: HSI at 8MHz, every prescaler /1, zero flash   *)
(* wait states, HSE and PLL both off").                                     *)
FailureIsHsi ==
    pc = "failed" =>
        /\ sws = "HSI" /\ cfgr.sw = "HSI" /\ cfgr.ppre1 = 1 /\ latency = 0
        /\ hse = "off" /\ pll = "off"

(* A dead crystal, or a PLL that never locks, does not wedge the bootloader *)
(* ("every wait here is bounded").                                          *)
ClockReturns == <>(pc \in Results)
=============================================================================
