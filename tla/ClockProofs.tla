------------------------------ MODULE ClockProofs -----------------------------
(* Theorems about Clock for every number of readings rcc_wait may make.     *)
EXTENDS Clock, TLAPS

LEMMA InitClockType == ClockInit => ClockTypeOK
  <1> SUFFICES ASSUME ClockInit PROVE ClockTypeOK
    OBVIOUS
  <1>1. cfgr \in Cfgr
    BY DEF ClockInit, ResetCfgr, Cfgr
  <1>2. pc \in Places \cup Results
    BY DEF ClockInit, Places
  <1>3. polls \in 0 .. RCC_TIMEOUT - 1
    BY ClockAssumption DEF ClockInit
  <1>4. fail_test \in BOOLEAN /\ late \in BOOLEAN
    BY DEF ClockInit
  <1>5. hse \in Oscillator /\ pll \in Oscillator
    BY DEF ClockInit, Oscillator
  <1>6. mhz \in {72, 120} /\ sws \in {"HSI", "PLL"} /\ latency \in {0, 2, 3}
    BY DEF ClockInit
  <1> QED BY <1>1, <1>2, <1>3, <1>4, <1>5, <1>6, Zenon DEF ClockTypeOK

(* Only rcc_wait counts, and it starts over whenever it ends.               *)
LEMMA StepPolls ==
    ASSUME polls \in 0 .. RCC_TIMEOUT - 1, [ClockNext]_clockVars
    PROVE  polls' \in 0 .. RCC_TIMEOUT - 1
  <1>1. CASE Wait
    <2>1. polls' = 0 \/ (~TimedOut /\ polls' = Counted)
      BY <1>1, Zenon DEF Wait, rcc_wait
    <2> QED BY <2>1, ClockAssumption DEF TimedOut, Counted
  <1>2. CASE SetLatency \/ hse_start \/ ConfigurePll \/ EnablePll \/ SelectPll
             \/ FallBack \/ StopClocks \/ SlowFlash
    BY <1>2 DEF SetLatency, hse_start, ConfigurePll, EnablePll, SelectPll,
                FallBack, StopClocks, SlowFlash, Step
  <1>3. CASE HseStarts \/ PllLocks \/ Switch \/ UNCHANGED clockVars
    BY <1>3 DEF HseStarts, PllLocks, Switch, clockVars, codeVars
  <1> QED BY <1>1, <1>2, <1>3 DEF ClockNext, clock_init

LEMMA StepPlace ==
    ASSUME pc \in Places \cup Results, [ClockNext]_clockVars
    PROVE  pc' \in Places \cup Results
  <1>1. CASE Wait
    BY <1>1 DEF Wait, rcc_wait, Results, Places
  <1>2. CASE HseStarts \/ PllLocks \/ Switch \/ UNCHANGED clockVars
    BY <1>2 DEF HseStarts, PllLocks, Switch, clockVars, codeVars
  <1>3. CASE SetLatency \/ hse_start \/ ConfigurePll \/ EnablePll \/ SelectPll
             \/ FallBack \/ StopClocks \/ SlowFlash
    BY <1>3 DEF SetLatency, hse_start, ConfigurePll, EnablePll, SelectPll,
                FallBack, StopClocks, SlowFlash, Step, Results, Places
  <1> QED BY <1>1, <1>2, <1>3 DEF ClockNext, clock_init

LEMMA StepCfgr ==
    ASSUME cfgr \in Cfgr, [ClockNext]_clockVars
    PROVE  cfgr' \in Cfgr
  <1>1. CASE ConfigurePll
    BY <1>1 DEF ConfigurePll, WriteCfgr, Cfgr
  <1>2. CASE SelectPll
    BY <1>2 DEF SelectPll, Cfgr
  <1>3. CASE FallBack
    BY <1>3 DEF FallBack, WriteCfgr, FallbackCfgr, ResetCfgr, Cfgr
  <1>4. CASE UNCHANGED cfgr
    BY <1>4
  <1> QED BY <1>1, <1>2, <1>3, <1>4 DEF ClockNext, clock_init, SetLatency, hse_start,
             EnablePll, Wait, rcc_wait, StopClocks, SlowFlash, HseStarts, PllLocks,
             Switch, clockVars, rccVars

(* The builds and the remaining registers, one case per group of actions.   *)
LEMMA StepRegisters ==
    ASSUME ClockTypeOK, [ClockNext]_clockVars
    PROVE  /\ mhz' \in {72, 120} /\ fail_test' \in BOOLEAN
           /\ hse' \in Oscillator /\ pll' \in Oscillator
           /\ sws' \in {"HSI", "PLL"}
           /\ latency' \in {0, 2, 3} /\ late' \in BOOLEAN
  <1> USE DEF ClockTypeOK
  <1>1. CASE Wait \/ UNCHANGED clockVars
    BY <1>1 DEF Wait, rcc_wait, rccVars, clockVars, codeVars
  <1>2. CASE HseStarts \/ PllLocks
    BY <1>2 DEF HseStarts, PllLocks, codeVars, Oscillator
  <1>3. CASE Switch
    <2>1. late' \in BOOLEAN
      BY <1>3, Zenon DEF Switch
    <2>2. sws' \in {"HSI", "PLL"}
      BY <1>3 DEF Switch, Cfgr
    <2>3. /\ mhz' = mhz /\ fail_test' = fail_test
          /\ hse' = hse /\ pll' = pll /\ latency' = latency
      BY <1>3 DEF Switch, codeVars
    <2> QED BY <2>1, <2>2, <2>3
  <1>4. CASE SetLatency \/ SlowFlash
    BY <1>4 DEF SetLatency, SlowFlash, FlashLatency, Step
  <1>5. CASE hse_start \/ EnablePll \/ StopClocks
    <2>1. hse' \in Oscillator /\ pll' \in Oscillator
      BY <1>5 DEF hse_start, EnablePll, StopClocks, Oscillator
    <2>2. /\ mhz' = mhz /\ fail_test' = fail_test
          /\ sws' = sws /\ latency' = latency /\ late' = late
      BY <1>5 DEF hse_start, EnablePll, StopClocks, Step
    <2> QED BY <2>1, <2>2
  <1>6. CASE ConfigurePll \/ SelectPll \/ FallBack
    BY <1>6 DEF ConfigurePll, SelectPll, FallBack, Step
  <1> QED BY <1>1, <1>2, <1>3, <1>4, <1>5, <1>6 DEF ClockNext, clock_init

LEMMA StepClockType == ClockTypeOK /\ [ClockNext]_clockVars => ClockTypeOK'
  BY StepPolls, StepPlace, StepCfgr, StepRegisters, Zenon DEF ClockTypeOK

(* The types of Clock hold for every timeout: rcc_wait's counter stays      *)
(* below it, and the registers have values clock_init writes.               *)
THEOREM ClockTypeCorrect == ClockSpec => []ClockTypeOK
  BY InitClockType, StepClockType, PTL DEF ClockSpec

-----------------------------------------------------------------------------
(* What holds on the way, by the place clock_init has reached.              *)

Mul == IF mhz = 120 THEN 15 ELSE 9
Div == IF mhz = 120 THEN 4 ELSE 2

Configured == {"pll on", "wait pll", "select", "wait switch", "running"}

(* The wait states of the build are set before anything else, and taken     *)
(* back last.                                                               *)
LatencyInv ==
    pc \notin {"latency", "failed"} => latency = FlashLatency

(* A PLL that is on multiplies by the factor of the build and runs from a   *)
(* crystal that is up.                                                      *)
PllInv ==
    /\ pc \in {"latency", "hse on", "wait hse off", "wait hse", "configure", "pll on"}
           => pll = "off"
    /\ pll # "off" => hse = "ready" /\ cfgr.mul = Mul
    /\ pc \in Configured => cfgr.mul = Mul /\ cfgr.ppre1 = Div
    /\ cfgr.sw = "PLL" => cfgr.ppre1 = Div
    /\ pc \in {"configure"} \cup Configured => hse = "ready"
    /\ pc \in {"select", "wait switch", "running"} => pll = "ready"

(* SYSCLK runs from the PLL only once asked to, and after that the fallback *)
(* finds it there only if it moved late.                                    *)
SwitchInv ==
    /\ cfgr.sw = "PLL" => pc \in {"wait switch", "running", "fall back"}
    /\ sws = "PLL" /\ pc \notin GivenUp => cfgr.sw = "PLL"
    /\ sws = "PLL" => pc \in {"wait switch", "running", "fall back"} \cup GivenUp
    /\ sws = "PLL" /\ pc \in {"fall back"} \cup GivenUp => late
    /\ sws = "PLL" => pll = "ready" /\ hse = "ready"
    /\ pc \in {"wait switch", "running"} => cfgr.sw = "PLL"
    /\ pc = "running" => sws = "PLL"

FallbackInv ==
    /\ pc \in GivenUp => cfgr.ppre1 = 1
    /\ pc \in {"slow flash", "failed"} =>
           \/ sws = "HSI" /\ hse = "off" /\ pll = "off"
           \/ late /\ hse = "ready" /\ pll = "ready"
    /\ pc = "failed" => latency = 0

ClockInv == ClockTypeOK /\ LatencyInv /\ PllInv /\ SwitchInv /\ FallbackInv

LEMMA InitClock == ClockInit => ClockInv
  <1> SUFFICES ASSUME ClockInit PROVE ClockInv
    OBVIOUS
  <1>1. LatencyInv /\ PllInv
    BY DEF ClockInit, LatencyInv, PllInv, Configured, ResetCfgr
  <1>2. SwitchInv /\ FallbackInv
    BY DEF ClockInit, SwitchInv, FallbackInv, GivenUp, ResetCfgr
  <1> QED BY <1>1, <1>2, InitClockType, Zenon DEF ClockInv

LEMMA StepLatency == ClockInv /\ [ClockNext]_clockVars => LatencyInv'
  <1> SUFFICES ASSUME ClockInv, [ClockNext]_clockVars PROVE LatencyInv'
    OBVIOUS
  <1> USE DEF LatencyInv, FlashLatency, ClockInv
  <1>1. CASE Wait
    BY <1>1 DEF Wait, rcc_wait, rccVars
  <1>2. CASE SetLatency \/ hse_start \/ ConfigurePll \/ EnablePll \/ SelectPll
             \/ FallBack \/ StopClocks \/ SlowFlash
    BY <1>2 DEF SetLatency, hse_start, ConfigurePll, EnablePll, SelectPll,
                FallBack, StopClocks, SlowFlash, Step
  <1>3. CASE HseStarts \/ PllLocks \/ Switch \/ UNCHANGED clockVars
    BY <1>3 DEF HseStarts, PllLocks, Switch, clockVars, codeVars, rccVars
  <1> QED BY <1>1, <1>2, <1>3 DEF ClockNext, clock_init

LEMMA StepPll == ClockInv /\ [ClockNext]_clockVars => PllInv'
  <1> SUFFICES ASSUME ClockInv, [ClockNext]_clockVars PROVE PllInv'
    OBVIOUS
  <1> USE DEF PllInv, Mul, Div, Configured, ClockInv
  <1>1. CASE Wait
    BY <1>1 DEF Wait, rcc_wait, rccVars
  <1>2. CASE SetLatency \/ hse_start \/ EnablePll \/ SlowFlash
    BY <1>2 DEF SetLatency, hse_start, EnablePll, SlowFlash, Step
  <1>3. CASE ConfigurePll
    BY <1>3 DEF ConfigurePll, WriteCfgr, Step
  <1>4. CASE SelectPll
    BY <1>4 DEF SelectPll, Step, ClockTypeOK, Cfgr
  <1>5. CASE FallBack
    BY <1>5 DEF FallBack, WriteCfgr, FallbackCfgr, ResetCfgr, Step
  <1>6. CASE StopClocks
    BY <1>6 DEF StopClocks, Step
  <1>7. CASE HseStarts \/ PllLocks \/ Switch \/ UNCHANGED clockVars
    BY <1>7 DEF HseStarts, PllLocks, Switch, clockVars, codeVars, rccVars
  <1> QED BY <1>1, <1>2, <1>3, <1>4, <1>5, <1>6, <1>7 DEF ClockNext, clock_init

LEMMA StepSwitch == ClockInv /\ [ClockNext]_clockVars => SwitchInv'
  <1> SUFFICES ASSUME ClockInv, [ClockNext]_clockVars PROVE SwitchInv'
    OBVIOUS
  <1> USE DEF SwitchInv, GivenUp, ClockInv
  <1>1. CASE Wait
    BY <1>1 DEF Wait, rcc_wait, rccVars, SwitchSeen
  <1>2. CASE SetLatency \/ hse_start \/ EnablePll \/ SlowFlash \/ StopClocks
    BY <1>2 DEF SetLatency, hse_start, EnablePll, SlowFlash, StopClocks, Step, PllInv
  <1>3. CASE ConfigurePll
    BY <1>3 DEF ConfigurePll, WriteCfgr, Step
  <1>4. CASE SelectPll
    BY <1>4 DEF SelectPll, Step, ClockTypeOK, Cfgr
  <1>5. CASE FallBack
    BY <1>5 DEF FallBack, WriteCfgr, FallbackCfgr, ResetCfgr, Step
  <1>6. CASE Switch
    BY <1>6 DEF Switch, codeVars, ClockTypeOK, Cfgr, PllInv
  <1>7. CASE HseStarts \/ PllLocks \/ UNCHANGED clockVars
    BY <1>7 DEF HseStarts, PllLocks, clockVars, codeVars, rccVars
  <1> QED BY <1>1, <1>2, <1>3, <1>4, <1>5, <1>6, <1>7 DEF ClockNext, clock_init

LEMMA StepFallback == ClockInv /\ [ClockNext]_clockVars => FallbackInv'
  <1> SUFFICES ASSUME ClockInv, [ClockNext]_clockVars PROVE FallbackInv'
    OBVIOUS
  <1> USE DEF FallbackInv, GivenUp, ClockInv
  <1>1. CASE Wait
    BY <1>1 DEF Wait, rcc_wait
  <1>2. CASE SetLatency \/ hse_start \/ EnablePll \/ SlowFlash \/ ConfigurePll \/ SelectPll
    BY <1>2 DEF SetLatency, hse_start, EnablePll, SlowFlash, ConfigurePll, SelectPll, Step
  <1>3. CASE FallBack
    BY <1>3 DEF FallBack, WriteCfgr, FallbackCfgr, ResetCfgr, Step
  <1>4. CASE StopClocks
    BY <1>4 DEF StopClocks, Step, SwitchInv, ClockTypeOK
  <1>5. CASE HseStarts \/ PllLocks \/ Switch
    BY <1>5 DEF HseStarts, PllLocks, Switch, codeVars, SwitchInv, ClockTypeOK, Cfgr
  <1>6. CASE UNCHANGED clockVars
    BY <1>6 DEF clockVars, codeVars, rccVars
  <1> QED BY <1>1, <1>2, <1>3, <1>4, <1>5, <1>6 DEF ClockNext, clock_init

LEMMA ClockInvariant == ClockSpec => []ClockInv
  <1>1. ClockInv /\ [ClockNext]_clockVars => ClockInv'
    BY StepClockType, StepLatency, StepPll, StepSwitch, StepFallback, Zenon DEF ClockInv
  <1> QED BY <1>1, InitClock, PTL DEF ClockSpec

(* The core never outruns the wait states or the APB1 limit, however long   *)
(* the waits and wherever they fail, a switch that comes late included up   *)
(* to the write that takes the PLL back.                                    *)
THEOREM ClocksStayInLimits == ClockSpec => []ClocksInLimits
  <1>1. ClockInv => ClocksInLimits
    <2> SUFFICES ASSUME ClockInv, ~(late /\ sws = "PLL" /\ pc \in GivenUp)
                 PROVE  latency >= LatencyFor(SYSCLK) /\ SYSCLK <= 36 * cfgr.ppre1
      BY DEF ClocksInLimits
    <2> USE DEF ClockInv
    <2>1. CASE sws = "PLL"
      <3>1. pc \in {"wait switch", "running", "fall back"}
        BY <2>1 DEF SwitchInv
      <3>2. latency = FlashLatency
        BY <3>1 DEF LatencyInv
      <3>3. cfgr.mul = Mul
        BY <2>1 DEF PllInv, SwitchInv
      <3>4. cfgr.ppre1 = Div
        BY <2>1 DEF PllInv, SwitchInv
      <3>5. mhz \in {72, 120}
        BY DEF ClockTypeOK
      <3> QED BY <2>1, <3>2, <3>3, <3>4, <3>5 DEF SYSCLK, LatencyFor, Mul, Div, FlashLatency
    <2>2. CASE sws # "PLL"
      <3>1. cfgr.ppre1 \in {1, 2, 4} /\ latency \in {0, 2, 3}
        BY DEF ClockTypeOK, Cfgr
      <3> QED BY <2>2, <3>1 DEF SYSCLK, LatencyFor
    <2> QED BY <2>1, <2>2
  <1> QED BY <1>1, ClockInvariant, PTL

(* Success is reported only at the speed of the build.                      *)
THEOREM SuccessIsAlwaysPll == ClockSpec => []SuccessIsPll
  <1>1. ClockInv => SuccessIsPll
    <2> SUFFICES ASSUME ClockInv, pc = "running"
                 PROVE  hse = "ready" /\ pll = "ready" /\ sws = "PLL" /\ SYSCLK = mhz
      BY DEF SuccessIsPll
    <2>1. hse = "ready" /\ pll = "ready" /\ sws = "PLL" /\ cfgr.mul = Mul
      BY DEF ClockInv, PllInv, SwitchInv, Configured
    <2>2. mhz \in {72, 120}
      BY DEF ClockInv, ClockTypeOK
    <2> QED BY <2>1, <2>2 DEF SYSCLK, Mul
  <1> QED BY <1>1, ClockInvariant, PTL

(* Every failure, a late switch included, leaves the same CFGR and wait     *)
(* states, and both oscillators off or, after a late switch, both running.  *)
THEOREM FailureIsAlwaysUniform == ClockSpec => []FailureIsUniform
  <1>1. ClockInv => FailureIsUniform
    BY DEF ClockInv, ClockTypeOK, Cfgr, FailureIsUniform, SwitchInv, FallbackInv, GivenUp
  <1> QED BY <1>1, ClockInvariant, PTL
=============================================================================
