--------------------------------- MODULE Boot ---------------------------------
(* The life of the board as src/src/main.c arranges it, from reset to the   *)
(* application or to DFU mode and back: the entry decision, the clocks, the *)
(* option bytes, the main loop with its manifestation countdown.            *)
(*                                                                          *)
(* This is the 72 MHz build; the 120 MHz one compiles DFU mode out.  What   *)
(* the clock hardware does is a free choice of outcome.  DFU is seen as the *)
(* main loop sees it: each usb_poll() may change the application's vectors  *)
(* and leaves the protocol in MANIFEST_WAIT_RESET or not.                   *)
EXTENDS OptionBytes

CONSTANTS
    RAM_BASE, EStack,       \* the range of a plausible initial stack pointer
    APP_ADDRESS, AppLimit,  \* the range of a plausible reset vector
    Vectors,                \* stack pointers and reset vectors an image may have
    ErasedVectors,          \* what they read when erased
    InitialOptions,         \* option bytes a board may come with
    ManifestPolls,          \* polls between manifestation and reset (50)
    MaxInterruptions        \* how often the board is reset from outside

ASSUME BootAssumption ==
    /\ Vectors \subseteq [sp : Nat, reset : Nat]
    /\ ErasedVectors \in Vectors
    /\ InitialOptions \subseteq Options
    /\ ManifestPolls \in Nat /\ ManifestPolls > 2
    /\ MaxInterruptions \in Nat

VARIABLES
    stage,            \* where the program is
    clock,            \* what clock_init left running
    magic,            \* does the word at _dfu_magic hold DFU_MAGIC_VALUE?
    vectors,          \* the first two words of the application
    dfu_state,        \* dfu_get_state(), or "OTHER"
    reset_countdown,  \* the main loop's counter
    requested,        \* history: main chose DFU, and DFU mode has not begun
    interruptions     \* how many more resets may come from outside

progVars == <<stage, clock, magic, vectors>>
loopVars == <<dfu_state, reset_countdown>>
bootVars == <<progVars, loopVars, requested, interruptions, obVars>>

Settled == {"app", "dfu", "stopped"}

BootTypeOK ==
    /\ OptionTypeOK
    /\ stage \in {"main", "run_dfu_mode", "options"} \cup Settled
    /\ clock \in {"reset", "pll", "hsi"}
    /\ magic \in BOOLEAN
    /\ vectors \in Vectors
    /\ dfu_state \in {"OTHER", "MANIFEST_WAIT_RESET"}
    /\ reset_countdown \in 0 .. ManifestPolls
    /\ requested \in BOOLEAN
    /\ interruptions \in 0 .. MaxInterruptions

(* RAM holds anything when power comes up.                                  *)
BootInit ==
    /\ ob \in InitialOptions
    /\ loaded = ob
    /\ saved = NoSnapshot
    /\ ob_step = 0
    /\ ob_broken \in BOOLEAN
    /\ stage = "main"
    /\ clock = "reset"
    /\ magic \in BOOLEAN
    /\ vectors \in Vectors
    /\ dfu_state = "OTHER"
    /\ reset_countdown = 0
    /\ requested = FALSE
    /\ interruptions = MaxInterruptions

-----------------------------------------------------------------------------
(* Every reset, whoever asks for it.                                        *)
Reset ==
    /\ stage' = "main"
    /\ clock' = "reset"
    /\ vectors' = IF MassErase THEN ErasedVectors ELSE vectors
    /\ dfu_state' = "OTHER"
    /\ reset_countdown' = 0
    /\ LoadOptions

-----------------------------------------------------------------------------
(* main                                                                     *)

app_valid ==
    /\ vectors.sp >= RAM_BASE
    /\ vectors.sp <= EStack
    /\ vectors.reset >= APP_ADDRESS
    /\ vectors.reset <= AppLimit

(* The magic word after main has looked at it.                              *)
MagicLeftSet == magic
MagicConsumed == FALSE

EnterDfu ==
    /\ stage = "main"
    /\ \E f1_button_pressed \in BOOLEAN : f1_button_pressed \/ magic \/ ~app_valid
    /\ stage' = "run_dfu_mode"
    /\ magic' = MagicConsumed
    /\ requested' = TRUE
    /\ UNCHANGED <<clock, vectors, loopVars, interruptions, obVars>>

(* The application is started whether or not the crystal works.             *)
StartApplication ==
    /\ stage = "main"
    /\ ~magic
    /\ app_valid
    /\ clock' \in {"pll", "hsi"}
    /\ stage' = "app"
    /\ UNCHANGED <<magic, vectors, loopVars, requested, interruptions, obVars>>

-----------------------------------------------------------------------------
(* run_dfu_mode                                                             *)

ClockReady ==
    /\ stage = "run_dfu_mode"
    /\ clock' = "pll"
    /\ stage' = "options"
    /\ UNCHANGED <<magic, vectors, loopVars, requested, interruptions, obVars>>

(* boot_app_or_stop: USB needs the crystal.                                 *)
ClockFailed ==
    /\ stage = "run_dfu_mode"
    /\ clock' = "hsi"
    /\ stage' = IF app_valid THEN "app" ELSE "stopped"
    /\ requested' = FALSE
    /\ UNCHANGED <<magic, vectors, loopVars, interruptions, obVars>>

Options_step(step) ==
    /\ stage = "options"
    /\ step
    /\ UNCHANGED <<progVars, loopVars, requested, interruptions>>

(* dfu_init, once there is nothing to unprotect or the attempt failed.      *)
StartDfu ==
    /\ stage = "options"
    /\ \/ ob_step = 0 /\ wrp_is_clear
       \/ ob_step = LastStep /\ ~AskForReset
    /\ stage' = "dfu"
    /\ requested' = FALSE
    /\ saved' = NoSnapshot
    /\ ob_step' = 0
    /\ UNCHANGED <<clock, magic, vectors, loopVars, interruptions,
                   ob, loaded, ob_broken>>

RearmForgotten == magic' = magic
Rearm == magic' = TRUE

(* The protection is gone from the option bytes: back through reset.        *)
RebootUnprotected ==
    /\ stage = "options"
    /\ ob_step = LastStep
    /\ AskForReset
    /\ Rearm
    /\ Reset
    /\ UNCHANGED <<requested, interruptions>>

(* One turn of the main loop.  DFU writes fail while pages are protected.   *)
usb_poll ==
    /\ dfu_state' \in {"OTHER", "MANIFEST_WAIT_RESET"}
    /\ \/ UNCHANGED vectors
       \/ (\A b \in Wrp : loaded[b] = OB_WRP_NONE) /\ vectors' \in Vectors

Waiting ==
    /\ stage = "dfu"
    /\ usb_poll
    /\ \/ dfu_state' = "OTHER" /\ UNCHANGED reset_countdown
       \/ /\ dfu_state' = "MANIFEST_WAIT_RESET"
          /\ reset_countdown = 0
          /\ reset_countdown' = ManifestPolls
       \/ /\ dfu_state' = "MANIFEST_WAIT_RESET"
          /\ reset_countdown > 2
          /\ reset_countdown' = reset_countdown - 1
    /\ UNCHANGED <<stage, clock, magic, requested, interruptions, obVars>>

(* The turn in which the countdown reaches 1.  The poll of this very turn   *)
(* may be the one that entered MANIFEST_WAIT_RESET: the countdown goes on   *)
(* from where an earlier, abandoned manifestation left it.                  *)
Manifested ==
    /\ stage = "dfu"
    /\ reset_countdown = 2
    /\ Reset
    /\ UNCHANGED <<magic, requested, interruptions>>

-----------------------------------------------------------------------------
(* The world outside the bootloader.                                        *)

(* The application asks for DFU (README), protects a page, or just resets.  *)
AppRequestsDfu ==
    /\ stage = "app"
    /\ magic' = TRUE
    /\ Reset
    /\ UNCHANGED <<requested, interruptions>>

AppProtects ==
    /\ stage = "app"
    /\ \E v \in OptionByte : ob' = [ob EXCEPT !["WRP0"] = v]
    /\ UNCHANGED <<progVars, loopVars, requested, interruptions,
                   loaded, saved, ob_step, ob_broken>>

AppResets ==
    /\ stage = "app"
    /\ Reset
    /\ UNCHANGED <<magic, requested, interruptions>>

(* The reset pin keeps RAM; a power cycle does not.  A request that was     *)
(* under way is forgotten, and whoever made it makes it again.              *)
Interrupted ==
    /\ interruptions > 0
    /\ interruptions' = interruptions - 1
    /\ Reset
    /\ magic' \in BOOLEAN
    /\ requested' = FALSE

-----------------------------------------------------------------------------
BootStep ==
    \/ EnterDfu
    \/ StartApplication
    \/ ClockReady
    \/ ClockFailed
    \/ Options_step(BeginOptions)
    \/ Options_step(OptionStep)
    \/ StartDfu
    \/ RebootUnprotected

BootNext ==
    \/ BootStep
    \/ Waiting
    \/ Manifested
    \/ AppRequestsDfu
    \/ AppProtects
    \/ AppResets
    \/ Interrupted

(* The processor executes its program.                                      *)
BootSpec == BootInit /\ [][BootNext]_bootVars /\ WF_bootVars(BootStep)

-----------------------------------------------------------------------------
(* Correctness.                                                             *)

(* No reset ever finds read protection going from on to off, which would    *)
(* wipe the application (flash_disable_write_protection writes RDP back     *)
(* only when it was off), whatever the supply or the controller do midway.  *)
NoMassErase == ~MassErase

(* A reset the bootloader itself asks for after unprotecting the pages      *)
(* finds every other option as it was, and read protection at its level.    *)
OptionsKept ==
    [][ stage = "options" /\ stage' = "main" /\ ~ob_broken
        /\ interruptions' = interruptions =>
          /\ \A b \in Kept \ {"RDP"} : loaded'[b] = loaded[b]
          /\ loaded'["RDP"] = OB_RDP_UNLOCK <=> loaded["RDP"] = OB_RDP_UNLOCK ]_bootVars

(* In DFU mode the protection in effect never blocks an update, unless the  *)
(* option bytes cannot be changed: reprogramming them is worthless before   *)
(* the reset that loads them (README: leftover protection bits cannot block *)
(* a firmware update).                                                      *)
DfuCanWrite ==
    stage = "dfu" /\ ~ob_broken => \A b \in Wrp : loaded[b] = OB_WRP_NONE

(* Once main has chosen DFU, the application does not start instead, not    *)
(* even through the reset that unprotecting costs.  A dead crystal or an    *)
(* outside reset ends the request.                                          *)
RequestHonoured == stage = "app" => ~requested

(* A request is used up by the visit it asked for: neither a crash of the   *)
(* application nor the reset after an update falls back into DFU mode.      *)
RequestConsumed == stage \in Settled => ~magic

(* Every boot settles: no failure to program the option bytes turns into a  *)
(* reset loop (comment on flash_disable_write_protection), and a dead       *)
(* crystal does not hang it.                                                *)
BootSettles == stage = "main" ~> stage \in Settled

-----------------------------------------------------------------------------
(* What the documentation says, and the code does not keep.                 *)

(* README: "Read protection is left exactly as it was found."               *)
ReadProtectionKept ==
    [][ loaded'["RDP"] = OB_RDP_UNLOCK <=> loaded["RDP"] = OB_RDP_UNLOCK ]_bootVars
=============================================================================
