----------------------------- MODULE OptionBytes -----------------------------
(* flash_disable_write_protection of src/src/flash_if.c, one option byte at *)
(* a time: the supply can fail between any two.  The option bytes live in a *)
(* block of flash of their own.  What protects the main flash is the copy   *)
(* the hardware loads at reset, so the two may differ until the next reset. *)
EXTENDS Integers, Sequences

CONSTANTS
    OptionByte,     \* the values of an option byte
    OB_RDP_UNLOCK,  \* in RDP: read protection is off (0xA5)
    OB_WRP_NONE     \* in WRP0..3: no page is protected (0xFF), which is also
                    \* what an erased option byte reads

ASSUME OptionByteAssumption ==
    /\ OptionByte \subseteq Nat
    /\ OB_RDP_UNLOCK \in OptionByte
    /\ OB_WRP_NONE \in OptionByte
    /\ OB_RDP_UNLOCK # OB_WRP_NONE

Kept == {"RDP", "USER", "DATA0", "DATA1"}
Wrp == {"WRP0", "WRP1", "WRP2", "WRP3"}
OptionName == Kept \cup Wrp
Options == [OptionName -> OptionByte]

(* The order in which the bytes are programmed after the erase.             *)
WriteOrder == <<"RDP", "USER", "DATA0", "DATA1", "WRP0", "WRP1", "WRP2", "WRP3">>

VARIABLES
    ob,         \* the option bytes
    loaded,     \* the option bytes in effect, as loaded by the last reset
    saved,      \* the locals rdp, user, data0, data1
    ob_step,    \* 0: not in the function; 1: before the erase; k + 1: before
                \* WriteOrder[k] is programmed; LastStep: before it returns
    ob_broken   \* may the controller fail to erase or program?

obVars == <<ob, loaded, saved, ob_step, ob_broken>>

LastStep == Len(WriteOrder) + 2
Unknown == -1
NoSnapshot == [b \in Kept |-> Unknown]

OptionTypeOK ==
    /\ ob \in Options
    /\ loaded \in Options
    /\ saved \in [Kept -> OptionByte \cup {Unknown}]
    /\ ob_step \in 0 .. LastStep
    /\ ob_broken \in BOOLEAN

-----------------------------------------------------------------------------
(* The function.  (A definition no action uses is a variant with a          *)
(* plausible slip.)                                                         *)

wrp_is_clear == \A b \in Wrp : ob[b] = OB_WRP_NONE

SnapshotForgotten == saved
Snapshot == [b \in Kept |-> ob[b]]

(* Entering it with some page protected.                                    *)
BeginOptions ==
    /\ ob_step = 0
    /\ ~wrp_is_clear
    /\ saved' = Snapshot
    /\ ob_step' = 1
    /\ UNCHANGED <<ob, loaded, ob_broken>>

EraseOptions ==
    /\ ob_step = 1
    /\ \/ ob' = [b \in OptionName |-> OB_WRP_NONE]
       \/ ob_broken /\ UNCHANGED ob
    /\ ob_step' = 2
    /\ UNCHANGED <<loaded, saved, ob_broken>>

(* RDP is written back only if read protection was off.                     *)
RdpAlwaysUnlocked == TRUE
RdpLeftErased == FALSE
RdpWrittenBack == saved["RDP"] = OB_RDP_UNLOCK

Written(b) == b = "RDP" => RdpWrittenBack

NewValue(b) ==
    IF b = "RDP" THEN OB_RDP_UNLOCK
    ELSE IF b \in Wrp THEN OB_WRP_NONE
    ELSE saved[b]

(* A byte takes a new value only while it is erased.                        *)
ProgramOption ==
    /\ ob_step \in 2 .. LastStep - 1
    /\ LET b == WriteOrder[ob_step - 1]
       IN  \/ /\ Written(b)
              /\ ob[b] = OB_WRP_NONE
              /\ ob' = [ob EXCEPT ![b] = NewValue(b)]
           \/ /\ ~Written(b) \/ ob[b] # OB_WRP_NONE \/ ob_broken
              /\ UNCHANGED ob
    /\ ob_step' = ob_step + 1
    /\ UNCHANGED <<loaded, saved, ob_broken>>

OptionStep == EraseOptions \/ ProgramOption

(* What it returns from its last step: whether the caller is to reset.      *)
NeverAskForReset == FALSE
AlwaysAskForReset == TRUE
AskForReset == wrp_is_clear

-----------------------------------------------------------------------------
(* Any reset leaves the function and loads the option bytes afresh.         *)
LoadOptions ==
    /\ loaded' = ob
    /\ saved' = NoSnapshot
    /\ ob_step' = 0
    /\ UNCHANGED <<ob, ob_broken>>

(* The hardware erases main flash when read protection turns from on to off *)
(* (comment in flash_disable_write_protection).                             *)
MassErase == loaded["RDP"] # OB_RDP_UNLOCK /\ ob["RDP"] = OB_RDP_UNLOCK
=============================================================================
