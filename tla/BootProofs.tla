------------------------------ MODULE BootProofs ------------------------------
(* Proofs about Boot, for every set of option values, vectors and bounds.   *)
EXTENDS Boot, TLAPS

(* Unprotecting runs in its own stage only, on a snapshot it has taken.     *)
StepsInOptions == ob_step # 0 => stage = "options"
SnapshotTaken == ob_step # 0 => \A b \in Kept : saved[b] \in OptionByte
TypeInv == BootTypeOK /\ StepsInOptions /\ SnapshotTaken

(* Before it starts, the option bytes are those in effect; once it has      *)
(* erased them, every page is unprotected.                                  *)
InSync ==
    stage \in {"main", "run_dfu_mode", "options"} /\ ob_step = 0 => ob = loaded
WrpWritten ==
    ~ob_broken /\ ob_step >= 2 => \A b \in Wrp : ob[b] = OB_WRP_NONE
ProtectionInv == InSync /\ WrpWritten /\ DfuCanWrite

(* RDP says "unlocked", in the option bytes or in the snapshot, only if it  *)
(* was unlocked at the last reset.                                          *)
NeverUnlocks ==
    /\ ob["RDP"] = OB_RDP_UNLOCK => loaded["RDP"] = OB_RDP_UNLOCK
    /\ saved["RDP"] = OB_RDP_UNLOCK => loaded["RDP"] = OB_RDP_UNLOCK

(* A request lives in the magic word across a reset, and only there.        *)
RequestInMagic ==
    /\ stage # "main" => ~magic
    /\ stage = "main" /\ requested => magic
    /\ stage \in Settled => ~requested

-----------------------------------------------------------------------------
(* Types.                                                                   *)

LEMMA WriteOrderRange ==
    /\ LastStep = 10
    /\ \A k \in 1 .. 8 : WriteOrder[k] \in OptionName
BY DEF LastStep, WriteOrder, OptionName, Kept, Wrp

(* What every reset leaves.                                                 *)
LEMMA ResetType ==
    ASSUME BootAssumption, OptionByteAssumption, TypeInv, Reset
    PROVE  /\ OptionTypeOK'
           /\ StepsInOptions'
           /\ SnapshotTaken'
           /\ stage' = "main"
           /\ clock' = "reset"
           /\ vectors' \in Vectors
           /\ dfu_state' = "OTHER"
           /\ reset_countdown' \in 0 .. ManifestPolls
<1>1. saved' \in [Kept -> OptionByte \cup {Unknown}]
  BY DEF Reset, LoadOptions, NoSnapshot
<1>2. ob_step' = 0 /\ ob_step' \in 0 .. LastStep
  BY WriteOrderRange DEF Reset, LoadOptions
<1>3. OptionTypeOK'
  BY <1>1, <1>2 DEF Reset, LoadOptions, TypeInv, BootTypeOK, OptionTypeOK
<1>4. vectors' \in Vectors
  BY DEF Reset, TypeInv, BootTypeOK, BootAssumption
<1>. QED
  BY <1>2, <1>3, <1>4 DEF Reset, BootAssumption, StepsInOptions, SnapshotTaken

LEMMA BeginType ==
    ASSUME OptionByteAssumption, OptionTypeOK, BeginOptions
    PROVE  /\ OptionTypeOK'
           /\ SnapshotTaken'
<1>1. ob_step' = 1 /\ ob_step' \in 0 .. LastStep
  BY WriteOrderRange DEF BeginOptions
<1>2. \A b \in Kept : ob[b] \in OptionByte
  BY DEF OptionTypeOK, Options, OptionName
<1>3. saved' \in [Kept -> OptionByte]
  BY <1>2 DEF BeginOptions, Snapshot
<1>. QED
  BY <1>1, <1>3 DEF BeginOptions, OptionTypeOK, SnapshotTaken

LEMMA OptionStepType ==
    ASSUME OptionByteAssumption, OptionTypeOK, SnapshotTaken, OptionStep
    PROVE  /\ OptionTypeOK'
           /\ SnapshotTaken'
           /\ ob_step # 0
<1>1. CASE EraseOptions
  <2>1. ob' \in Options
    BY <1>1 DEF EraseOptions, OptionTypeOK, Options, OptionByteAssumption
  <2>2. ob_step = 1 /\ ob_step' \in 0 .. LastStep
    BY <1>1, WriteOrderRange DEF EraseOptions
  <2>. QED
    BY <1>1, <2>1, <2>2 DEF EraseOptions, OptionTypeOK, SnapshotTaken
<1>2. CASE ProgramOption
  <2>. DEFINE b == WriteOrder[ob_step - 1]
  <2>1. ob_step \in 2 .. 9 /\ ob_step' = ob_step + 1
    BY <1>2, WriteOrderRange DEF ProgramOption
  <2>2. b \in OptionName
    BY <2>1, WriteOrderRange
  <2>3. ob' \in Options
    <3>1. CASE UNCHANGED ob
      BY <3>1 DEF OptionTypeOK
    <3>2. CASE ob' = [ob EXCEPT ![b] = NewValue(b)]
      <4>1. NewValue(b) \in OptionByte
        BY <2>1, <2>2 DEF NewValue, OptionByteAssumption, SnapshotTaken, OptionName
      <4>. QED
        BY <2>2, <3>2, <4>1 DEF OptionTypeOK, Options
    <3>. QED
      BY <1>2, <3>1, <3>2 DEF ProgramOption
  <2>4. ob_step' \in 0 .. LastStep
    BY <2>1, WriteOrderRange
  <2>. QED
    BY <1>2, <2>1, <2>3, <2>4 DEF ProgramOption, OptionTypeOK, SnapshotTaken
<1>. QED
  BY <1>1, <1>2 DEF OptionStep

LEMMA TypeInit ==
    ASSUME BootAssumption, OptionByteAssumption, BootInit
    PROVE  TypeInv
<1>1. saved \in [Kept -> OptionByte \cup {Unknown}]
  BY DEF BootInit, NoSnapshot
<1>2. ob_step = 0 /\ ob_step \in 0 .. LastStep
  BY WriteOrderRange DEF BootInit
<1>3. ob \in Options /\ loaded \in Options
  BY DEF BootInit, BootAssumption
<1>4. OptionTypeOK
  BY <1>1, <1>2, <1>3 DEF BootInit, OptionTypeOK
<1>5. reset_countdown \in 0 .. ManifestPolls /\ interruptions \in 0 .. MaxInterruptions
  BY DEF BootInit, BootAssumption
<1>6. BootTypeOK
  BY <1>4, <1>5 DEF BootInit, BootTypeOK
<1>. QED
  BY <1>2, <1>6 DEF TypeInv, StepsInOptions, SnapshotTaken

LEMMA TypeStep ==
    ASSUME BootAssumption, OptionByteAssumption, TypeInv, [BootNext]_bootVars
    PROVE  TypeInv'
<1>. USE DEF TypeInv, BootTypeOK, Settled, progVars, loopVars
<1>1. CASE EnterDfu
  BY <1>1 DEF EnterDfu, MagicConsumed, OptionTypeOK, obVars, StepsInOptions,
     SnapshotTaken
<1>2. CASE StartApplication
  BY <1>2 DEF StartApplication, OptionTypeOK, obVars, StepsInOptions, SnapshotTaken
<1>3. CASE ClockReady
  BY <1>3 DEF ClockReady, OptionTypeOK, obVars, StepsInOptions, SnapshotTaken
<1>4. CASE ClockFailed
  BY <1>4 DEF ClockFailed, OptionTypeOK, obVars, StepsInOptions, SnapshotTaken
<1>5. CASE Options_step(BeginOptions)
  BY <1>5, BeginType DEF Options_step, StepsInOptions
<1>6. CASE Options_step(OptionStep)
  BY <1>6, OptionStepType DEF Options_step, StepsInOptions
<1>7. CASE StartDfu
  <2>1. saved' \in [Kept -> OptionByte \cup {Unknown}]
    BY <1>7 DEF StartDfu, NoSnapshot
  <2>2. ob_step' = 0 /\ ob_step' \in 0 .. LastStep
    BY <1>7, WriteOrderRange DEF StartDfu
  <2>. QED
    BY <1>7, <2>1, <2>2 DEF StartDfu, OptionTypeOK, StepsInOptions, SnapshotTaken
<1>8. CASE RebootUnprotected
  BY <1>8, ResetType DEF RebootUnprotected, Rearm
<1>9. CASE Waiting
  <2>1. vectors' \in Vectors /\ dfu_state' \in {"OTHER", "MANIFEST_WAIT_RESET"}
    BY <1>9 DEF Waiting, usb_poll
  <2>2. reset_countdown' \in 0 .. ManifestPolls
    BY <1>9 DEF Waiting, BootAssumption
  <2>. QED
    BY <1>9, <2>1, <2>2 DEF Waiting, OptionTypeOK, obVars, StepsInOptions, SnapshotTaken
<1>10. CASE Manifested
  BY <1>10, ResetType DEF Manifested
<1>11. CASE AppRequestsDfu
  BY <1>11, ResetType DEF AppRequestsDfu
<1>12. CASE AppProtects
  BY <1>12 DEF AppProtects, OptionTypeOK, Options, StepsInOptions, SnapshotTaken
<1>13. CASE AppResets
  BY <1>13, ResetType DEF AppResets
<1>14. CASE Interrupted
  <2>1. interruptions' \in 0 .. MaxInterruptions
    BY <1>14 DEF Interrupted, BootAssumption
  <2>. QED
    BY <1>14, <2>1, ResetType DEF Interrupted
<1>15. CASE UNCHANGED bootVars
  BY <1>15 DEF bootVars, OptionTypeOK, obVars, StepsInOptions, SnapshotTaken
<1>. QED
  BY <1>1, <1>2, <1>3, <1>4, <1>5, <1>6, <1>7, <1>8, <1>9, <1>10, <1>11, <1>12,
     <1>13, <1>14, <1>15 DEF BootNext, BootStep

LEMMA TypeAlways == BootSpec => []TypeInv
<1>1. BootInit => TypeInv
  BY TypeInit, BootAssumption, OptionByteAssumption
<1>2. TypeInv /\ [BootNext]_bootVars => TypeInv'
  BY TypeStep, BootAssumption, OptionByteAssumption
<1>. QED
  BY <1>1, <1>2, PTL DEF BootSpec

(* Every variable of Boot keeps its type, and the option bytes only ever    *)
(* receive values of an option byte: the locals of                          *)
(* flash_disable_write_protection are read after they are written.          *)
THEOREM BootTypeCorrect == BootSpec => []BootTypeOK
<1>1. TypeInv => BootTypeOK
  BY DEF TypeInv
<1>. QED
  BY <1>1, TypeAlways, PTL

-----------------------------------------------------------------------------
(* Read protection.                                                         *)

LEMMA OptionStepNeverUnlocks ==
    ASSUME OptionByteAssumption, OptionTypeOK, NeverUnlocks,
           BeginOptions \/ OptionStep
    PROVE  NeverUnlocks'
<1>0. "RDP" \in Kept /\ "RDP" \in OptionName /\ "RDP" \notin Wrp
  BY DEF Kept, OptionName, Wrp
<1>1. CASE BeginOptions
  BY <1>0, <1>1 DEF BeginOptions, Snapshot, NeverUnlocks
<1>2. CASE EraseOptions
  BY <1>0, <1>2 DEF EraseOptions, NeverUnlocks, OptionByteAssumption
<1>3. CASE ProgramOption
  <2>1. UNCHANGED <<loaded, saved>>
    BY <1>3 DEF ProgramOption
  <2>2. ob'["RDP"] = OB_RDP_UNLOCK =>
           ob["RDP"] = OB_RDP_UNLOCK \/ saved["RDP"] = OB_RDP_UNLOCK
    <3>1. CASE UNCHANGED ob
      BY <3>1
    <3>2. ASSUME NEW b, Written(b), ob' = [ob EXCEPT ![b] = NewValue(b)]
          PROVE  ob'["RDP"] = OB_RDP_UNLOCK =>
                    ob["RDP"] = OB_RDP_UNLOCK \/ saved["RDP"] = OB_RDP_UNLOCK
      <4>1. CASE b = "RDP"
        BY <3>2, <4>1 DEF Written, RdpWrittenBack
      <4>2. CASE b # "RDP"
        BY <1>0, <3>2, <4>2 DEF OptionTypeOK, Options
      <4>. QED
        BY <4>1, <4>2
    <3>. QED
      BY <1>3, <3>1, <3>2 DEF ProgramOption
  <2>. QED
    BY <2>1, <2>2 DEF NeverUnlocks
<1>. QED
  BY <1>1, <1>2, <1>3 DEF OptionStep

LEMMA ResetNeverUnlocks ==
    ASSUME OptionByteAssumption, LoadOptions
    PROVE  NeverUnlocks'
<1>1. saved'["RDP"] = Unknown
  BY DEF LoadOptions, NoSnapshot, Kept
<1>2. Unknown # OB_RDP_UNLOCK
  BY DEF Unknown, OptionByteAssumption
<1>. QED
  BY <1>1, <1>2 DEF LoadOptions, NeverUnlocks

LEMMA NeverUnlocksStep ==
    ASSUME OptionByteAssumption, TypeInv, NeverUnlocks, [BootNext]_bootVars
    PROVE  NeverUnlocks'
<1>0. OptionTypeOK
  BY DEF TypeInv, BootTypeOK
<1>1. CASE UNCHANGED <<ob, loaded, saved>>
  BY <1>1 DEF NeverUnlocks
<1>2. CASE Reset
  BY <1>2, ResetNeverUnlocks DEF Reset
<1>3. CASE BeginOptions \/ OptionStep
  BY <1>0, <1>3, OptionStepNeverUnlocks
<1>4. CASE StartDfu
  <2>1. saved'["RDP"] # OB_RDP_UNLOCK
    BY <1>4 DEF StartDfu, NoSnapshot, Kept, Unknown, OptionByteAssumption
  <2>. QED
    BY <1>4, <2>1 DEF StartDfu, NeverUnlocks
<1>5. CASE AppProtects
  BY <1>0, <1>5 DEF AppProtects, OptionTypeOK, Options, NeverUnlocks
<1>. QED
  BY <1>1, <1>2, <1>3, <1>4, <1>5
  DEF BootNext, BootStep, EnterDfu, StartApplication, ClockReady, ClockFailed,
      Options_step, RebootUnprotected, Waiting, Manifested, AppRequestsDfu,
      AppResets, Interrupted, bootVars, obVars

(* No reset lifts read protection, and so wipes the application, wherever   *)
(* flash_disable_write_protection was cut off or failed.                    *)
THEOREM NeverMassErases == BootSpec => []NoMassErase
<1>1. BootInit => NeverUnlocks
  BY OptionByteAssumption
  DEF BootInit, NeverUnlocks, NoSnapshot, Kept, Unknown, OptionByteAssumption
<1>2. TypeInv /\ NeverUnlocks /\ [BootNext]_bootVars => NeverUnlocks'
  BY NeverUnlocksStep, OptionByteAssumption
<1>3. NeverUnlocks => NoMassErase
  BY DEF NeverUnlocks, NoMassErase, MassErase
<1>. QED
  BY <1>1, <1>2, <1>3, TypeAlways, PTL DEF BootSpec

-----------------------------------------------------------------------------
(* Write protection.                                                        *)

LEMMA OptionStepWritesWrp ==
    ASSUME OptionTypeOK, WrpWritten, BeginOptions \/ OptionStep
    PROVE  /\ WrpWritten'
           /\ ob_step' # 0
<1>1. CASE BeginOptions
  BY <1>1 DEF BeginOptions, WrpWritten
<1>2. CASE EraseOptions
  BY <1>2 DEF EraseOptions, WrpWritten, OptionName
<1>3. CASE ProgramOption
  <2>1. ob_step \in 2 .. 9 /\ ob_step' = ob_step + 1 /\ UNCHANGED ob_broken
    BY <1>3, WriteOrderRange DEF ProgramOption
  <2>2. ASSUME NEW c \in Wrp, ~ob_broken
        PROVE  ob'[c] = OB_WRP_NONE
    <3>0. c \in OptionName /\ c # "RDP" /\ ob[c] = OB_WRP_NONE
      BY <2>1, <2>2 DEF OptionName, Wrp, WrpWritten
    <3>1. CASE UNCHANGED ob
      BY <3>0, <3>1
    <3>2. ASSUME NEW b, ob' = [ob EXCEPT ![b] = NewValue(b)]
          PROVE  ob'[c] = OB_WRP_NONE
      BY <2>2, <3>0, <3>2 DEF NewValue, OptionTypeOK, Options
    <3>. QED
      BY <1>3, <3>1, <3>2 DEF ProgramOption
  <2>. QED
    BY <2>1, <2>2 DEF WrpWritten
<1>. QED
  BY <1>1, <1>2, <1>3 DEF OptionStep

LEMMA ProtectionStep ==
    ASSUME TypeInv, ProtectionInv, [BootNext]_bootVars
    PROVE  ProtectionInv'
<1>. USE DEF ProtectionInv
<1>0. OptionTypeOK /\ StepsInOptions
  BY DEF TypeInv, BootTypeOK
<1>1. CASE UNCHANGED obVars /\ stage' # "dfu" /\ (stage = "app" => stage' = "app")
          /\ (stage = "dfu" => stage' = "dfu") /\ (stage = "stopped" => stage' = "stopped")
  BY <1>0, <1>1 DEF TypeInv, BootTypeOK, Settled, obVars, InSync, WrpWritten, DfuCanWrite
<1>2. CASE Waiting \/ UNCHANGED bootVars
  BY <1>2 DEF Waiting, bootVars, progVars, obVars, InSync, WrpWritten, DfuCanWrite
<1>3. CASE Reset
  BY <1>3 DEF Reset, LoadOptions, InSync, WrpWritten, DfuCanWrite
<1>4. CASE Options_step(BeginOptions) \/ Options_step(OptionStep)
  <2>1. stage = "options" /\ stage' = "options" /\ (BeginOptions \/ OptionStep)
    BY <1>4 DEF Options_step, progVars
  <2>. QED
    BY <1>0, <2>1, OptionStepWritesWrp DEF InSync, DfuCanWrite
<1>5. CASE StartDfu
  <2>1. stage' = "dfu" /\ ob_step' = 0 /\ UNCHANGED <<ob, loaded, ob_broken>>
    BY <1>5 DEF StartDfu
  <2>2. ASSUME ~ob_broken
        PROVE  \A b \in Wrp : loaded[b] = OB_WRP_NONE
    <3>1. CASE ob_step = 0 /\ wrp_is_clear
      BY <1>5, <3>1 DEF StartDfu, InSync, wrp_is_clear
    <3>2. CASE ob_step = LastStep /\ ~AskForReset
      BY <2>2, <3>2, WriteOrderRange DEF WrpWritten, AskForReset, wrp_is_clear
    <3>. QED
      BY <1>5, <3>1, <3>2 DEF StartDfu
  <2>. QED
    BY <2>1, <2>2 DEF InSync, WrpWritten, DfuCanWrite
<1>6. CASE AppProtects
  <2>1. stage = "app" /\ stage' = "app" /\ ob_step' = 0
    BY <1>0, <1>6 DEF AppProtects, progVars, StepsInOptions
  <2>. QED
    BY <2>1 DEF InSync, WrpWritten, DfuCanWrite
<1>. QED
  BY <1>1, <1>2, <1>3, <1>4, <1>5, <1>6
  DEF BootNext, BootStep, EnterDfu, StartApplication, ClockReady, ClockFailed,
      RebootUnprotected, Manifested, AppRequestsDfu, AppResets, Interrupted

(* DFU mode is entered only with the pages unprotected in effect, not just  *)
(* in the option bytes, wherever an earlier attempt was cut off.            *)
THEOREM DfuNeverBlocked == BootSpec => []DfuCanWrite
<1>1. BootInit => ProtectionInv
  BY DEF BootInit, ProtectionInv, InSync, WrpWritten, DfuCanWrite
<1>2. TypeInv /\ ProtectionInv /\ [BootNext]_bootVars => ProtectionInv'
  BY ProtectionStep
<1>3. ProtectionInv => DfuCanWrite
  BY DEF ProtectionInv
<1>. QED
  BY <1>1, <1>2, <1>3, TypeAlways, PTL DEF BootSpec

-----------------------------------------------------------------------------
(* The other option bytes.                                                  *)

(* What a kept byte is to read in the end.                                  *)
Restored(b) ==
    IF b # "RDP" THEN saved[b]
    ELSE IF RdpWrittenBack THEN OB_RDP_UNLOCK ELSE OB_WRP_NONE

(* The snapshot is what is in effect; from the erase on, a kept byte reads  *)
(* erased until its turn has come, and its old value after that.            *)
SnapshotInEffect == ob_step # 0 => \A b \in Kept : saved[b] = loaded[b]
KeptInTurn ==
    ~ob_broken /\ ob_step >= 2 =>
        \A k \in 1 .. 4 :
            ob[WriteOrder[k]] =
                IF ob_step > k + 1 THEN Restored(WriteOrder[k]) ELSE OB_WRP_NONE
KeptInv == SnapshotInEffect /\ KeptInTurn

LEMMA KeptOrder ==
    /\ \A k \in 1 .. 4 : WriteOrder[k] \in Kept /\ WriteOrder[k] \in OptionName
    /\ \A b \in Kept : \E k \in 1 .. 4 : WriteOrder[k] = b
    /\ \A k \in 1 .. 4, m \in 1 .. 8 : WriteOrder[k] = WriteOrder[m] => k = m
BY DEF WriteOrder, Kept, Wrp, OptionName

LEMMA ProgramInTurn ==
    ASSUME OptionTypeOK, KeptInTurn, ProgramOption
    PROVE  KeptInTurn'
<1>1. /\ ob_step \in 2 .. 9 /\ ob_step' = ob_step + 1
      /\ UNCHANGED <<saved, ob_broken>>
  BY WriteOrderRange DEF ProgramOption
<1>2. \A b : Restored(b)' = Restored(b)
  BY <1>1 DEF Restored, RdpWrittenBack
<1>. DEFINE m == ob_step - 1
            new == WriteOrder[m]
<1>3. m \in 1 .. 8 /\ new \in OptionName
  BY <1>1, WriteOrderRange
<1>4. ASSUME ~ob_broken, NEW k \in 1 .. 4
      PROVE  ob'[WriteOrder[k]] =
                IF ob_step' > k + 1 THEN Restored(WriteOrder[k]) ELSE OB_WRP_NONE
  <2>. DEFINE c == WriteOrder[k]
  <2>1. ob[c] = IF ob_step > k + 1 THEN Restored(c) ELSE OB_WRP_NONE
    BY <1>1, <1>4 DEF KeptInTurn
  <2>2. c \in Kept /\ c \in OptionName
    BY KeptOrder
  <2>3. CASE k = m
    <3>1. ob[c] = OB_WRP_NONE /\ ob_step' > k + 1 /\ c = new
      BY <1>1, <2>1, <2>3
    <3>2. CASE Written(c)
      <4>1. ob' = [ob EXCEPT ![c] = NewValue(c)]
        BY <1>4, <3>1, <3>2 DEF ProgramOption
      <4>2. NewValue(c) = Restored(c)
        BY <2>2, <3>2 DEF NewValue, Restored, Written, Kept, Wrp
      <4>. QED
        BY <2>2, <3>1, <4>1, <4>2 DEF OptionTypeOK, Options
    <3>3. CASE ~Written(c)
      <4>1. ob' = ob /\ Restored(c) = OB_WRP_NONE
        BY <3>1, <3>3 DEF ProgramOption, Written, Restored
      <4>. QED
        BY <3>1, <4>1
    <3>. QED
      BY <3>2, <3>3
  <2>4. CASE k # m
    <3>1. c # new
      BY <1>3, <2>4, KeptOrder
    <3>2. ob'[c] = ob[c]
      BY <2>2, <3>1 DEF ProgramOption, OptionTypeOK, Options
    <3>3. ob_step' > k + 1 <=> ob_step > k + 1
      BY <1>1, <2>4
    <3>. QED
      BY <2>1, <3>2, <3>3
  <2>. QED
    BY <2>3, <2>4
<1>. QED
  BY <1>1, <1>2, <1>4 DEF KeptInTurn

LEMMA KeptStep ==
    ASSUME TypeInv, ProtectionInv, KeptInv, [BootNext]_bootVars
    PROVE  KeptInv'
<1>0. OptionTypeOK /\ StepsInOptions
  BY DEF TypeInv, BootTypeOK
<1>1. CASE UNCHANGED obVars
  BY <1>1 DEF obVars, KeptInv, SnapshotInEffect, KeptInTurn, Restored, RdpWrittenBack
<1>2. CASE ob_step' = 0
  BY <1>2 DEF KeptInv, SnapshotInEffect, KeptInTurn
<1>3. CASE Options_step(BeginOptions)
  <2>1. /\ ob_step' = 1 /\ ob = loaded
        /\ saved' = [b \in Kept |-> ob[b]] /\ loaded' = loaded
    BY <1>3 DEF Options_step, BeginOptions, Snapshot, ProtectionInv, InSync
  <2>. QED
    BY <2>1 DEF KeptInv, SnapshotInEffect, KeptInTurn
<1>4. CASE EraseOptions
  <2>1. ob_step = 1 /\ ob_step' = 2 /\ UNCHANGED <<loaded, saved, ob_broken>>
    BY <1>4 DEF EraseOptions
  <2>2. ~ob_broken => ob' = [b \in OptionName |-> OB_WRP_NONE]
    BY <1>4 DEF EraseOptions
  <2>3. KeptInTurn'
    BY <2>1, <2>2, KeptOrder DEF KeptInTurn
  <2>. QED
    BY <2>1, <2>3 DEF KeptInv, SnapshotInEffect
<1>5. CASE ProgramOption
  <2>1. ob_step # 0 /\ UNCHANGED <<loaded, saved>>
    BY <1>5 DEF ProgramOption
  <2>. QED
    BY <1>0, <1>5, <2>1, ProgramInTurn DEF KeptInv, SnapshotInEffect
<1>6. CASE AppProtects
  <2>1. ob_step' = 0
    BY <1>0, <1>6 DEF AppProtects, StepsInOptions
  <2>. QED
    BY <1>2, <2>1
<1>. QED
  BY <1>1, <1>2, <1>3, <1>4, <1>5, <1>6
  DEF BootNext, BootStep, EnterDfu, StartApplication, ClockReady, ClockFailed,
      Options_step, OptionStep, StartDfu, RebootUnprotected, Waiting, Manifested,
      AppRequestsDfu, AppResets, Interrupted, Reset, LoadOptions, bootVars

(* The reset after unprotecting loads every kept byte as it was before.     *)
LEMMA RebootKeeps ==
    ASSUME KeptInv, RebootUnprotected, ~ob_broken
    PROVE  /\ \A b \in Kept \ {"RDP"} : loaded'[b] = loaded[b]
           /\ loaded'["RDP"] = OB_RDP_UNLOCK <=> loaded["RDP"] = OB_RDP_UNLOCK
<1>1. ob_step = 10 /\ loaded' = ob
  BY WriteOrderRange DEF RebootUnprotected, Reset, LoadOptions
<1>2. ASSUME NEW b \in Kept
      PROVE  ob[b] = Restored(b) /\ saved[b] = loaded[b]
  BY <1>1, <1>2, KeptOrder DEF KeptInv, KeptInTurn, SnapshotInEffect
<1>3. "RDP" \in Kept
  BY DEF Kept
<1>4. ob["RDP"] = OB_RDP_UNLOCK <=> saved["RDP"] = OB_RDP_UNLOCK
  BY <1>2, <1>3, OptionByteAssumption DEF Restored, RdpWrittenBack
<1>. QED
  BY <1>1, <1>2, <1>3, <1>4 DEF Restored

(* Unprotecting costs no other option, for every value they may have.       *)
THEOREM OptionsAlwaysKept == BootSpec => OptionsKept
<1>1. BootInit => ProtectionInv /\ KeptInv
  BY DEF BootInit, ProtectionInv, InSync, WrpWritten, DfuCanWrite, KeptInv,
         SnapshotInEffect, KeptInTurn
<1>2. TypeInv /\ ProtectionInv /\ [BootNext]_bootVars => ProtectionInv'
  BY ProtectionStep
<1>3. TypeInv /\ ProtectionInv /\ KeptInv /\ [BootNext]_bootVars => KeptInv'
  BY KeptStep
<1>4. TypeInv /\ KeptInv /\ [BootNext]_bootVars =>
        [stage = "options" /\ stage' = "main" /\ ~ob_broken
         /\ interruptions' = interruptions =>
           /\ \A b \in Kept \ {"RDP"} : loaded'[b] = loaded[b]
           /\ loaded'["RDP"] = OB_RDP_UNLOCK <=> loaded["RDP"] = OB_RDP_UNLOCK]_bootVars
  <2>. SUFFICES ASSUME TypeInv, KeptInv, BootNext, stage = "options", stage' = "main",
                       ~ob_broken, interruptions' = interruptions
                PROVE  /\ \A b \in Kept \ {"RDP"} : loaded'[b] = loaded[b]
                       /\ loaded'["RDP"] = OB_RDP_UNLOCK <=> loaded["RDP"] = OB_RDP_UNLOCK
    OBVIOUS
  <2>1. ~Interrupted
    BY DEF Interrupted, TypeInv, BootTypeOK, BootAssumption
  <2>2. RebootUnprotected
    BY <2>1 DEF BootNext, BootStep, EnterDfu, StartApplication, ClockReady, ClockFailed,
        Options_step, StartDfu, Waiting, Manifested, AppRequestsDfu, AppProtects,
        AppResets, progVars
  <2>. QED
    BY <2>2, RebootKeeps
<1>. QED
  BY <1>1, <1>2, <1>3, <1>4, TypeAlways, PTL DEF BootSpec, OptionsKept

-----------------------------------------------------------------------------
(* Requests.                                                                *)

LEMMA RequestStep ==
    ASSUME RequestInMagic, [BootNext]_bootVars
    PROVE  RequestInMagic'
<1>. USE DEF RequestInMagic, Settled
<1>1. CASE EnterDfu
  BY <1>1 DEF EnterDfu, MagicConsumed
<1>2. CASE StartApplication
  BY <1>2 DEF StartApplication
<1>3. CASE ClockReady
  BY <1>3 DEF ClockReady
<1>4. CASE ClockFailed
  BY <1>4 DEF ClockFailed
<1>5. CASE Options_step(BeginOptions) \/ Options_step(OptionStep)
  BY <1>5 DEF Options_step, progVars
<1>6. CASE StartDfu
  BY <1>6 DEF StartDfu
<1>7. CASE RebootUnprotected
  BY <1>7 DEF RebootUnprotected, Rearm, Reset
<1>8. CASE Waiting
  BY <1>8 DEF Waiting
<1>9. CASE Manifested
  BY <1>9 DEF Manifested, Reset
<1>10. CASE AppRequestsDfu
  BY <1>10 DEF AppRequestsDfu, Reset
<1>11. CASE AppProtects
  BY <1>11 DEF AppProtects, progVars
<1>12. CASE AppResets
  BY <1>12 DEF AppResets, Reset
<1>13. CASE Interrupted
  BY <1>13 DEF Interrupted, Reset
<1>14. CASE UNCHANGED bootVars
  BY <1>14 DEF bootVars, progVars
<1>. QED
  BY <1>1, <1>2, <1>3, <1>4, <1>5, <1>6, <1>7, <1>8, <1>9, <1>10, <1>11, <1>12,
     <1>13, <1>14 DEF BootNext, BootStep

LEMMA RequestAlways == BootSpec => []RequestInMagic
<1>1. BootInit => RequestInMagic
  BY DEF BootInit, RequestInMagic, Settled
<1>2. RequestInMagic /\ [BootNext]_bootVars => RequestInMagic'
  BY RequestStep
<1>. QED
  BY <1>1, <1>2, PTL DEF BootSpec

(* Once main has chosen DFU the application does not start instead: the     *)
(* request outlives the reset run_dfu_mode asks for, in the magic word.     *)
THEOREM RequestsHonoured == BootSpec => []RequestHonoured
<1>1. RequestInMagic => RequestHonoured
  BY DEF RequestInMagic, RequestHonoured, Settled
<1>. QED
  BY <1>1, RequestAlways, PTL

(* A request is used up by the time the board settles, so that no later     *)
(* reset falls back into DFU mode on its account.                           *)
THEOREM RequestsConsumed == BootSpec => []RequestConsumed
<1>1. RequestInMagic => RequestConsumed
  BY DEF RequestInMagic, RequestConsumed, Settled
<1>. QED
  BY <1>1, RequestAlways, PTL
=============================================================================
