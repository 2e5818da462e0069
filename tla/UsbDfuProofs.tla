---------------------------- MODULE UsbDfuProofs ----------------------------
(* Theorems about UsbDfu for every geometry, transfer size, packet size,    *)
(* command code and set of host inputs that satisfies its assumptions.      *)
EXTENDS UsbDfu, FlashIfProofs, SequenceTheorems

-----------------------------------------------------------------------------
(* Arithmetic of addresses.                                                 *)

LEMMA U32Type ==
    ASSUME NEW n \in Int
    PROVE  U32(n) \in Addr
  <1>1. AddrLimit \in Nat \ {0}
    BY SizeAssumption, GeometryAssumption
  <1> QED BY <1>1 DEF U32, Addr

LEMMA BlockAddressType ==
    ASSUME dfuse_address_ptr \in Addr, NEW block \in Nat
    PROVE  BlockAddress(block) \in Addr
  <1>1. AddrLimit \in Nat /\ DFU_XFER_SIZE \in Nat
    BY SizeAssumption
  <1>2. (block - 2) * DFU_XFER_SIZE \in Int
    BY <1>1
  <1>3. dfuse_address_ptr + (block - 2) * DFU_XFER_SIZE \in Int
    BY <1>1, <1>2 DEF Addr
  <1> QED BY <1>3, U32Type DEF BlockAddress

LEMMA RegionIsAddressable ==
    /\ AppAddr \subseteq Addr
    /\ APP_FLASH_START \in Addr
    /\ APP_FLASH_START > 0
  BY SizeAssumption, GeometryAssumption DEF AppAddr, Addr

(* A packet is a sequence of bytes as long as the host meant it to be.      *)
LEMMA PacketType ==
    ASSUME TypeOK, ctl.left > 0, NEW packet \in Commands \cup Payloads
    PROVE  /\ PacketSize \in 1 .. ctl.left
           /\ SubSeq(packet, 1, PacketSize) \in Seq(Byte)
           /\ Len(SubSeq(packet, 1, PacketSize)) = PacketSize
  <1>1. packet \in Seq(Byte) /\ Len(packet) = EP0_MAX_SIZE
    BY InputAssumption, SizeAssumption
  <1>2. PacketSize \in 1 .. ctl.left /\ PacketSize \in 1 .. EP0_MAX_SIZE
    BY SizeAssumption DEF PacketSize, TypeOK
  <1> QED BY <1>1, <1>2, SubSeqProperties

(* The buffer never outgrows dfu_buffer.                                    *)
LEMMA ReceivedType ==
    ASSUME TypeOK, NEW bytes \in Seq(Byte)
    PROVE  /\ Received(bytes) \in Seq(Byte)
           /\ Len(Received(bytes)) <= DFU_XFER_SIZE
           /\ Len(dfu_buffer) + Len(bytes) <= DFU_XFER_SIZE
                => Len(Received(bytes)) = Len(dfu_buffer) + Len(bytes)
  BY DEF TypeOK, Received

LEMMA DecodeType ==
    ASSUME NEW buf \in Seq(Byte), Len(buf) >= 1
    PROVE  DecodeCommand(buf) \in [op : Byte, arg : Addr \cup {NoArg}]
  <1>1. buf[1] \in Byte
    OBVIOUS
  <1>2. ASSUME Len(buf) >= 5
        PROVE  buf[2] + ByteBase * (buf[3] + ByteBase * (buf[4] + ByteBase * buf[5])) \in Int
    <2>1. ByteBase \in Int /\ Byte \subseteq Int
      BY ByteAssumption DEF Byte
    <2>2. buf[2] \in Int /\ buf[3] \in Int /\ buf[4] \in Int /\ buf[5] \in Int
      <3>1. \A i \in 1 .. Len(buf) : buf[i] \in Byte
        OBVIOUS
      <3>2. 2 \in 1 .. Len(buf) /\ 3 \in 1 .. Len(buf) /\ 4 \in 1 .. Len(buf)
                /\ 5 \in 1 .. Len(buf)
        BY <1>2
      <3> QED BY <2>1, <3>1, <3>2
    <2>3. ByteBase * buf[5] \in Int
      BY <2>1, <2>2
    <2>4. ByteBase * (buf[4] + ByteBase * buf[5]) \in Int
      BY <2>1, <2>2, <2>3
    <2>5. ByteBase * (buf[3] + ByteBase * (buf[4] + ByteBase * buf[5])) \in Int
      BY <2>1, <2>2, <2>4
    <2> QED BY <2>2, <2>5
  <1> QED BY <1>1, <1>2, U32Type DEF DecodeCommand

-----------------------------------------------------------------------------
(* Type correctness.  A download in progress has a length of at least one,  *)
(* which is what keeps an empty buffer from being decoded as a command.     *)

TypeInv ==
    /\ TypeOK
    /\ dfu_state = "DNLOAD_SYNC" => xfer_len >= 1

LEMMA ConstantTypes ==
    /\ NoCommand \in [op : Byte, arg : Addr \cup {NoArg}]
    /\ NoTransfer \in [left : Nat, accepted : BOOLEAN]
    /\ \A kind \in {"nak", "stall", "zlp", "data"} :
          Reply(kind) \in [kind : {"nak", "stall", "zlp", "data"}, from : Addr, len : Nat]
  BY RegionIsAddressable, SizeAssumption, ByteAssumption
  DEF NoCommand, NoArg, NoTransfer, Reply, Byte, Addr

LEMMA InitType == Init => TypeInv
  <1> SUFFICES ASSUME Init PROVE TypeInv
    OBVIOUS
  <1>1. flash \in Flash
    BY InputAssumption DEF Init
  <1>2. dfu_state \in States /\ dfu_status \in Statuses /\ hung \in BOOLEAN
    BY DEF Init, States, Statuses
  <1>3. dfu_address \in Addr /\ dfuse_address_ptr \in Addr
    BY RegionIsAddressable DEF Init
  <1>4. block_num \in Nat /\ xfer_len \in 0 .. DFU_XFER_SIZE
    BY SizeAssumption DEF Init
  <1>5. dfu_buffer \in Seq(Byte) /\ Len(dfu_buffer) <= DFU_XFER_SIZE
    BY SizeAssumption DEF Init
  <1>6. /\ dfuse_cmd \in [op : Byte, arg : Addr \cup {NoArg}]
        /\ ep0_tx \in [kind : {"nak", "stall", "zlp", "data"}, from : Addr, len : Nat]
        /\ ctl \in [left : Nat, accepted : BOOLEAN]
    BY ConstantTypes DEF Init
  <1>7. dfu_state # "DNLOAD_SYNC"
    BY DEF Init
  <1> QED BY <1>1, <1>2, <1>3, <1>4, <1>5, <1>6, <1>7 DEF TypeInv, TypeOK


LEMMA EmptyBuffer == <<>> \in Seq(Byte) /\ Len(<<>>) = 0 /\ 0 <= DFU_XFER_SIZE
  BY SizeAssumption

LEMMA StepType == TypeInv /\ [Next]_vars => TypeInv'
  <1> SUFFICES ASSUME TypeInv, [Next]_vars PROVE TypeInv'
    OBVIOUS
  <1> USE ConstantTypes
  <1> USE DEF TypeInv, TypeOK, States, Statuses, dfuVars, cmdVars, Enter, Fail,
              handle_setup, ep0_stall, ep0_send_zlp, ep0_reply, GetStatus
  <1>1. CASE DnloadEnd
    BY <1>1, SizeAssumption DEF DnloadEnd
  <1>2. ASSUME NEW block \in Blocks, NEW len \in Lengths,
               DnloadOversize(len) \/ DnloadRefused(block, len)
        PROVE  TypeInv'
    <2>1. ctl' \in [left : Nat, accepted : BOOLEAN]
      <3>1. ctl' = [left |-> len, accepted |-> FALSE]
        BY <1>2 DEF DnloadOversize, DnloadRefused
      <3>2. len \in Nat
        BY InputAssumption
      <3> QED BY ONLY <3>1, <3>2
    <2>2. CASE DnloadOversize(len)
      BY <2>1, <2>2 DEF DnloadOversize
    <2>3. CASE DnloadRefused(block, len)
      BY <2>1, <2>3 DEF DnloadRefused
    <2> QED BY <1>2, <2>2, <2>3
  <1>3. ASSUME NEW block \in Blocks, NEW len \in Lengths, DnloadAccepted(block, len)
        PROVE  TypeInv'
    <2>1. dfu_address' \in Addr
      BY <1>3, BlockAddressType, InputAssumption DEF DnloadAccepted, DownloadAddress
    <2>2. dfu_buffer' = <<>> /\ block_num' \in Nat /\ xfer_len' \in 1 .. DFU_XFER_SIZE
      BY <1>3, InputAssumption DEF DnloadAccepted
    <2> QED BY <1>3, <2>1, <2>2, SizeAssumption DEF DnloadAccepted
  <1>4. ASSUME NEW packet \in Commands \cup Payloads, OutPacket(packet)
        PROVE  TypeInv'
    <2> DEFINE bytes == SubSeq(packet, 1, PacketSize)
    <2>1. ctl.left > 0 /\ handle_ep0_out(bytes)
      BY <1>4 DEF OutPacket
    <2>2. bytes \in Seq(Byte) /\ PacketSize \in 1 .. ctl.left
      BY <2>1, PacketType
    <2>3. Received(bytes) \in Seq(Byte) /\ Len(Received(bytes)) <= DFU_XFER_SIZE
      BY <2>2, ReceivedType
    <2>4. ctl' \in [left : Nat, accepted : BOOLEAN]
      <3>1. ctl.left - PacketSize \in Nat
        BY <2>2
      <3> QED BY <1>4, <3>1 DEF OutPacket
    <2>5. dfu_buffer' \in Seq(Byte) /\ Len(dfu_buffer') <= DFU_XFER_SIZE
      <3>1. dfu_buffer' \in {dfu_buffer, Received(bytes), <<>>}
        BY <2>1 DEF handle_ep0_out
      <3> QED BY <2>3, <3>1, EmptyBuffer
    <2>6. dfuse_cmd' \in [op : Byte, arg : Addr \cup {NoArg}]
      BY <2>1, <2>3, DecodeType DEF handle_ep0_out
    <2>7. ep0_tx' = ep0_tx \/ ep0_tx' = Reply("zlp")
      BY <2>1 DEF handle_ep0_out
    <2> QED BY <1>4, <2>4, <2>5, <2>6, <2>7 DEF OutPacket
  <1>5. CASE GetStatusSync \/ GetStatusManifest \/ GetStatusReport
    <2>1. CASE GetStatusSync
      BY <2>1 DEF GetStatusSync
    <2>2. CASE GetStatusManifest
      BY <2>2 DEF GetStatusManifest
    <2>3. CASE GetStatusReport
      BY <2>3 DEF GetStatusReport
    <2> QED BY <1>5, <2>1, <2>2, <2>3
  <1>6. CASE ExecuteSetAddress
    BY <1>6 DEF ExecuteSetAddress
  <1>7. CASE ExecuteErase
    <2>1. flash' \in Flash
      BY <1>7, EraseType DEF ExecuteErase
    <2> QED BY <1>7, <2>1 DEF ExecuteErase
  <1>8. CASE ExecuteUnknown
    BY <1>8 DEF ExecuteUnknown
  <1>9. CASE ExecuteProgram
    <2>1. flash' \in Flash
      BY <1>9, WriteType DEF ExecuteProgram, Addr
    <2>2. dfu_address' \in Addr
      <3>1. dfu_address + Len(dfu_buffer) \in Int
        BY DEF Addr
      <3>2. dfu_address' \in {dfu_address, U32(dfu_address + Len(dfu_buffer))}
        BY <1>9 DEF ExecuteProgram
      <3> QED BY <3>1, <3>2, U32Type
    <2>3. dfu_buffer' \in Seq(Byte) /\ Len(dfu_buffer') <= DFU_XFER_SIZE
      <3>1. dfu_buffer' \in {dfu_buffer, <<>>}
        BY <1>9 DEF ExecuteProgram
      <3> QED BY <3>1, EmptyBuffer
    <2> QED BY <1>9, <2>1, <2>2, <2>3 DEF ExecuteProgram
  <1>10. CASE ExecuteNothing \/ ExecuteFaults
    <2>1. CASE ExecuteNothing
      BY <2>1 DEF ExecuteNothing
    <2>2. CASE ExecuteFaults
      BY <2>2 DEF ExecuteFaults
    <2> QED BY <1>10, <2>1, <2>2
  <1>11. ASSUME NEW block \in Blocks, UploadRefused(block) \/ UploadPastEnd(block)
         PROVE  TypeInv'
    <2>1. CASE UploadRefused(block)
      BY <2>1 DEF UploadRefused
    <2>2. CASE UploadPastEnd(block)
      BY <2>2 DEF UploadPastEnd
    <2> QED BY <1>11, <2>1, <2>2
  <1>12. ASSUME NEW block \in Blocks, NEW len \in ReadLengths, UploadServed(block, len)
         PROVE  TypeInv'
    <2>1. BlockAddress(block) \in Addr
      BY BlockAddressType, InputAssumption
    <2>2. ReadLen(BlockAddress(block), len) \in Nat
      <3>1. /\ BlockAddress(block) \in Int
            /\ BlockAddress(block) <= APP_FLASH_END
            /\ len \in Nat
        BY <1>12, <2>1, InputAssumption DEF UploadServed, Readable, Addr
      <3> QED BY ONLY <3>1, GeometryAssumption DEF ReadLen
    <2>3. ep0_tx' \in [kind : {"nak", "stall", "zlp", "data"}, from : Addr, len : Nat]
      BY <1>12, <2>1, <2>2 DEF UploadServed, ep0_send
    <2> QED BY <1>12, <2>3 DEF UploadServed
  <1>13. CASE handle_dfu_clrstatus
    BY <1>13 DEF handle_dfu_clrstatus
  <1>14. CASE handle_dfu_abort
    BY <1>14, RegionIsAddressable DEF handle_dfu_abort
  <1>15. ASSUME NEW len \in Lengths, OtherRequest(len)
         PROVE  TypeInv'
    BY <1>15, InputAssumption DEF OtherRequest
  <1>16. CASE usb_reset \/ Restart
    <2>1. /\ dfu_buffer' = <<>>
          /\ dfu_state' = "IDLE" /\ dfu_status' = "OK"
          /\ dfuse_cmd' = NoCommand /\ ep0_tx' = Reply("nak") /\ ctl' = NoTransfer
          /\ flash' = flash /\ hung' \in BOOLEAN
          /\ dfu_address' \in Addr
          /\ dfuse_address_ptr' \in Addr
      BY <1>16, RegionIsAddressable DEF usb_reset, Restart, ResetContext
    <2>2. block_num' \in Nat /\ xfer_len' \in 0 .. DFU_XFER_SIZE
      BY <1>16, SizeAssumption DEF usb_reset, Restart
    <2> QED BY <2>1, <2>2, EmptyBuffer
  <1>17. CASE UNCHANGED vars
    BY <1>17 DEF vars, busVars
  <1> QED
    BY <1>1, <1>2, <1>3, <1>4, <1>5, <1>6, <1>7, <1>8, <1>9, <1>10, <1>11, <1>12,
       <1>13, <1>14, <1>15, <1>16, <1>17
    DEF Next, handle_dfu_dnload, handle_dfu_getstatus, handle_dfu_upload

(* Every variable keeps its type: in particular the receive buffer never    *)
(* exceeds DFU_XFER_SIZE, whatever lengths the host announces and sends.    *)
THEOREM TypeCorrect == Spec => []TypeOK
  <1>1. Init => TypeInv
    BY InitType
  <1>2. TypeInv /\ [Next]_vars => TypeInv'
    BY StepType
  <1>3. TypeInv => TypeOK
    BY DEF TypeInv
  <1> QED BY <1>1, <1>2, <1>3, PTL DEF Spec
-----------------------------------------------------------------------------
(* What a step can do to flash.                                             *)

LEMMA FlashSteps ==
    [Next]_vars => UNCHANGED flash \/ ExecuteErase \/ ExecuteProgram
  <1> SUFFICES ASSUME [Next]_vars
               PROVE  UNCHANGED flash \/ ExecuteErase \/ ExecuteProgram
    OBVIOUS
  <1>1. CASE DnloadEnd
    BY <1>1 DEF DnloadEnd
  <1>2. ASSUME NEW block \in Blocks, NEW len \in Lengths, DnloadOversize(len)
       PROVE  UNCHANGED flash
    BY <1>2 DEF DnloadOversize
  <1>3. ASSUME NEW block \in Blocks, NEW len \in Lengths, DnloadRefused(block, len)
       PROVE  UNCHANGED flash
    BY <1>3 DEF DnloadRefused
  <1>4. ASSUME NEW block \in Blocks, NEW len \in Lengths, DnloadAccepted(block, len)
       PROVE  UNCHANGED flash
    BY <1>4 DEF DnloadAccepted
  <1>5. ASSUME NEW packet \in Commands \cup Payloads, OutPacket(packet)
       PROVE  UNCHANGED flash
    BY <1>5 DEF OutPacket
  <1>6. CASE GetStatusSync
    BY <1>6 DEF GetStatusSync
  <1>7. CASE ExecuteSetAddress
    BY <1>7 DEF ExecuteSetAddress
  <1>8. CASE ExecuteErase
    BY <1>8
  <1>9. CASE ExecuteUnknown
    BY <1>9 DEF ExecuteUnknown
  <1>10. CASE ExecuteProgram
    BY <1>10
  <1>11. CASE ExecuteNothing
    BY <1>11 DEF ExecuteNothing
  <1>12. CASE ExecuteFaults
    BY <1>12 DEF ExecuteFaults
  <1>13. CASE GetStatusManifest
    BY <1>13 DEF GetStatusManifest
  <1>14. CASE GetStatusReport
    BY <1>14 DEF GetStatusReport
  <1>15. ASSUME NEW block \in Blocks, UploadRefused(block)
        PROVE  UNCHANGED flash
    BY <1>15 DEF UploadRefused
  <1>16. ASSUME NEW block \in Blocks, UploadPastEnd(block)
        PROVE  UNCHANGED flash
    BY <1>16 DEF UploadPastEnd
  <1>17. ASSUME NEW block \in Blocks, NEW len \in ReadLengths, UploadServed(block, len)
        PROVE  UNCHANGED flash
    BY <1>17 DEF UploadServed
  <1>18. CASE handle_dfu_clrstatus
    BY <1>18 DEF handle_dfu_clrstatus
  <1>19. CASE handle_dfu_abort
    BY <1>19 DEF handle_dfu_abort
  <1>20. ASSUME NEW len \in Lengths, OtherRequest(len)
        PROVE  UNCHANGED flash
    BY <1>20 DEF OtherRequest
  <1>21. CASE usb_reset
    BY <1>21 DEF usb_reset, ResetContext
  <1>22. CASE Restart
    BY <1>22 DEF Restart, ResetContext
  <1>23. CASE UNCHANGED vars
    BY <1>23 DEF vars, busVars
  <1> QED
    BY <1>1, <1>2, <1>3, <1>4, <1>5, <1>6, <1>7, <1>8, <1>9, <1>10, <1>11, <1>12,
       <1>13, <1>14, <1>15, <1>16, <1>17, <1>18, <1>19, <1>20, <1>21, <1>22, <1>23
    DEF Next, handle_dfu_dnload, handle_dfu_getstatus, handle_dfu_upload

(* Whatever the host does, flash changes only by erasing whole pages of the *)
(* application region and programming erased bytes of it: UsbDfu implements *)
(* FlashContract.                                                           *)
THEOREM ContractRefined == Spec => FlashContractKept
  <1>1. Init => Contract!Init
    BY InputAssumption DEF Init, Contract!Init, Contract!FlashAddr, Flash, FlashAddr, Byte
  <1>2. TypeInv /\ [Next]_vars => [Contract!Next]_flash
    <2> SUFFICES ASSUME TypeInv, [Next]_vars
                 PROVE  Contract!Next \/ UNCHANGED flash
      OBVIOUS
    <2>1. CASE ExecuteErase
      <3>1. CASE UNCHANGED flash
        BY <3>1
      <3>2. ASSUME NEW ret, flash_erase_page(dfuse_cmd.arg, ret), dfuse_cmd.arg # NoArg
            PROVE  Contract!Next \/ UNCHANGED flash
        <4>1. dfuse_cmd.arg \in Int
          BY <3>2 DEF TypeInv, TypeOK, Addr
        <4> QED BY <3>2, <4>1, EraseKeepsContract DEF Contract!Next
      <3> QED BY <2>1, <3>1, <3>2 DEF ExecuteErase
    <2>2. CASE ExecuteProgram
      <3>1. PICK ret \in {-1, 0} : flash_write(dfu_address, dfu_buffer, ret)
        BY <2>2 DEF ExecuteProgram
      <3>2. dfu_address \in Int /\ dfu_buffer \in Seq(Byte) /\ flash \in Flash
        BY DEF TypeInv, TypeOK, Addr
      <3> QED BY <3>1, <3>2, WriteKeepsContract DEF Contract!Next
    <2> QED BY <2>1, <2>2, FlashSteps
  <1>3. Spec => []TypeInv
    BY InitType, StepType, PTL DEF Spec
  <1> QED BY <1>1, <1>2, <1>3, PTL DEF Spec, FlashContractKept, Contract!Spec

(* What an operation reported as done has left in flash.                    *)
LEMMA DoneMeansDone ==
    ASSUME TypeInv, ExecuteErase \/ ExecuteProgram, dfu_state' # "ERROR"
    PROVE  \/ UNCHANGED flash
           \/ dfuse_cmd.op = DFUSE_CMD_ERASE_PAGE
              /\ \A b \in Page(dfuse_cmd.arg) : flash'[b] = Erased
           \/ dfuse_cmd.op = 0
              /\ \A i \in 1 .. Len(dfu_buffer) :
                    flash'[dfu_address + i - 1] = dfu_buffer[i]
  <1>1. CASE ExecuteErase
    <2>1. /\ dfuse_cmd.op = DFUSE_CMD_ERASE_PAGE
          /\ dfuse_cmd.arg # NoArg
          /\ flash_erase_page(dfuse_cmd.arg, 0)
      BY <1>1 DEF ExecuteErase, Fail
    <2>2. dfuse_cmd.arg \in Int
      BY <2>1 DEF TypeInv, TypeOK, Addr
    <2> QED BY <2>1, <2>2, EraseCompletes
  <1>2. CASE ExecuteProgram
    <2>1. dfuse_cmd.op = 0 /\ dfu_buffer # <<>> /\ flash_write(dfu_address, dfu_buffer, 0)
      BY <1>2 DEF ExecuteProgram, Fail
    <2>2. dfu_address \in Int /\ dfu_buffer \in Seq(Byte) /\ Len(dfu_buffer) \in Nat \ {0}
      BY <2>1 DEF TypeInv, TypeOK, Addr
    <2> QED BY <2>1, <2>2, WriteCompletes
  <1> QED BY <1>1, <1>2

(* Nothing is ever reported erased or programmed unless all of it is, for   *)
(* every geometry and wherever the controller fails.                        *)
THEOREM DoneIsComplete == Spec => CompleteOrError
  <1>1. TypeInv /\ [Next]_vars =>
          [flash' # flash /\ dfu_state' # "ERROR" =>
              \/ dfuse_cmd.op = DFUSE_CMD_ERASE_PAGE
                 /\ \A b \in Page(dfuse_cmd.arg) : flash'[b] = Erased
              \/ dfuse_cmd.op = 0
                 /\ \A i \in 1 .. Len(dfu_buffer) :
                       flash'[dfu_address + i - 1] = dfu_buffer[i]]_vars
    BY FlashSteps, DoneMeansDone
  <1>2. Spec => []TypeInv
    BY InitType, StepType, PTL DEF Spec
  <1> QED BY <1>1, <1>2, PTL DEF Spec, CompleteOrError

-----------------------------------------------------------------------------
(* The status a host is told agrees with the state it is told.              *)

LEMMA StatusStep == StatusIffError /\ [Next]_vars => StatusIffError'
  <1> SUFFICES ASSUME StatusIffError, [Next]_vars PROVE StatusIffError'
    OBVIOUS
  <1> USE DEF StatusIffError, dfuVars, Enter, Fail
  <1>1. CASE DnloadEnd
    BY <1>1 DEF DnloadEnd
  <1>2. ASSUME NEW block \in Blocks, NEW len \in Lengths, DnloadOversize(len)
       PROVE  StatusIffError'
    BY <1>2 DEF DnloadOversize
  <1>3. ASSUME NEW block \in Blocks, NEW len \in Lengths, DnloadRefused(block, len)
       PROVE  StatusIffError'
    BY <1>3 DEF DnloadRefused
  <1>4. ASSUME NEW block \in Blocks, NEW len \in Lengths, DnloadAccepted(block, len)
       PROVE  StatusIffError'
    BY <1>4 DEF DnloadAccepted, ReadyForDnload
  <1>5. ASSUME NEW packet \in Commands \cup Payloads, OutPacket(packet)
       PROVE  StatusIffError'
    BY <1>5 DEF OutPacket
  <1>6. CASE GetStatusSync
    BY <1>6 DEF GetStatusSync
  <1>7. CASE ExecuteSetAddress
    BY <1>7 DEF ExecuteSetAddress
  <1>8. CASE ExecuteErase
    BY <1>8 DEF ExecuteErase
  <1>9. CASE ExecuteUnknown
    BY <1>9 DEF ExecuteUnknown
  <1>10. CASE ExecuteProgram
    BY <1>10 DEF ExecuteProgram
  <1>11. CASE ExecuteNothing
    BY <1>11 DEF ExecuteNothing
  <1>12. CASE ExecuteFaults
    BY <1>12 DEF ExecuteFaults
  <1>13. CASE GetStatusManifest
    BY <1>13 DEF GetStatusManifest
  <1>14. CASE GetStatusReport
    BY <1>14 DEF GetStatusReport
  <1>15. ASSUME NEW block \in Blocks, UploadRefused(block)
        PROVE  StatusIffError'
    BY <1>15 DEF UploadRefused
  <1>16. ASSUME NEW block \in Blocks, UploadPastEnd(block)
        PROVE  StatusIffError'
    BY <1>16 DEF UploadPastEnd
  <1>17. ASSUME NEW block \in Blocks, NEW len \in ReadLengths, UploadServed(block, len)
        PROVE  StatusIffError'
    BY <1>17 DEF UploadServed
  <1>18. CASE handle_dfu_clrstatus
    BY <1>18 DEF handle_dfu_clrstatus
  <1>19. CASE handle_dfu_abort
    BY <1>19 DEF handle_dfu_abort
  <1>20. ASSUME NEW len \in Lengths, OtherRequest(len)
        PROVE  StatusIffError'
    BY <1>20 DEF OtherRequest
  <1>21. CASE usb_reset
    BY <1>21 DEF usb_reset, ResetContext
  <1>22. CASE Restart
    BY <1>22 DEF Restart, ResetContext
  <1>23. CASE UNCHANGED vars
    BY <1>23 DEF vars, busVars
  <1> QED
    BY <1>1, <1>2, <1>3, <1>4, <1>5, <1>6, <1>7, <1>8, <1>9, <1>10, <1>11, <1>12,
       <1>13, <1>14, <1>15, <1>16, <1>17, <1>18, <1>19, <1>20, <1>21, <1>22, <1>23
    DEF Next, handle_dfu_dnload, handle_dfu_getstatus, handle_dfu_upload

(* An error status is reported exactly in dfuERROR.                         *)
THEOREM StatusAlwaysIffError == Spec => []StatusIffError
  <1>1. Init => StatusIffError
    BY DEF Init, StatusIffError
  <1> QED BY <1>1, StatusStep, PTL DEF Spec

-----------------------------------------------------------------------------
(* No command outlives the step that reports it done.                       *)

LEMMA OwedStep == NothingOwedAtManifest /\ [Next]_vars => NothingOwedAtManifest'
  <1> SUFFICES ASSUME NothingOwedAtManifest, [Next]_vars PROVE NothingOwedAtManifest'
    OBVIOUS
  <1> USE DEF NothingOwedAtManifest, dfuVars, cmdVars, Enter, Fail, NoCommand
  <1>1. CASE DnloadEnd
    BY <1>1 DEF DnloadEnd
  <1>2. ASSUME NEW block \in Blocks, NEW len \in Lengths, DnloadOversize(len)
       PROVE  NothingOwedAtManifest'
    BY <1>2 DEF DnloadOversize
  <1>3. ASSUME NEW block \in Blocks, NEW len \in Lengths, DnloadRefused(block, len)
       PROVE  NothingOwedAtManifest'
    BY <1>3 DEF DnloadRefused
  <1>4. ASSUME NEW block \in Blocks, NEW len \in Lengths, DnloadAccepted(block, len)
       PROVE  NothingOwedAtManifest'
    BY <1>4 DEF DnloadAccepted
  <1>5. ASSUME NEW packet \in Commands \cup Payloads, OutPacket(packet)
       PROVE  NothingOwedAtManifest'
    BY <1>5 DEF OutPacket, handle_ep0_out
  <1>6. CASE GetStatusSync
    BY <1>6 DEF GetStatusSync
  <1>7. CASE ExecuteSetAddress
    BY <1>7 DEF ExecuteSetAddress
  <1>8. CASE ExecuteErase
    BY <1>8 DEF ExecuteErase
  <1>9. CASE ExecuteUnknown
    BY <1>9 DEF ExecuteUnknown
  <1>10. CASE ExecuteProgram
    BY <1>10 DEF ExecuteProgram
  <1>11. CASE ExecuteNothing
    BY <1>11 DEF ExecuteNothing
  <1>12. CASE ExecuteFaults
    BY <1>12 DEF ExecuteFaults
  <1>13. CASE GetStatusManifest
    BY <1>13 DEF GetStatusManifest
  <1>14. CASE GetStatusReport
    BY <1>14 DEF GetStatusReport
  <1>15. ASSUME NEW block \in Blocks, UploadRefused(block)
        PROVE  NothingOwedAtManifest'
    BY <1>15 DEF UploadRefused
  <1>16. ASSUME NEW block \in Blocks, UploadPastEnd(block)
        PROVE  NothingOwedAtManifest'
    BY <1>16 DEF UploadPastEnd
  <1>17. ASSUME NEW block \in Blocks, NEW len \in ReadLengths, UploadServed(block, len)
        PROVE  NothingOwedAtManifest'
    BY <1>17 DEF UploadServed
  <1>18. CASE handle_dfu_clrstatus
    BY <1>18 DEF handle_dfu_clrstatus
  <1>19. CASE handle_dfu_abort
    BY <1>19 DEF handle_dfu_abort
  <1>20. ASSUME NEW len \in Lengths, OtherRequest(len)
        PROVE  NothingOwedAtManifest'
    BY <1>20 DEF OtherRequest
  <1>21. CASE usb_reset
    BY <1>21 DEF usb_reset, ResetContext
  <1>22. CASE Restart
    BY <1>22 DEF Restart, ResetContext
  <1>23. CASE UNCHANGED vars
    BY <1>23 DEF vars, busVars
  <1> QED
    BY <1>1, <1>2, <1>3, <1>4, <1>5, <1>6, <1>7, <1>8, <1>9, <1>10, <1>11, <1>12,
       <1>13, <1>14, <1>15, <1>16, <1>17, <1>18, <1>19, <1>20, <1>21, <1>22, <1>23
    DEF Next, handle_dfu_dnload, handle_dfu_getstatus, handle_dfu_upload

(* A download step reported done, and manifestation, leave no DfuSe command *)
(* to run later.                                                            *)
THEOREM NothingEverOwed == Spec => []NothingOwedAtManifest
  <1>1. Init => NothingOwedAtManifest
    BY DEF Init, NothingOwedAtManifest
  <1> QED BY <1>1, OwedStep, PTL DEF Spec

-----------------------------------------------------------------------------
(* Where a data block goes.  dfu.address is computed when the block is      *)
(* accepted and used two GETSTATUS later; until then nothing moves it or    *)
(* the pointer it was computed from.                                        *)

Numbered ==
    dfu_state \in {"DNLOAD_SYNC", "DNBUSY"} /\ block_num >= 2 =>
        block_num \in Blocks /\ dfu_address = BlockAddress(block_num)

LEMMA NumberedStep == Numbered /\ [Next]_vars => Numbered'
  <1> SUFFICES ASSUME Numbered, [Next]_vars PROVE Numbered'
    OBVIOUS
  <1> USE DEF Numbered, BlockAddress, dfuVars, cmdVars, Enter, Fail
  <1>1. CASE DnloadEnd
    BY <1>1 DEF DnloadEnd
  <1>2. ASSUME NEW block \in Blocks, NEW len \in Lengths, DnloadOversize(len)
       PROVE  Numbered'
    BY <1>2 DEF DnloadOversize
  <1>3. ASSUME NEW block \in Blocks, NEW len \in Lengths, DnloadRefused(block, len)
       PROVE  Numbered'
    BY <1>3 DEF DnloadRefused
  <1>4. ASSUME NEW block \in Blocks, NEW len \in Lengths, DnloadAccepted(block, len)
       PROVE  Numbered'
    BY <1>4 DEF DnloadAccepted, DownloadAddress
  <1>5. ASSUME NEW packet \in Commands \cup Payloads, OutPacket(packet)
       PROVE  Numbered'
    BY <1>5 DEF OutPacket
  <1>6. CASE GetStatusSync
    BY <1>6 DEF GetStatusSync
  <1>7. CASE ExecuteSetAddress
    BY <1>7 DEF ExecuteSetAddress
  <1>8. CASE ExecuteErase
    BY <1>8 DEF ExecuteErase
  <1>9. CASE ExecuteUnknown
    BY <1>9 DEF ExecuteUnknown
  <1>10. CASE ExecuteProgram
    BY <1>10 DEF ExecuteProgram
  <1>11. CASE ExecuteNothing
    BY <1>11 DEF ExecuteNothing
  <1>12. CASE ExecuteFaults
    BY <1>12 DEF ExecuteFaults
  <1>13. CASE GetStatusManifest
    BY <1>13 DEF GetStatusManifest
  <1>14. CASE GetStatusReport
    BY <1>14 DEF GetStatusReport
  <1>15. ASSUME NEW block \in Blocks, UploadRefused(block)
        PROVE  Numbered'
    BY <1>15 DEF UploadRefused
  <1>16. ASSUME NEW block \in Blocks, UploadPastEnd(block)
        PROVE  Numbered'
    BY <1>16 DEF UploadPastEnd
  <1>17. ASSUME NEW block \in Blocks, NEW len \in ReadLengths, UploadServed(block, len)
        PROVE  Numbered'
    BY <1>17 DEF UploadServed
  <1>18. CASE handle_dfu_clrstatus
    BY <1>18 DEF handle_dfu_clrstatus
  <1>19. CASE handle_dfu_abort
    BY <1>19 DEF handle_dfu_abort
  <1>20. ASSUME NEW len \in Lengths, OtherRequest(len)
        PROVE  Numbered'
    BY <1>20 DEF OtherRequest
  <1>21. CASE usb_reset
    BY <1>21 DEF usb_reset, ResetContext
  <1>22. CASE Restart
    BY <1>22 DEF Restart, ResetContext
  <1>23. CASE UNCHANGED vars
    BY <1>23 DEF vars, busVars
  <1> QED
    BY <1>1, <1>2, <1>3, <1>4, <1>5, <1>6, <1>7, <1>8, <1>9, <1>10, <1>11, <1>12,
       <1>13, <1>14, <1>15, <1>16, <1>17, <1>18, <1>19, <1>20, <1>21, <1>22, <1>23
    DEF Next, handle_dfu_dnload, handle_dfu_getstatus, handle_dfu_upload

(* A block address that is valid did not wrap: it is the distance itself.   *)
LEMMA ValidDidNotWrap ==
    ASSUME SlotAssumption, dfuse_address_ptr \in Addr,
           NEW block \in Blocks, block >= 2,
           flash_is_address_valid(BlockAddress(block))
    PROVE  BlockAddress(block) = dfuse_address_ptr + (block - 2) * DFU_XFER_SIZE
  <1> DEFINE offset == (block - 2) * DFU_XFER_SIZE
  <1>1. offset \in Nat /\ offset <= APP_FLASH_START
    <2>1. block \in Nat /\ DFU_XFER_SIZE \in Nat
      BY InputAssumption, SizeAssumption
    <2>2. \A m, n \in Nat : m * n \in Nat
      OBVIOUS
    <2>3. block - 2 \in Nat
      BY <2>1
    <2>4. offset \in Nat
      BY <2>1, <2>2, <2>3
    <2> QED BY <2>4 DEF SlotAssumption
  <1>2. BlockAddress(block) = (dfuse_address_ptr + offset) % AddrLimit
    BY DEF BlockAddress, U32
  <1>3. /\ AddrLimit \in Nat /\ APP_FLASH_START \in Nat
        /\ APP_FLASH_START < AddrLimit /\ AddrLimit > 0
        /\ dfuse_address_ptr \in 0 .. AddrLimit - 1
    BY SizeAssumption, GeometryAssumption DEF Addr
  <1>4. BlockAddress(block) >= APP_FLASH_START
    BY DEF flash_is_address_valid
  <1> HIDE DEF offset
  <1>5. (dfuse_address_ptr + offset) % AddrLimit = dfuse_address_ptr + offset
    <2>1. \A sum, limit, first \in Nat :
             /\ limit > 0 /\ first < limit
             /\ sum < limit + first
             /\ sum % limit >= first
             => sum % limit = sum
      <3>1. ASSUME NEW sum \in Nat, NEW limit \in Nat, NEW first \in Nat,
                   limit > 0, first < limit, sum < limit + first, sum >= limit
            PROVE  sum % limit < first
        <4>1. sum - limit \in 0 .. limit - 1 /\ sum = 1 * limit + (sum - limit)
          BY <3>1
        <4>2. sum % limit = sum - limit
          BY <3>1, <4>1
        <4> QED BY <3>1, <4>2
      <3>2. ASSUME NEW sum \in Nat, NEW limit \in Nat, limit > 0, sum < limit
            PROVE  sum % limit = sum
        BY <3>2
      <3> QED BY <3>1, <3>2
    <2>2. dfuse_address_ptr + offset \in Nat
          /\ dfuse_address_ptr + offset < AddrLimit + APP_FLASH_START
      BY <1>1, <1>3
    <2> QED BY <1>2, <1>3, <1>4, <2>1, <2>2
  <1> QED BY <1>2, <1>5 DEF offset

LEMMA ProgramStaysInSlot ==
    ASSUME SlotAssumption, TypeInv, Numbered, ExecuteProgram, block_num >= 2,
           NEW b \in FlashAddr, flash'[b] # flash[b]
    PROVE  b \in Slot(block_num)
  <1> DEFINE first == dfuse_address_ptr + (block_num - 2) * DFU_XFER_SIZE
  <1>1. /\ block_num \in Blocks
        /\ dfu_address = BlockAddress(block_num)
    BY DEF ExecuteProgram, Numbered
  <1>2. /\ dfuse_address_ptr \in Addr /\ dfu_address \in Int
        /\ dfu_buffer \in Seq(Byte) /\ Len(dfu_buffer) <= DFU_XFER_SIZE
    BY DEF TypeInv, TypeOK, Addr
  <1>3. PICK ret \in {-1, 0} : flash_write(dfu_address, dfu_buffer, ret)
    BY DEF ExecuteProgram
  <1>4. flash_is_address_valid(dfu_address)
    BY <1>3 DEF flash_write, RangeValid
  <1>5. dfu_address = first
    BY <1>1, <1>2, <1>4, ValidDidNotWrap
  <1>6. b >= dfu_address /\ b < dfu_address + 2 * HalfWords(Len(dfu_buffer))
    <2>1. b \in Int
      BY GeometryAssumption DEF FlashAddr
    <2>2. Len(dfu_buffer) \in Nat /\ HalfWords(Len(dfu_buffer)) \in Int
      BY <1>2 DEF HalfWords
    <2> QED BY <1>2, <1>3, <2>1, <2>2, WriteTouchesRange
  <1>7. 2 * HalfWords(Len(dfu_buffer)) <= DFU_XFER_SIZE
    <2>1. \A n, size \in Nat : n <= size /\ size % 2 = 0 => 2 * ((n + 1) \div 2) <= size
      OBVIOUS
    <2> QED BY <1>2, <2>1, SizeAssumption DEF SlotAssumption, HalfWords
  <1>8. /\ b \in Int /\ HalfWords(Len(dfu_buffer)) \in Int /\ DFU_XFER_SIZE \in Int
    BY <1>2, GeometryAssumption, SizeAssumption DEF FlashAddr, HalfWords
  <1>9. first \in Int
    BY <1>2, <1>5
  <1> HIDE DEF first
  <1>10. b \in first .. (first + DFU_XFER_SIZE - 1)
    BY <1>2, <1>5, <1>6, <1>7, <1>8, <1>9
  <1> QED BY <1>10 DEF Slot, first

(* Programming a data block changes flash only in the block's own slot,     *)
(* counted in exact distances from the pointer, for every pointer, block    *)
(* number and sequence of requests.                                         *)
THEOREM BlocksStayInSlots ==
    ASSUME SlotAssumption
    PROVE  Spec => BlockInItsSlot
  <1>1. Init => Numbered
    BY DEF Init, Numbered
  <1>2. TypeInv /\ Numbered /\ [Next]_vars =>
          [dfu_state = "DNBUSY" /\ dfuse_cmd.op = 0 /\ block_num >= 2 =>
              \A b \in FlashAddr : flash'[b] # flash[b] => b \in Slot(block_num)]_vars
    <2> SUFFICES ASSUME TypeInv, Numbered, [Next]_vars,
                        dfu_state = "DNBUSY", dfuse_cmd.op = 0, block_num >= 2,
                        NEW b \in FlashAddr, flash'[b] # flash[b]
                 PROVE  b \in Slot(block_num)
      OBVIOUS
    <2>1. ~ExecuteErase
      BY CommandAssumption DEF ExecuteErase
    <2>2. ExecuteProgram
      BY <2>1, FlashSteps
    <2> QED BY <2>2, ProgramStaysInSlot
  <1>3. Spec => []TypeInv
    BY InitType, StepType, PTL DEF Spec
  <1> QED BY <1>1, <1>2, <1>3, NumberedStep, PTL DEF Spec, BlockInItsSlot

-----------------------------------------------------------------------------
(* The data stage of an accepted download.                                  *)

LEMMA DataStageStep ==
    TypeInv /\ DataStageAnswered /\ [Next]_vars => DataStageAnswered'
  <1> SUFFICES ASSUME TypeInv, DataStageAnswered, [Next]_vars PROVE DataStageAnswered'
    OBVIOUS
  <1> USE DEF DataStageAnswered, dfuVars, handle_setup, GetStatus, NoTransfer
  <1>1. CASE DnloadEnd
    BY <1>1 DEF DnloadEnd
  <1>2. ASSUME NEW block \in Blocks, NEW len \in Lengths, DnloadOversize(len)
       PROVE  DataStageAnswered'
    BY <1>2 DEF DnloadOversize
  <1>3. ASSUME NEW block \in Blocks, NEW len \in Lengths, DnloadRefused(block, len)
       PROVE  DataStageAnswered'
    BY <1>3 DEF DnloadRefused
  <1>4. ASSUME NEW block \in Blocks, NEW len \in Lengths, DnloadAccepted(block, len)
       PROVE  DataStageAnswered'
    <2>1. /\ ctl' = [left |-> len, accepted |-> TRUE] /\ len > 0
          /\ dfu_buffer' = <<>> /\ xfer_len' = len
          /\ dfu_state' = "DNLOAD_SYNC"
      BY <1>4, InputAssumption DEF DnloadAccepted, Enter
    <2> QED BY <2>1, EmptyBuffer, InputAssumption
  <1>5. ASSUME NEW packet \in Commands \cup Payloads, OutPacket(packet)
       PROVE  DataStageAnswered'
    <2> DEFINE bytes == SubSeq(packet, 1, PacketSize)
    <2> SUFFICES ASSUME ctl.accepted
                 PROVE  DataStageAnswered'
      BY <1>5 DEF OutPacket, TypeInv, TypeOK
    <2>1. ctl.left > 0 /\ handle_ep0_out(bytes)
      BY <1>5 DEF OutPacket
    <2>2. /\ bytes \in Seq(Byte)
          /\ Len(bytes) = PacketSize
          /\ PacketSize \in 1 .. ctl.left
      BY <2>1, PacketType DEF TypeInv
    <2>3. /\ ctl'.left = ctl.left - PacketSize
          /\ ctl'.accepted
          /\ dfu_state' = dfu_state
          /\ xfer_len' = xfer_len
      BY <1>5 DEF OutPacket, TypeInv, TypeOK
    <2>4. /\ dfu_state = "DNLOAD_SYNC"
          /\ Len(dfu_buffer) + ctl.left = xfer_len
          /\ Len(dfu_buffer) \in Nat /\ ctl.left \in Nat
          /\ xfer_len \in 0 .. DFU_XFER_SIZE
      BY <2>1 DEF TypeInv, TypeOK
    <2>5. Len(Received(bytes)) = Len(dfu_buffer) + PacketSize
      <3>1. Len(dfu_buffer) + Len(bytes) <= DFU_XFER_SIZE
        <4>1. DFU_XFER_SIZE \in Nat
          BY SizeAssumption
        <4> HIDE DEF bytes
        <4> QED BY <2>2, <2>4, <4>1
      <3>2. TypeOK
        BY DEF TypeInv
      <3> HIDE DEF bytes
      <3> QED BY <2>2, <3>1, <3>2, ReceivedType
    <2>6. CASE ctl'.left > 0
      <3>1. Len(Received(bytes)) < xfer_len
        BY <2>2, <2>3, <2>4, <2>5, <2>6
      <3>2. dfu_buffer' = Received(bytes)
        BY <2>1, <2>2, <2>4, <2>5, <3>1 DEF handle_ep0_out
      <3> QED BY <2>2, <2>3, <2>4, <2>5, <2>6, <3>2
    <2>7. CASE ~(ctl'.left > 0)
      <3>1. ~(Len(Received(bytes)) < xfer_len)
        BY <2>2, <2>3, <2>4, <2>5, <2>7
      <3>2. ep0_tx' = Reply("zlp")
        BY <2>1, <2>4, <3>1 DEF handle_ep0_out, ep0_send_zlp
      <3> QED BY <2>7, <3>2 DEF Reply
    <2> QED BY <2>6, <2>7
  <1>6. CASE GetStatusSync
    BY <1>6 DEF GetStatusSync
  <1>7. CASE ExecuteSetAddress
    BY <1>7 DEF ExecuteSetAddress
  <1>8. CASE ExecuteErase
    BY <1>8 DEF ExecuteErase
  <1>9. CASE ExecuteUnknown
    BY <1>9 DEF ExecuteUnknown
  <1>10. CASE ExecuteProgram
    BY <1>10 DEF ExecuteProgram
  <1>11. CASE ExecuteNothing
    BY <1>11 DEF ExecuteNothing
  <1>12. CASE ExecuteFaults
    BY <1>12 DEF ExecuteFaults
  <1>13. CASE GetStatusManifest
    BY <1>13 DEF GetStatusManifest
  <1>14. CASE GetStatusReport
    BY <1>14 DEF GetStatusReport
  <1>15. ASSUME NEW block \in Blocks, UploadRefused(block)
        PROVE  DataStageAnswered'
    BY <1>15 DEF UploadRefused
  <1>16. ASSUME NEW block \in Blocks, UploadPastEnd(block)
        PROVE  DataStageAnswered'
    BY <1>16 DEF UploadPastEnd
  <1>17. ASSUME NEW block \in Blocks, NEW len \in ReadLengths, UploadServed(block, len)
        PROVE  DataStageAnswered'
    BY <1>17 DEF UploadServed
  <1>18. CASE handle_dfu_clrstatus
    BY <1>18 DEF handle_dfu_clrstatus
  <1>19. CASE handle_dfu_abort
    BY <1>19 DEF handle_dfu_abort
  <1>20. ASSUME NEW len \in Lengths, OtherRequest(len)
        PROVE  DataStageAnswered'
    BY <1>20 DEF OtherRequest
  <1>21. CASE usb_reset
    BY <1>21 DEF usb_reset, ResetContext
  <1>22. CASE Restart
    BY <1>22 DEF Restart, ResetContext
  <1>23. CASE UNCHANGED vars
    BY <1>23 DEF vars, busVars
  <1> QED
    BY <1>1, <1>2, <1>3, <1>4, <1>5, <1>6, <1>7, <1>8, <1>9, <1>10, <1>11, <1>12,
       <1>13, <1>14, <1>15, <1>16, <1>17, <1>18, <1>19, <1>20, <1>21, <1>22, <1>23
    DEF Next, handle_dfu_dnload, handle_dfu_getstatus, handle_dfu_upload

(* While an accepted download has data to come the device waits for exactly *)
(* that data, and when it has come the acknowledgement is queued: no data   *)
(* stage wedges.                                                            *)
THEOREM NoDataStageWedges == Spec => []DataStageAnswered
  <1>1. Init => DataStageAnswered
    BY DEF Init, DataStageAnswered, NoTransfer
  <1>2. Spec => []TypeInv
    BY InitType, StepType, PTL DEF Spec
  <1> QED BY <1>1, <1>2, DataStageStep, PTL DEF Spec

-----------------------------------------------------------------------------
(* Uploads.                                                                 *)

LEMMA UploadStep ==
    TypeInv /\ UploadInRegion /\ [Next]_vars => UploadInRegion'
  <1> SUFFICES ASSUME TypeInv, UploadInRegion, [Next]_vars PROVE UploadInRegion'
    OBVIOUS
  <1> USE DEF UploadInRegion, Reply, ep0_stall, ep0_send_zlp, ep0_reply, GetStatus
  <1>1. CASE DnloadEnd
    BY <1>1 DEF DnloadEnd
  <1>2. ASSUME NEW block \in Blocks, NEW len \in Lengths, DnloadOversize(len)
       PROVE  UploadInRegion'
    BY <1>2 DEF DnloadOversize
  <1>3. ASSUME NEW block \in Blocks, NEW len \in Lengths, DnloadRefused(block, len)
       PROVE  UploadInRegion'
    BY <1>3 DEF DnloadRefused
  <1>4. ASSUME NEW block \in Blocks, NEW len \in Lengths, DnloadAccepted(block, len)
       PROVE  UploadInRegion'
    BY <1>4 DEF DnloadAccepted
  <1>5. ASSUME NEW packet \in Commands \cup Payloads, OutPacket(packet)
       PROVE  UploadInRegion'
    BY <1>5 DEF OutPacket, handle_ep0_out
  <1>6. CASE GetStatusSync
    BY <1>6 DEF GetStatusSync
  <1>7. CASE ExecuteSetAddress
    BY <1>7 DEF ExecuteSetAddress
  <1>8. CASE ExecuteErase
    BY <1>8 DEF ExecuteErase
  <1>9. CASE ExecuteUnknown
    BY <1>9 DEF ExecuteUnknown
  <1>10. CASE ExecuteProgram
    BY <1>10 DEF ExecuteProgram
  <1>11. CASE ExecuteNothing
    BY <1>11 DEF ExecuteNothing
  <1>12. CASE ExecuteFaults
    BY <1>12 DEF ExecuteFaults
  <1>13. CASE GetStatusManifest
    BY <1>13 DEF GetStatusManifest
  <1>14. CASE GetStatusReport
    BY <1>14 DEF GetStatusReport
  <1>15. ASSUME NEW block \in Blocks, UploadRefused(block)
        PROVE  UploadInRegion'
    BY <1>15 DEF UploadRefused
  <1>16. ASSUME NEW block \in Blocks, UploadPastEnd(block)
        PROVE  UploadInRegion'
    BY <1>16 DEF UploadPastEnd
  <1>17. ASSUME NEW block \in Blocks, NEW len \in ReadLengths, UploadServed(block, len)
        PROVE  UploadInRegion'
    <2> DEFINE addr == BlockAddress(block)
    <2>1. addr \in Int /\ len \in Nat
      BY BlockAddressType, InputAssumption DEF TypeInv, TypeOK, Addr
    <2>2. addr >= APP_FLASH_START /\ addr <= APP_FLASH_END
      BY <1>17 DEF UploadServed, Readable
    <2>3. ep0_tx' = [kind |-> "data", from |-> addr, len |-> ReadLen(addr, len)]
      BY <1>17 DEF UploadServed, ep0_send
    <2>4. ReadLen(addr, len) \in Nat /\ addr + ReadLen(addr, len) - 1 <= APP_FLASH_END
      <3> HIDE DEF addr
      <3> QED BY <2>1, <2>2, GeometryAssumption DEF ReadLen
    <2> HIDE DEF addr
    <2>5. ASSUME NEW i \in 0 .. ReadLen(addr, len) - 1
          PROVE  addr + i \in AppAddr
      BY <2>1, <2>2, <2>4, GeometryAssumption DEF AppAddr
    <2> QED BY <2>3, <2>5
  <1>18. CASE handle_dfu_clrstatus
    BY <1>18 DEF handle_dfu_clrstatus
  <1>19. CASE handle_dfu_abort
    BY <1>19 DEF handle_dfu_abort
  <1>20. ASSUME NEW len \in Lengths, OtherRequest(len)
        PROVE  UploadInRegion'
    BY <1>20 DEF OtherRequest
  <1>21. CASE usb_reset
    BY <1>21 DEF usb_reset, ResetContext
  <1>22. CASE Restart
    BY <1>22 DEF Restart, ResetContext
  <1>23. CASE UNCHANGED vars
    BY <1>23 DEF vars, busVars
  <1> QED
    BY <1>1, <1>2, <1>3, <1>4, <1>5, <1>6, <1>7, <1>8, <1>9, <1>10, <1>11, <1>12,
       <1>13, <1>14, <1>15, <1>16, <1>17, <1>18, <1>19, <1>20, <1>21, <1>22, <1>23
    DEF Next, handle_dfu_dnload, handle_dfu_getstatus, handle_dfu_upload

(* An upload reads nothing outside the application region, whatever pointer *)
(* and block number the host chose.                                         *)
THEOREM UploadsStayInRegion == Spec => []UploadInRegion
  <1>1. Init => UploadInRegion
    BY DEF Init, UploadInRegion, Reply
  <1>2. Spec => []TypeInv
    BY InitType, StepType, PTL DEF Spec
  <1> QED BY <1>1, <1>2, UploadStep, PTL DEF Spec
=============================================================================
