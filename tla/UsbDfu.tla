------------------------------- MODULE UsbDfu -------------------------------
(* The DFU protocol engine of src/src/usb_dfu.c, at the granularity of one  *)
(* control-transfer event: usb_poll() hands it a SETUP packet, an OUT data  *)
(* packet or a bus reset, and the handler runs to completion before the     *)
(* next one is looked at.  The USB host is arbitrary: any request, in any   *)
(* order, abandoned at any packet.                                          *)
(*                                                                          *)
(* How a reply is cut into packets on the IN side is left out: no DFU       *)
(* state depends on it.  The poll timeout and iString fields of a           *)
(* GETSTATUS reply are left out; its status and state are dfu_status and    *)
(* dfu_state.                                                               *)
EXTENDS FlashIf

CONSTANTS
    DFU_XFER_SIZE,           \* wTransferSize, the size of dfu_buffer
    EP0_MAX_SIZE,            \* bytes in a full EP0 packet
    DFUSE_CMD_SET_ADDRESS,   \* command code (0x21)
    DFUSE_CMD_ERASE_PAGE,    \* command code (0x41)
    AddrLimit,               \* one more than the largest uint32_t
    InitialFlash,            \* what flash may hold when the bootloader starts
    Blocks,                  \* wValue of DNLOAD and UPLOAD
    Lengths,                 \* wLength of requests with an OUT data stage
    ReadLengths,             \* wLength of UPLOAD
    Commands,                \* contents of a full OUT packet while the last
                             \* accepted DNLOAD is a command (block 0)
    Payloads                 \* the same, while it is a data block

Addr == 0 .. AddrLimit - 1
U32(n) == n % AddrLimit

ASSUME SizeAssumption ==
    /\ DFU_XFER_SIZE \in Nat \ {0}
    /\ EP0_MAX_SIZE \in Nat \ {0}
    /\ AddrLimit \in Nat
    /\ FLASH_END + DFU_XFER_SIZE < AddrLimit

ASSUME CommandAssumption ==
    /\ DFUSE_CMD_SET_ADDRESS \in Byte \ {0}
    /\ DFUSE_CMD_ERASE_PAGE \in Byte \ {0}
    /\ DFUSE_CMD_SET_ADDRESS # DFUSE_CMD_ERASE_PAGE

ASSUME InputAssumption ==
    /\ InitialFlash \subseteq Flash
    /\ Blocks \subseteq Nat
    /\ Lengths \subseteq Nat
    /\ ReadLengths \subseteq Nat
    /\ Commands \subseteq [1 .. EP0_MAX_SIZE -> Byte]
    /\ Payloads \subseteq [1 .. EP0_MAX_SIZE -> Byte]

VARIABLES
    dfu_state,          \* dfu.state
    dfu_status,         \* dfu.status
    dfu_address,        \* dfu.address, where the buffer will be programmed
    block_num,          \* dfu.block_num of the accepted DNLOAD
    xfer_len,           \* dfu.xfer_len of the accepted DNLOAD
    dfu_buffer,         \* dfu_buffer; its length is dfu_buffer_len
    dfuse_cmd,          \* dfuse_cmd_pending (op), dfuse_cmd_has_arg and _arg
    dfuse_address_ptr,  \* the SET_ADDRESS pointer
    ep0_tx,             \* what EP0 answers the host's next IN with
    ctl,                \* the control transfer on the bus: OUT bytes the host
                        \* has left to send, and whether the device took on
                        \* a download data stage for them
    hung                \* the core is in Default_Handler's endless loop

dfuVars == <<dfu_state, dfu_status, dfu_address, block_num, xfer_len, dfu_buffer>>
cmdVars == <<dfuse_cmd, dfuse_address_ptr>>
busVars == <<ep0_tx, ctl>>
vars == <<dfuVars, cmdVars, busVars, hung, flash>>

States == {"IDLE", "DNLOAD_SYNC", "DNBUSY", "DNLOAD_IDLE", "MANIFEST_SYNC",
           "MANIFEST_WAIT_RESET", "UPLOAD_IDLE", "ERROR"}

Statuses == {"OK", "ERR_ADDRESS", "ERR_ERASE", "ERR_WRITE", "ERR_VENDOR",
             "ERR_UNKNOWN"}

(* dfuse_cmd.op = 0 means that no command is pending; arg = NoArg that      *)
(* dfuse_cmd_has_arg is 0.  The operand of a consumed command is dead and   *)
(* is forgotten.                                                            *)
NoArg == -1
NoCommand == [op |-> 0, arg |-> NoArg]

Reply(kind) == [kind |-> kind, from |-> 0, len |-> 0]
NoTransfer == [left |-> 0, accepted |-> FALSE]

TypeOK ==
    /\ flash \in Flash
    /\ dfu_state \in States
    /\ dfu_status \in Statuses
    /\ dfu_address \in Addr
    /\ block_num \in Nat
    /\ xfer_len \in 0 .. DFU_XFER_SIZE
    /\ dfu_buffer \in Seq(Byte)
    /\ Len(dfu_buffer) <= DFU_XFER_SIZE
    /\ dfuse_cmd \in [op : Byte, arg : Addr \cup {NoArg}]
    /\ dfuse_address_ptr \in Addr
    /\ ep0_tx \in [kind : {"nak", "stall", "zlp", "data"}, from : Addr, len : Nat]
    /\ ctl \in [left : Nat, accepted : BOOLEAN]
    /\ hung \in BOOLEAN

-----------------------------------------------------------------------------
(* dfu_init, after any reset of the core.                                   *)

Init ==
    /\ flash \in InitialFlash
    /\ dfu_state = "IDLE"
    /\ dfu_status = "OK"
    /\ dfu_address = APP_FLASH_START
    /\ block_num = 0
    /\ xfer_len = 0
    /\ dfu_buffer = <<>>
    /\ dfuse_cmd = NoCommand
    /\ dfuse_address_ptr = APP_FLASH_START
    /\ ep0_tx = Reply("nak")
    /\ ctl = NoTransfer
    /\ hung = FALSE

-----------------------------------------------------------------------------
(* Answers.  ep0_stall refuses the request on the IN side only: reception   *)
(* stays enabled, as everywhere else.                                       *)

ep0_stall == ep0_tx' = Reply("stall")
ep0_send_zlp == ep0_tx' = Reply("zlp")
ep0_send(from, len) == ep0_tx' = [kind |-> "data", from |-> from, len |-> len]
ep0_reply == ep0_tx' = Reply("data")

(* A SETUP packet ends whatever transfer was on the bus.  len is the length *)
(* of the OUT data stage the host goes on to send, 0 if there is none.      *)
handle_setup(len, accepted) ==
    /\ ~hung
    /\ ctl' = [left |-> len, accepted |-> accepted]

Enter(state) == dfu_state' = state /\ UNCHANGED dfu_status
FailSilently(status) == dfu_state' = "ERROR" /\ UNCHANGED dfu_status
Fail(status) == dfu_state' = "ERROR" /\ dfu_status' = status

-----------------------------------------------------------------------------
(* DNLOAD.  (Here and below, a definition no action uses is a variant with  *)
(* a plausible slip, as in FlashIf.)                                        *)

(* Where data block number block goes, relative to the address pointer.     *)
BlockAddressFromOne(block) == U32(dfuse_address_ptr + (block - 1) * DFU_XFER_SIZE)
BlockAddress(block) == U32(dfuse_address_ptr + (block - 2) * DFU_XFER_SIZE)

(* dfu.address after a DNLOAD of that block is accepted; block 0 leaves it. *)
DownloadAddress(block) == IF block >= 2 THEN BlockAddress(block) ELSE dfu_address

(* The states in which a download step may begin.                           *)
ReadyOnlyWhenIdle == dfu_state = "IDLE"
ReadyForDnload == dfu_state \in {"IDLE", "DNLOAD_IDLE"}

DnloadEndAnytime ==
    /\ handle_setup(0, FALSE)
    /\ Enter("MANIFEST_SYNC")
    /\ ep0_send_zlp
    /\ UNCHANGED <<dfu_address, block_num, xfer_len, dfu_buffer, cmdVars, hung, flash>>

DnloadEnd ==
    /\ handle_setup(0, FALSE)
    /\ \/ /\ dfu_state = "DNLOAD_IDLE"
          /\ Enter("MANIFEST_SYNC")
          /\ ep0_send_zlp
       \/ /\ dfu_state # "DNLOAD_IDLE"
          /\ ep0_stall
          /\ UNCHANGED <<dfu_state, dfu_status>>
    /\ UNCHANGED <<dfu_address, block_num, xfer_len, dfu_buffer, cmdVars, hung, flash>>

DnloadOversize(len) ==
    /\ len > DFU_XFER_SIZE
    /\ handle_setup(len, FALSE)
    /\ Fail("ERR_UNKNOWN")
    /\ ep0_stall
    /\ UNCHANGED <<dfu_address, block_num, xfer_len, dfu_buffer, cmdVars, hung, flash>>

DnloadRefused(block, len) ==
    /\ len \in 1 .. DFU_XFER_SIZE
    /\ block = 1 \/ ~ReadyForDnload
    /\ handle_setup(len, FALSE)
    /\ ep0_stall
    /\ UNCHANGED <<dfuVars, cmdVars, hung, flash>>

DnloadAccepted(block, len) ==
    /\ len \in 1 .. DFU_XFER_SIZE
    /\ block # 1
    /\ ReadyForDnload
    /\ handle_setup(len, TRUE)
    /\ ep0_tx' = Reply("nak")
    /\ block_num' = block
    /\ xfer_len' = len
    /\ dfu_buffer' = <<>>
    /\ dfu_address' = DownloadAddress(block)
    /\ Enter("DNLOAD_SYNC")
    /\ UNCHANGED <<cmdVars, hung, flash>>

handle_dfu_dnload(block, len) ==
    \/ len = 0 /\ DnloadEnd
    \/ DnloadOversize(len)
    \/ DnloadRefused(block, len)
    \/ DnloadAccepted(block, len)

-----------------------------------------------------------------------------
(* An OUT data packet.  The host sends full packets until the data stage    *)
(* is used up.                                                              *)

(* The DfuSe command held in a completed block-0 buffer.                    *)
DecodeCommand(buf) ==
    [op  |-> buf[1],
     arg |-> IF Len(buf) >= 5
             THEN U32(buf[2] + ByteBase * (buf[3] + ByteBase * (buf[4] + ByteBase * buf[5])))
             ELSE NoArg]

PacketSize == IF ctl.left < EP0_MAX_SIZE THEN ctl.left ELSE EP0_MAX_SIZE

ReceivedStrictly(bytes) ==
    IF Len(dfu_buffer) + Len(bytes) < DFU_XFER_SIZE
    THEN dfu_buffer \o bytes
    ELSE dfu_buffer

ReceivedUnchecked(bytes) == dfu_buffer \o bytes

(* dfu_buffer after a packet: a packet that does not fit is dropped whole.  *)
Received(bytes) ==
    IF Len(dfu_buffer) + Len(bytes) <= DFU_XFER_SIZE
    THEN dfu_buffer \o bytes
    ELSE dfu_buffer

handle_ep0_out(bytes) ==
    LET buf == Received(bytes)
    IN  \/ /\ dfu_state # "DNLOAD_SYNC"
           /\ UNCHANGED <<dfu_buffer, dfuse_cmd, ep0_tx>>
        \/ /\ dfu_state = "DNLOAD_SYNC"
           /\ Len(buf) < xfer_len
           /\ dfu_buffer' = buf
           /\ UNCHANGED <<dfuse_cmd, ep0_tx>>
        \/ /\ dfu_state = "DNLOAD_SYNC"
           /\ Len(buf) >= xfer_len
           /\ block_num = 0
           /\ dfuse_cmd' = DecodeCommand(buf)
           /\ dfu_buffer' = <<>>
           /\ ep0_send_zlp
        \/ /\ dfu_state = "DNLOAD_SYNC"
           /\ Len(buf) >= xfer_len
           /\ block_num # 0
           /\ dfu_buffer' = buf
           /\ ep0_send_zlp
           /\ UNCHANGED dfuse_cmd

OutPacket(packet) ==
    /\ ~hung
    /\ ctl.left > 0
    /\ handle_ep0_out(SubSeq(packet, 1, PacketSize))
    /\ ctl' = [ctl EXCEPT !.left = @ - PacketSize]
    /\ UNCHANGED <<dfu_state, dfu_status, dfu_address, block_num, xfer_len,
                   dfuse_address_ptr, hung, flash>>

-----------------------------------------------------------------------------
(* GETSTATUS moves the machine first and reports afterwards.  The erase or  *)
(* program it owes runs inside the handler.                                 *)

GetStatus ==
    /\ handle_setup(0, FALSE)
    /\ ep0_reply

GetStatusSync ==
    /\ GetStatus
    /\ dfu_state = "DNLOAD_SYNC"
    /\ Enter("DNBUSY")
    /\ UNCHANGED <<dfu_address, block_num, xfer_len, dfu_buffer, cmdVars, hung, flash>>

ExecuteSetAddress ==
    /\ GetStatus
    /\ dfu_state = "DNBUSY"
    /\ dfuse_cmd.op = DFUSE_CMD_SET_ADDRESS
    /\ dfuse_cmd' = NoCommand
    /\ \/ /\ dfuse_cmd.arg = NoArg
          /\ Fail("ERR_ADDRESS")
          /\ UNCHANGED dfuse_address_ptr
       \/ /\ dfuse_cmd.arg # NoArg
          /\ dfuse_address_ptr' = dfuse_cmd.arg
          /\ Enter("DNLOAD_IDLE")
    /\ UNCHANGED <<dfu_address, block_num, xfer_len, dfu_buffer, hung, flash>>

ExecuteErase ==
    /\ GetStatus
    /\ dfu_state = "DNBUSY"
    /\ dfuse_cmd.op = DFUSE_CMD_ERASE_PAGE
    /\ dfuse_cmd' = NoCommand
    /\ \/ /\ dfuse_cmd.arg = NoArg
          /\ Fail("ERR_ERASE")
          /\ UNCHANGED flash
       \/ /\ dfuse_cmd.arg # NoArg
          /\ flash_erase_page(dfuse_cmd.arg, -1)
          /\ Fail("ERR_ERASE")
       \/ /\ dfuse_cmd.arg # NoArg
          /\ flash_erase_page(dfuse_cmd.arg, 0)
          /\ Enter("DNLOAD_IDLE")
    /\ UNCHANGED <<dfu_address, block_num, xfer_len, dfu_buffer, dfuse_address_ptr, hung>>

ExecuteUnknown ==
    /\ GetStatus
    /\ dfu_state = "DNBUSY"
    /\ dfuse_cmd.op \notin {0, DFUSE_CMD_SET_ADDRESS, DFUSE_CMD_ERASE_PAGE}
    /\ dfuse_cmd' = NoCommand
    /\ Fail("ERR_VENDOR")
    /\ UNCHANGED <<dfu_address, block_num, xfer_len, dfu_buffer, dfuse_address_ptr,
                   hung, flash>>

(* No command pending: program what the buffer holds, if anything.          *)
ExecuteProgram ==
    /\ GetStatus
    /\ dfu_state = "DNBUSY"
    /\ dfuse_cmd.op = 0
    /\ dfu_buffer # <<>>
    /\ \/ /\ flash_write(dfu_address, dfu_buffer, -1)
          /\ Fail("ERR_WRITE")
          /\ UNCHANGED <<dfu_address, dfu_buffer>>
       \/ /\ flash_write(dfu_address, dfu_buffer, 0)
          /\ dfu_address' = U32(dfu_address + Len(dfu_buffer))
          /\ dfu_buffer' = <<>>
          /\ Enter("DNLOAD_IDLE")
    /\ UNCHANGED <<block_num, xfer_len, cmdVars, hung>>

ExecuteNothing ==
    /\ GetStatus
    /\ dfu_state = "DNBUSY"
    /\ dfuse_cmd.op = 0
    /\ dfu_buffer = <<>>
    /\ Enter("DNLOAD_IDLE")
    /\ UNCHANGED <<dfu_address, block_num, xfer_len, dfu_buffer, cmdVars, hung, flash>>

(* The store to an odd address faults inside the handler, before any reply. *)
ExecuteFaults ==
    /\ handle_setup(0, FALSE)
    /\ dfu_state = "DNBUSY"
    /\ dfuse_cmd.op = 0
    /\ flash_write_faults(dfu_address, dfu_buffer)
    /\ hung' = TRUE
    /\ ep0_tx' = Reply("nak")
    /\ UNCHANGED <<dfuVars, cmdVars, flash>>

GetStatusManifest ==
    /\ GetStatus
    /\ dfu_state = "MANIFEST_SYNC"
    /\ Enter("MANIFEST_WAIT_RESET")
    /\ UNCHANGED <<dfu_address, block_num, xfer_len, dfu_buffer, cmdVars, hung, flash>>

GetStatusReport ==
    /\ GetStatus
    /\ dfu_state \notin {"DNLOAD_SYNC", "DNBUSY", "MANIFEST_SYNC"}
    /\ UNCHANGED <<dfuVars, cmdVars, hung, flash>>

handle_dfu_getstatus ==
    \/ GetStatusSync
    \/ ExecuteSetAddress
    \/ ExecuteErase
    \/ ExecuteUnknown
    \/ ExecuteProgram
    \/ ExecuteNothing
    \/ ExecuteFaults
    \/ GetStatusManifest
    \/ GetStatusReport

-----------------------------------------------------------------------------
(* UPLOAD.                                                                  *)

UploadRefused(block) ==
    /\ dfu_state \notin {"IDLE", "UPLOAD_IDLE"} \/ block < 2
    /\ handle_setup(0, FALSE)
    /\ ep0_stall
    /\ UNCHANGED <<dfuVars, cmdVars, hung, flash>>

(* The two range tests of handle_dfu_upload, on the block's address.        *)
Readable(addr) == addr >= APP_FLASH_START /\ addr <= APP_FLASH_END

UploadPastEnd(block) ==
    /\ dfu_state \in {"IDLE", "UPLOAD_IDLE"}
    /\ block >= 2
    /\ ~Readable(BlockAddress(block))
    /\ handle_setup(0, FALSE)
    /\ ep0_send_zlp
    /\ Enter("IDLE")
    /\ UNCHANGED <<dfu_address, block_num, xfer_len, dfu_buffer, cmdVars, hung, flash>>

ReadLenUnclamped(addr, len) == len

(* A read of len bytes at addr, cut at the end of the region.               *)
ReadLen(addr, len) ==
    LET avail == APP_FLASH_END - addr + 1
    IN  IF len < avail THEN len ELSE avail

UploadServed(block, len) ==
    LET addr == BlockAddress(block)
    IN  /\ dfu_state \in {"IDLE", "UPLOAD_IDLE"}
        /\ block >= 2
        /\ Readable(addr)
        /\ handle_setup(0, FALSE)
        /\ ep0_send(addr, ReadLen(addr, len))
        /\ Enter("UPLOAD_IDLE")
        /\ UNCHANGED <<dfu_address, block_num, xfer_len, dfu_buffer, cmdVars, hung, flash>>

handle_dfu_upload(block, len) ==
    \/ UploadRefused(block)
    \/ UploadPastEnd(block)
    \/ UploadServed(block, len)

-----------------------------------------------------------------------------
(* The requests that only set state.                                        *)

handle_dfu_clrstatus ==
    /\ handle_setup(0, FALSE)
    /\ \/ /\ dfu_state = "ERROR"
          /\ dfu_status' = "OK"
          /\ dfu_state' = "IDLE"
       \/ /\ dfu_state # "ERROR"
          /\ UNCHANGED <<dfu_state, dfu_status>>
    /\ ep0_send_zlp
    /\ UNCHANGED <<dfu_address, block_num, xfer_len, dfu_buffer, cmdVars, hung, flash>>

handle_dfu_abort ==
    /\ handle_setup(0, FALSE)
    /\ dfu_status' = "OK"
    /\ dfu_state' = "IDLE"
    /\ dfu_address' = APP_FLASH_START
    /\ dfuse_address_ptr' = APP_FLASH_START
    /\ dfuse_cmd' = NoCommand
    /\ ep0_send_zlp
    /\ UNCHANGED <<block_num, xfer_len, dfu_buffer, hung, flash>>

(* GETSTATE, the standard requests and everything the device refuses.  A    *)
(* refused request may have an OUT data stage of its own.                   *)
OtherRequest(len) ==
    /\ handle_setup(len, FALSE)
    /\ \/ len = 0 /\ (ep0_reply \/ ep0_send_zlp)
       \/ ep0_stall
    /\ UNCHANGED <<dfuVars, cmdVars, hung, flash>>

-----------------------------------------------------------------------------
(* Resets.                                                                  *)

(* The assignments usb_reset and dfu_init share.                            *)
ResetContext ==
    /\ dfu_state' = "IDLE"
    /\ dfu_status' = "OK"
    /\ dfu_address' = APP_FLASH_START
    /\ dfu_buffer' = <<>>
    /\ dfuse_cmd' = NoCommand
    /\ dfuse_address_ptr' = APP_FLASH_START
    /\ ep0_tx' = Reply("nak")
    /\ ctl' = NoTransfer

(* A bus reset leaves the context as a fresh start does; the contents of    *)
(* block_num and xfer_len survive.                                          *)
usb_reset ==
    /\ ~hung
    /\ ResetContext
    /\ UNCHANGED <<block_num, xfer_len, hung, flash>>

(* Power loss, the reset pin, or system_reset() once manifestation is over: *)
(* RAM starts afresh and flash stays.  A program operation cut short leaves *)
(* the same flash as one that failed at that half-word.                     *)
Restart ==
    /\ ResetContext
    /\ block_num' = 0
    /\ xfer_len' = 0
    /\ hung' = FALSE
    /\ UNCHANGED flash

Next ==
    \/ \E block \in Blocks, len \in Lengths : handle_dfu_dnload(block, len)
    \/ \E packet \in IF block_num = 0 THEN Commands ELSE Payloads : OutPacket(packet)
    \/ handle_dfu_getstatus
    \/ \E block \in Blocks, len \in ReadLengths : handle_dfu_upload(block, len)
    \/ handle_dfu_clrstatus
    \/ handle_dfu_abort
    \/ \E len \in Lengths : OtherRequest(len)
    \/ usb_reset
    \/ Restart

Spec == Init /\ [][Next]_vars

-----------------------------------------------------------------------------
(* Correctness.                                                             *)

(* The device reports an error status exactly in the error state, so a host *)
(* that clears the state also clears the reason, and no error is reported   *)
(* from a state that goes on working (every exit of handle_dfu_getstatus,   *)
(* handle_dfu_dnload, handle_dfu_clrstatus and handle_dfu_abort).           *)
StatusIffError == dfu_status = "OK" <=> dfu_state # "ERROR"

(* When the device says a download step is done (dfuDNLOAD-IDLE) or begins  *)
(* to manifest, no DfuSe command it accepted is still waiting to run:       *)
(* otherwise it would erase or move the pointer in a later transfer.        *)
NothingOwedAtManifest ==
    dfu_state \in {"DNLOAD_IDLE", "MANIFEST_SYNC", "MANIFEST_WAIT_RESET"}
        => dfuse_cmd.op = 0

(* The data stage of an accepted download cannot wedge: while the host      *)
(* still has bytes to send, the device waits for exactly those, and once it *)
(* has sent them all, the completion acknowledgement is queued.  The guard  *)
(* on wLength is there for this (comment in handle_dfu_dnload).             *)
DataStageAnswered ==
    ctl.accepted =>
        IF ctl.left > 0
        THEN /\ dfu_state = "DNLOAD_SYNC"
             /\ Len(dfu_buffer) + ctl.left = xfer_len
        ELSE ep0_tx.kind = "zlp"

(* An upload never reads outside the application region, whatever pointer   *)
(* and block number the host chose (the wrapping address computation and    *)
(* the clamp of handle_dfu_upload).                                         *)
UploadInRegion ==
    ep0_tx.kind = "data" /\ ep0_tx.from # 0 =>
        \A i \in 0 .. ep0_tx.len - 1 : ep0_tx.from + i \in AppAddr

(* A failed or faulting operation stays visible: a step that changes flash  *)
(* without completing what was asked ends in an error the host must clear.  *)
(* Nothing programmed or erased is ever reported done unless all of it is.  *)
CompleteOrError ==
    [][ flash' # flash /\ dfu_state' # "ERROR" =>
          \/ dfuse_cmd.op = DFUSE_CMD_ERASE_PAGE
             /\ \A b \in Page(dfuse_cmd.arg) : flash'[b] = Erased
          \/ dfuse_cmd.op = 0
             /\ \A i \in 1 .. Len(dfu_buffer) :
                   flash'[dfu_address + i - 1] = dfu_buffer[i] ]_vars

(* Where data block number block belongs, in distances that never wrap:     *)
(* "data at address pointer + (block-2)*xfer_size" (handle_dfu_dnload).     *)
Slot(block) ==
    LET first == dfuse_address_ptr + (block - 2) * DFU_XFER_SIZE
    IN  first .. (first + DFU_XFER_SIZE - 1)

(* Programming a data block changes nothing but the block's own slot, the   *)
(* padding of an odd tail and the packets of refused requests included,     *)
(* whatever came between the SETUP that fixed dfu.address and the GETSTATUS *)
(* that programs it.  And a block numbered past the end of the 32-bit space *)
(* is refused (flash_write): its address does not wrap into the region.     *)
BlockInItsSlot ==
    [][ dfu_state = "DNBUSY" /\ dfuse_cmd.op = 0 /\ block_num >= 2 =>
          \A b \in FlashAddr : flash'[b] # flash[b] => b \in Slot(block_num) ]_vars

(* What this takes: no half-word lies in two slots, and no block is further *)
(* from the pointer than the region is from address 0.  A block number has  *)
(* 16 bits, and (65535 - 2) * 2048 < 0x08003000.                            *)
SlotAssumption ==
    /\ DFU_XFER_SIZE % 2 = 0
    /\ \A block \in Blocks : (block - 2) * DFU_XFER_SIZE <= APP_FLASH_START

(* Main flash obeys its contract, whatever the host does.                   *)
FlashContractKept == Contract!Spec

-----------------------------------------------------------------------------
(* What the comments and the tests say of the code, and the code does not   *)
(* keep for every host.                                                     *)

(* "Block 2+ = data at address pointer + (block-2)*xfer_size"               *)
(* (handle_dfu_dnload): when a data block is reported done, flash holds it. *)
DataBlockProgrammed ==
    [][ dfu_state = "DNBUSY" /\ dfu_state' = "DNLOAD_IDLE" /\ block_num >= 2 =>
          \A i \in 1 .. Len(dfu_buffer) :
              /\ dfu_address + i - 1 \in FlashAddr
              /\ flash'[dfu_address + i - 1] = dfu_buffer[i] ]_vars

(* "Stall EP0 - stall both directions" (ep0_stall): the data stage of a     *)
(* request the device refused has no effect.                                *)
RefusedDataIgnored ==
    [][ ctl.left > 0 /\ ctl'.left < ctl.left /\ ~ctl.accepted =>
          UNCHANGED <<dfu_buffer, dfuse_cmd>> ]_vars
=============================================================================
