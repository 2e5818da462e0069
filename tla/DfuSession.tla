------------------------------ MODULE DfuSession ------------------------------
(* A firmware update: the device of UsbDfu with a host that follows the     *)
(* DfuSe download sequence of tools/test_ep0.c.  The host sets the address  *)
(* pointer, erases the pages it needs in any order and at any point before  *)
(* their first block, sends the blocks in order, polls each step with       *)
(* GETSTATUS to its end, and finishes with an empty DNLOAD.                 *)
(*                                                                          *)
(* What may go wrong along the way: a GETSTATUS reply is lost, the host     *)
(* times out and sends ABORT, the bus or the device is reset, the flash     *)
(* controller reports an error.  Each of these uses up one of MaxFaults,    *)
(* and after all but the first the host starts the download again.          *)
EXTENDS UsbDfu

CONSTANTS
    Image,      \* the firmware: a sequence of blocks, all but the last full
    MaxFaults   \* how many times something goes wrong

ASSUME ImageAssumption ==
    /\ Image \in Seq(Seq(Byte))
    /\ Len(Image) > 0
    /\ \A i \in 1 .. Len(Image) :
          IF i < Len(Image) THEN Len(Image[i]) = DFU_XFER_SIZE
                            ELSE Len(Image[i]) \in 1 .. DFU_XFER_SIZE

ASSUME MaxFaultsAssumption == MaxFaults \in Nat

(* A page is a whole number of blocks, a command fits a block, the image    *)
(* fits the application region, and an address is four bytes.               *)
ASSUME LayoutAssumption ==
    /\ FLASH_PAGE_SIZE % DFU_XFER_SIZE = 0
    /\ DFU_XFER_SIZE % 2 = 0
    /\ DFU_XFER_SIZE >= 5
    /\ APP_FLASH_START + Len(Image) * DFU_XFER_SIZE <= APP_FLASH_END + 1
    /\ AddrLimit = ByteBase * ByteBase * ByteBase * ByteBase

VARIABLES
    phase,      \* what the host does next
    step,       \* the download step under way
    addressed,  \* has the pointer been set?
    erased,     \* the pages erased so far
    acked,      \* how many blocks the device has reported done
    faults      \* how many more times something may go wrong

hostVars == <<phase, step, addressed, erased, acked, faults>>
sessionVars == <<vars, hostVars>>

BlockStart(i) == APP_FLASH_START + (i - 1) * DFU_XFER_SIZE
BlockPage(i) == PageBase(BlockStart(i))
ImagePages == {BlockPage(i) : i \in 1 .. Len(Image)}

(* The four operand bytes of a command, low byte first.                     *)
LittleEndian(a) ==
    <<a % ByteBase, (a \div ByteBase) % ByteBase,
      (a \div (ByteBase * ByteBase)) % ByteBase,
      (a \div (ByteBase * ByteBase * ByteBase)) % ByteBase>>

NoStep == [block |-> 0, data |-> <<>>, page |-> -1]
SetAddressStep ==
    [block |-> 0, data |-> <<DFUSE_CMD_SET_ADDRESS>> \o LittleEndian(APP_FLASH_START),
     page |-> -1]
EraseStep(p) ==
    [block |-> 0, data |-> <<DFUSE_CMD_ERASE_PAGE>> \o LittleEndian(p), page |-> p]
DataStep(i) == [block |-> i + 1, data |-> Image[i], page |-> -1]

(* A download from its beginning.                                           *)
StartOver ==
    /\ phase' = "ready"
    /\ step' = NoStep
    /\ addressed' = FALSE
    /\ erased' = {}
    /\ acked' = 0

SessionInit ==
    /\ Init
    /\ phase = "ready"
    /\ step = NoStep
    /\ addressed = FALSE
    /\ erased = {}
    /\ acked = 0
    /\ faults = MaxFaults

SessionTypeOK ==
    /\ phase \in {"ready", "send", "status", "poll", "manifest", "clear", "done"}
    /\ step \in {NoStep, SetAddressStep} \cup {EraseStep(p) : p \in ImagePages}
                \cup {DataStep(i) : i \in 1 .. Len(Image)}
    /\ addressed \in BOOLEAN
    /\ erased \subseteq ImagePages
    /\ acked \in 0 .. Len(Image)
    /\ faults \in 0 .. MaxFaults

-----------------------------------------------------------------------------
(* The host.                                                                *)

(* The steps the host may take next.                                        *)
Choices ==
    {s \in {SetAddressStep} : ~addressed}
    \cup {EraseStep(p) : p \in ImagePages \ erased}
    \cup {DataStep(i) : i \in {j \in 1 .. Len(Image) :
                                 j = acked + 1 /\ addressed /\ BlockPage(j) \in erased}}

host_dnload ==
    /\ phase = "ready"
    /\ \E s \in Choices :
          /\ handle_dfu_dnload(s.block, Len(s.data))
          /\ step' = s
    /\ phase' = "send"
    /\ UNCHANGED <<addressed, erased, acked, faults>>

(* The next packet of the step's data, filled up to a full packet.          *)
NextPacket ==
    LET sent == Len(step.data) - ctl.left
    IN  [i \in 1 .. EP0_MAX_SIZE |->
            IF sent + i <= Len(step.data) THEN step.data[sent + i] ELSE 0]

host_data ==
    /\ phase = "send"
    /\ OutPacket(NextPacket)
    /\ phase' = IF ctl'.left = 0 THEN "status" ELSE "send"
    /\ UNCHANGED <<step, addressed, erased, acked, faults>>

(* The status stage of the transfer: the host waits for the device's        *)
(* zero-length acknowledgement.                                             *)
host_status_stage ==
    /\ phase = "status"
    /\ ep0_tx.kind = "zlp"
    /\ phase' = "poll"
    /\ UNCHANGED <<vars, step, addressed, erased, acked, faults>>

StepDoneAlwaysErased ==
    /\ phase' = "ready"
    /\ step' = NoStep
    /\ addressed' = (addressed \/ step = SetAddressStep)
    /\ erased' = erased \cup {step.page}
    /\ acked' = IF step.block # 0 THEN acked + 1 ELSE acked

(* The host learns that the step it was polling is over.                    *)
StepDone ==
    /\ phase' = "ready"
    /\ step' = NoStep
    /\ addressed' = (addressed \/ step = SetAddressStep)
    /\ erased' = IF step.page # -1 THEN erased \cup {step.page} ELSE erased
    /\ acked' = IF step.block # 0 THEN acked + 1 ELSE acked

(* What the host makes of the state in a GETSTATUS reply.                   *)
Interpret ==
    \/ /\ phase = "poll"
       /\ dfu_state' = "DNLOAD_IDLE"
       /\ StepDone
    \/ /\ dfu_state' = "ERROR"
       /\ phase' = "clear"
       /\ UNCHANGED <<step, addressed, erased, acked>>
    \/ /\ ~(phase = "poll" /\ dfu_state' = "DNLOAD_IDLE")
       /\ dfu_state' # "ERROR"
       /\ UNCHANGED <<phase, step, addressed, erased, acked>>

(* The reply arrives.  A controller error counts as a fault.                *)
host_getstatus ==
    /\ phase \in {"poll", "manifest"}
    /\ handle_dfu_getstatus
    /\ Interpret
    /\ IF dfu_state # "ERROR" /\ dfu_state' = "ERROR"
       THEN faults > 0 /\ faults' = faults - 1
       ELSE UNCHANGED faults

(* All blocks are done: the empty DNLOAD.                                   *)
host_end ==
    /\ phase = "ready"
    /\ acked = Len(Image)
    /\ handle_dfu_dnload(0, 0)
    /\ phase' = "manifest"
    /\ UNCHANGED <<step, addressed, erased, acked, faults>>

host_clrstatus ==
    /\ phase = "clear"
    /\ handle_dfu_clrstatus
    /\ StartOver
    /\ UNCHANGED faults

HostNext ==
    \/ host_dnload
    \/ host_data
    \/ host_status_stage
    \/ host_getstatus
    \/ host_end
    \/ host_clrstatus

-----------------------------------------------------------------------------
(* What goes wrong.                                                         *)

Fault == phase # "done" /\ faults > 0 /\ faults' = faults - 1

(* The host's GETSTATUS is carried out but its reply never arrives.         *)
LostReply ==
    /\ Fault
    /\ phase \in {"poll", "manifest"}
    /\ handle_dfu_getstatus
    /\ dfu_state' # "ERROR"
    /\ UNCHANGED <<phase, step, addressed, erased, acked>>

(* The host gives up on a step, wherever it stands, and aborts.             *)
HostTimeout ==
    /\ Fault
    /\ handle_dfu_abort
    /\ StartOver

BusReset ==
    /\ Fault
    /\ usb_reset
    /\ StartOver

PowerLoss ==
    /\ Fault
    /\ Restart
    /\ StartOver

-----------------------------------------------------------------------------
(* The device resets itself once manifestation is over (run_dfu_mode).      *)
ManifestReset ==
    /\ dfu_state = "MANIFEST_WAIT_RESET"
    /\ phase = "manifest"
    /\ Restart
    /\ phase' = "done"
    /\ UNCHANGED <<step, addressed, erased, acked, faults>>

SessionNext ==
    \/ HostNext
    \/ LostReply
    \/ HostTimeout
    \/ BusReset
    \/ PowerLoss
    \/ ManifestReset

(* The host goes on with its download, and the main loop of the device goes *)
(* round.                                                                   *)
SessionSpec ==
    /\ SessionInit
    /\ [][SessionNext]_sessionVars
    /\ WF_sessionVars(HostNext)
    /\ WF_sessionVars(ManifestReset)

-----------------------------------------------------------------------------
(* Correctness.                                                             *)

Holds(i) ==
    \A j \in 1 .. Len(Image[i]) : flash[BlockStart(i) + j - 1] = Image[i][j]

(* Every block the device has reported done is in flash, byte for byte, and *)
(* stays there while the rest of the image arrives and further pages are    *)
(* erased (README: "DFU download: byte-exact"; tools/test_ep0.c: an         *)
(* interleaved ERASE_PAGE does not move the address pointer).               *)
AckedIsProgrammed ==
    \A i \in 1 .. acked : Holds(i)

(* The device begins to manifest, and resets into the application, only     *)
(* with the whole image in flash, whatever was retried on the way.          *)
ManifestMeansWhole ==
    dfu_state \in {"MANIFEST_SYNC", "MANIFEST_WAIT_RESET"} \/ phase = "done" =>
        \A i \in 1 .. Len(Image) : Holds(i)

(* A host that follows the sequence is never refused: no request of its is  *)
(* stalled, and no error is reported unless the controller failed, not even *)
(* after lost replies, aborts and resets in any of the device's states.     *)
ConformingHostServed ==
    /\ ep0_tx.kind # "stall"
    /\ ~hung
    /\ dfu_status \in {"OK", "ERR_ERASE", "ERR_WRITE"}
    /\ faults = MaxFaults => dfu_status = "OK"

(* The update ends: finitely many faults only delay it.                     *)
UpdateCompletes == <>(phase = "done")
=============================================================================
