---------------------------------- MODULE Ep0 ----------------------------------
(* Endpoint 0 of src/src/usb_dfu.c: usb_poll and the handlers under it, the *)
(* endpoint register EP0R they share with the USB controller, and a host.   *)
(* The controller and the host act between any two accesses to EP0R.  Of a  *)
(* handler, `todo' is what is left to execute; its memory is its own, so    *)
(* everything between two accesses is one step.                             *)
(*                                                                          *)
(* A byte is a tag and a position, a request says how long its reply is and *)
(* not what is in it.  What the DFU engine answers is in UsbDfu.            *)
EXTENDS Integers, Sequences

CONSTANTS
    EP0_MAX_SIZE,   \* bytes in a full packet
    Requests,       \* SETUP packets a host may send
    MayAbandon,     \* requests it may give up for another one
    Timely,         \* does the bus wait for the main loop (see Attentive)?
    ResetAnywhere   \* may the bus be reset while a handler runs?

Kinds == {"read", "status", "none", "address", "refuse", "write"}

(* wLength counts bytes to read, or packets to write.                       *)
ASSUME Ep0Assumption ==
    /\ EP0_MAX_SIZE \in Nat \ {0}
    /\ \A r \in Requests :
          /\ r.kind \in Kinds
          /\ r.wLength \in Nat /\ r.reply \in Nat /\ r.address \in Nat
          /\ r.kind = "write" => r.wLength > 0
    /\ MayAbandon \subseteq Requests
    /\ Timely \in BOOLEAN /\ ResetAnywhere \in BOOLEAN

VARIABLES
    ep0r,       \* USB_EP0R: the two CTR flags, SETUP and the two STAT fields
    isr_reset,  \* USB_ISTR_RESET
    daddr,      \* the address in USB_DADDR
    tx_packet,  \* packet memory: the bytes to send
    rx_packet   \* packet memory: what was received

VARIABLES
    todo,             \* the rest of the handlers this poll started
    val,              \* EP0R as ep_set_tx_status or ep_set_rx_status read it
    ep0_req_len,
    ep0_tx_left,      \* the bytes at ep0_tx_ptr, ep0_tx_remaining of them
    ep0_tx_need_zlp,
    pending_address,
    state,            \* dfu.state: "DNLOAD_SYNC", "DNBUSY" or any "other"
    expected          \* packets the download under way still lacks (xfer_len)

VARIABLES
    stage,      \* the stage of the control transfer the host is in
    request, tag, taken,
    left,       \* data packets it still has to write
    assigned    \* the address it speaks to

regVars == <<ep0r, isr_reset, daddr, tx_packet, rx_packet>>
txVars == <<ep0_req_len, ep0_tx_left, ep0_tx_need_zlp>>
engineVars == <<state, expected>>
memVars == <<txVars, pending_address, engineVars>>
hostVars == <<stage, request, tag, taken, left, assigned>>
ep0Vars == <<regVars, todo, val, memVars, hostVars>>

-----------------------------------------------------------------------------
(* The endpoint register.  A write toggles the STAT bits written as 1 and   *)
(* clears the CTR flags written as 0.                                       *)

DISABLED == 0
STALL == 1
NAK == 2
VALID == 3
Status == DISABLED .. VALID

Xor(a, b) == 2 * ((a \div 2 + b \div 2) % 2) + ((a + b) % 2)

Written(r, ctr_rx, ctr_tx, rx, tx) ==
    [r EXCEPT !.ctr_rx = @ /\ ctr_rx,
              !.ctr_tx = @ /\ ctr_tx,
              !.stat_rx = Xor(@, rx),
              !.stat_tx = Xor(@, tx)]

(* Read, modify, write: two accesses, with `val' between them.              *)
SetTx(s) == <<<<"read">>, <<"write tx", s>>>>
SetRx(s) == <<<<"read">>, <<"write rx", s>>>>

At(op) == todo # <<>> /\ Head(todo)[1] = op
Then(ops) == todo' = ops \o Tail(todo)

ReadEp0r ==
    /\ At("read")
    /\ val' = ep0r
    /\ Then(<<>>)
    /\ UNCHANGED <<regVars, memVars, hostVars>>

(* What is written to STAT_RX to leave it alone.                            *)
RxAsRead == val.stat_rx
RxUntouched == 0

ep_set_tx_status ==
    /\ At("write tx")
    /\ ep0r' = Written(ep0r, val.ctr_rx, val.ctr_tx,
                     RxUntouched, Xor(val.stat_tx, Head(todo)[2]))
    /\ Then(<<>>)
    /\ UNCHANGED <<isr_reset, daddr, tx_packet, rx_packet, val, memVars, hostVars>>

ep_set_rx_status ==
    /\ At("write rx")
    /\ ep0r' = Written(ep0r, val.ctr_rx, val.ctr_tx,
                     Xor(val.stat_rx, Head(todo)[2]), 0)
    /\ Then(<<>>)
    /\ UNCHANGED <<isr_reset, daddr, tx_packet, rx_packet, val, memVars, hostVars>>

-----------------------------------------------------------------------------
(* Sending.                                                                 *)

AtMost(m, n) == IF m <= n THEN m ELSE n
Bytes(t, n) == [i \in 1 .. n |-> <<t, i>>]

OverfullChunk == EP0_MAX_SIZE + 1
FullChunk == EP0_MAX_SIZE

Chunk == <<<<"chunk">>>> \o SetTx(VALID)

ep0_tx_chunk ==
    LET chunk == AtMost(FullChunk, Len(ep0_tx_left))
    IN  /\ At("chunk")
        /\ tx_packet' = SubSeq(ep0_tx_left, 1, chunk)
        /\ ep0_tx_left' = SubSeq(ep0_tx_left, chunk + 1, Len(ep0_tx_left))
        /\ Then(<<>>)
        /\ UNCHANGED <<ep0r, isr_reset, daddr, rx_packet, val, ep0_req_len,
                       ep0_tx_need_zlp, pending_address, engineVars, hostVars>>

(* Does a reply of len bytes owe a terminator?                              *)
NeverZlp(len) == FALSE
NeedZlp(len) == len > 0 /\ len < ep0_req_len /\ len % EP0_MAX_SIZE = 0

Uncut(len) == len
CutToAsked(len) == AtMost(len, ep0_req_len)

ep0_send ==
    LET len == CutToAsked(Head(todo)[3])
    IN  /\ At("send")
        /\ ep0_tx_left' = Bytes(Head(todo)[2], len)
        /\ ep0_tx_need_zlp' = NeedZlp(len)
        /\ Then(Chunk \o SetRx(VALID))
        /\ UNCHANGED <<regVars, val, ep0_req_len, pending_address, engineVars, hostVars>>

NothingInFlight == ep0_tx_left' = <<>> /\ ep0_tx_need_zlp' = FALSE

ep0_send_zlp ==
    /\ At("zlp")
    /\ NothingInFlight
    /\ tx_packet' = <<>>
    /\ Then(SetTx(VALID) \o SetRx(VALID))
    /\ UNCHANGED <<ep0r, isr_reset, daddr, rx_packet, val, ep0_req_len,
                   pending_address, engineVars, hostVars>>

ep0_stall ==
    /\ At("stall")
    /\ NothingInFlight
    /\ Then(SetTx(STALL) \o SetRx(VALID))
    /\ UNCHANGED <<regVars, val, ep0_req_len, pending_address, engineVars, hostVars>>

-----------------------------------------------------------------------------
(* Handlers.                                                                *)

(* Of the DFU engine: a download is refused while one is under way, and for *)
(* reasons of its own (block 1, a length over DFU_XFER_SIZE, which is an    *)
(* error and drops the one under way); a GETSTATUS ends its data stage, and *)
(* the next one does the work, if any; ABORT drops it.                      *)
DropDownload == state' = "other" /\ expected' = 0

Dispatch(r, t) ==
    \/ /\ r.kind = "read"
       /\ Then(<<<<"send", t, r.reply>>>>)
       /\ UNCHANGED <<pending_address, engineVars>>
    \/ /\ r.kind = "status"
       /\ \/ state = "other" /\ Then(<<<<"send", t, r.reply>>>>) /\ UNCHANGED engineVars
          \/ /\ state = "DNLOAD_SYNC" /\ Then(<<<<"send", t, r.reply>>>>)
             /\ state' = "DNBUSY" /\ expected' = 0
          \/ state = "DNBUSY" /\ Then(<<<<"send", t, r.reply>>>>) /\ DropDownload
          \/ state = "DNBUSY" /\ Then(<<<<"flash">>, <<"send", t, r.reply>>>>) /\ DropDownload
       /\ UNCHANGED pending_address
    \/ /\ r.kind = "none"
       /\ Then(<<<<"zlp">>>>)
       /\ UNCHANGED engineVars \/ DropDownload
       /\ UNCHANGED pending_address
    \/ /\ r.kind = "address"
       /\ Then(<<<<"zlp">>>>)
       /\ pending_address' = r.address
       /\ UNCHANGED engineVars
    \/ /\ r.kind = "refuse" \/ r.kind = "write"
       /\ Then(<<<<"stall">>>>)
       /\ UNCHANGED engineVars \/ (r.kind = "write" /\ DropDownload)
       /\ UNCHANGED pending_address
    \/ /\ r.kind = "write"
       /\ state = "other"
       /\ Then(SetRx(VALID))
       /\ state' = "DNLOAD_SYNC" /\ expected' = r.wLength
       /\ UNCHANGED pending_address

handle_setup ==
    /\ At("setup")
    /\ ep0r' = Written(ep0r, FALSE, TRUE, 0, 0)
    /\ ep0_req_len' = rx_packet.request.wLength
    /\ NothingInFlight
    /\ Dispatch(rx_packet.request, rx_packet.tag)
    /\ UNCHANGED <<isr_reset, daddr, tx_packet, rx_packet, val, hostVars>>

(* handle_dfu_getstatus erases or programs before it replies: tens of       *)
(* milliseconds, in which the controller goes on by itself.                 *)
FlashOperation ==
    /\ At("flash")
    /\ Then(<<>>)
    /\ UNCHANGED <<regVars, val, memVars, hostVars>>

RxAcknowledge == <<<<"clear rx">>>> \o SetRx(VALID)

(* The last packet of a download is acknowledged, and so is whatever else   *)
(* arrives in DNLOAD_SYNC afterwards, the data of a refused download for    *)
(* one: the buffer still holds xfer_len bytes, unless a command emptied it. *)
handle_ep0_out ==
    LET appended == state = "DNLOAD_SYNC" /\ rx_packet.data
    IN  /\ At("out")
        /\ expected' = IF appended /\ expected > 0 THEN expected - 1 ELSE expected
        /\ \/ appended /\ expected <= 1 /\ Then(<<<<"zlp">>>> \o RxAcknowledge)
           \/ ~(appended /\ expected = 1) /\ Then(RxAcknowledge)
        /\ UNCHANGED <<regVars, val, txVars, pending_address, state, hostVars>>

ClearCtrRx ==
    /\ At("clear rx")
    /\ ep0r' = Written(ep0r, FALSE, TRUE, 0, 0)
    /\ Then(<<>>)
    /\ UNCHANGED <<isr_reset, daddr, tx_packet, rx_packet, val, memVars, hostVars>>

(* pending_address once it has been assigned.                               *)
StillPending == pending_address
NonePending == 0

(* An IN packet was taken: the next one, the terminator, or the end.        *)
handle_ep0_in ==
    /\ At("in")
    /\ ep0r' = Written(ep0r, TRUE, FALSE, 0, 0)
    /\ \/ /\ ep0_tx_left # <<>>
          /\ Then(Chunk)
          /\ UNCHANGED <<ep0_tx_need_zlp, tx_packet, daddr, pending_address>>
       \/ /\ ep0_tx_left = <<>> /\ ep0_tx_need_zlp
          /\ ep0_tx_need_zlp' = FALSE
          /\ tx_packet' = <<>>
          /\ Then(SetTx(VALID))
          /\ UNCHANGED <<daddr, pending_address>>
       \/ /\ ep0_tx_left = <<>> /\ ~ep0_tx_need_zlp
          /\ daddr' = IF pending_address # 0 THEN pending_address ELSE daddr
          /\ pending_address' = NonePending
          /\ Then(<<>>)
          /\ UNCHANGED <<ep0_tx_need_zlp, tx_packet>>
    /\ UNCHANGED <<isr_reset, rx_packet, val, ep0_req_len, ep0_tx_left, engineVars, hostVars>>

-----------------------------------------------------------------------------
(* usb_poll: one reading of the flags decides what this round handles, and  *)
(* received comes before sent.                                              *)

Handlers ==
    (IF ~ep0r.ctr_rx THEN <<>> ELSE IF ep0r.setup THEN <<<<"setup">>>> ELSE <<<<"out">>>>)
    \o (IF ep0r.ctr_tx THEN <<<<"in">>>> ELSE <<>>)

usb_poll ==
    /\ todo = <<>>
    /\ ~isr_reset
    /\ ep0r.ctr_rx \/ ep0r.ctr_tx
    /\ todo' = Handlers
    /\ UNCHANGED <<regVars, val, memVars, hostVars>>

(* EP0R is written as if its STAT fields were zero.                         *)
usb_reset ==
    /\ todo = <<>>
    /\ isr_reset
    /\ isr_reset' = FALSE
    /\ ep0r' = Written(ep0r, TRUE, TRUE, VALID, NAK)
    /\ daddr' = 0
    /\ tx_packet' = <<>>
    /\ NothingInFlight
    /\ ep0_req_len' = 0
    /\ DropDownload
    /\ UNCHANGED <<rx_packet, todo, val, pending_address, hostVars>>

Firmware ==
    \/ usb_poll
    \/ usb_reset
    \/ ReadEp0r
    \/ ep_set_tx_status
    \/ ep_set_rx_status
    \/ ep0_tx_chunk
    \/ ep0_send
    \/ ep0_send_zlp
    \/ ep0_stall
    \/ handle_setup
    \/ FlashOperation
    \/ handle_ep0_out
    \/ ClearCtrRx
    \/ handle_ep0_in

-----------------------------------------------------------------------------
(* The bus.  The shortest transaction takes longer than a round of the main *)
(* loop without a flash operation.  When the model is Timely, a transaction *)
(* therefore ends between two polls, with the one before it handled, or     *)
(* during a flash operation.                                                *)

Attentive == todo = <<>> /\ ~ep0r.ctr_rx /\ ~ep0r.ctr_tx

(* The function answers: it is enabled, at the address the host uses.       *)
Answers == ~isr_reset /\ daddr = assigned /\ (Timely => Attentive \/ At("flash"))

Received(setup) ==
    [ep0r EXCEPT !.ctr_rx = TRUE, !.setup = setup, !.stat_rx = NAK,
                 !.stat_tx = IF setup THEN NAK ELSE @]

FirstStage(r) ==
    IF r.kind = "write" THEN "data out"
    ELSE IF r.wLength > 0 /\ r.kind \in {"read", "status", "refuse"} THEN "data in"
    ELSE "status in"

(* While CTR_RX is set the controller takes no SETUP packet.                *)
SendSetup ==
    /\ stage = "done" \/ request \in MayAbandon
    /\ Answers
    /\ ep0r.stat_rx # DISABLED
    /\ ~ep0r.ctr_rx
    /\ \E r \in Requests :
          /\ request' = r
          /\ rx_packet' = [request |-> r, tag |-> 1 - tag, data |-> FALSE]
          /\ stage' = FirstStage(r)
          /\ left' = IF r.kind = "write" THEN r.wLength ELSE 0
    /\ tag' = 1 - tag
    /\ taken' = <<>>
    /\ ep0r' = Received(TRUE)
    /\ UNCHANGED <<isr_reset, daddr, tx_packet, todo, val, memVars, assigned>>

SendData ==
    /\ stage = "data out"
    /\ Answers
    /\ ep0r.stat_rx = VALID
    /\ rx_packet' = [rx_packet EXCEPT !.data = TRUE]
    /\ ep0r' = Received(FALSE)
    /\ left' = left - 1
    /\ stage' = IF left = 1 THEN "status in" ELSE stage
    /\ UNCHANGED <<isr_reset, daddr, tx_packet, todo, val, memVars,
                   request, tag, taken, assigned>>

(* The empty packet that ends a read.                                       *)
SendStatus ==
    /\ stage = "status out"
    /\ Answers
    /\ ep0r.stat_rx = VALID
    /\ rx_packet' = [rx_packet EXCEPT !.data = FALSE]
    /\ ep0r' = Received(FALSE)
    /\ stage' = "done"
    /\ UNCHANGED <<isr_reset, daddr, tx_packet, todo, val, memVars,
                   request, tag, taken, left, assigned>>

TakePacket ==
    /\ stage \in {"data in", "status in"}
    /\ Answers
    /\ ep0r.stat_tx = VALID
    /\ ep0r' = [ep0r EXCEPT !.ctr_tx = TRUE, !.stat_tx = NAK]
    /\ taken' = taken \o tx_packet
    /\ stage' = IF stage = "status in" THEN "done"
                ELSE IF Len(tx_packet) < EP0_MAX_SIZE \/ Len(taken') >= request.wLength
                THEN "status out" ELSE stage
    /\ assigned' = IF stage = "status in" /\ request.kind = "address"
                   THEN request.address ELSE assigned
    /\ UNCHANGED <<isr_reset, daddr, tx_packet, rx_packet, todo, val, memVars,
                   request, tag, left>>

TakeStall ==
    /\ stage \in {"data in", "status in"}
    /\ Answers
    /\ ep0r.stat_tx = STALL
    /\ stage' = "done"
    /\ UNCHANGED <<regVars, todo, val, memVars, request, tag, taken, left, assigned>>

(* The controller keeps the CTR flags and forgets the rest of EP0R.         *)
BusReset ==
    /\ ResetAnywhere \/ Attentive
    /\ stage = "done" \/ request \in MayAbandon
    /\ ~isr_reset
    /\ isr_reset' = TRUE
    /\ ep0r' = [ep0r EXCEPT !.setup = FALSE, !.stat_rx = DISABLED, !.stat_tx = DISABLED]
    /\ daddr' = 0
    /\ stage' = "done"
    /\ tag' = 1 - tag
    /\ taken' = <<>>
    /\ left' = 0
    /\ assigned' = 0
    /\ UNCHANGED <<tx_packet, rx_packet, todo, val, memVars, request>>

(* A host that has begun a transfer asks for its next packet.               *)
HostGoesOn == SendData \/ SendStatus \/ TakePacket \/ TakeStall

-----------------------------------------------------------------------------
(* usb_init and dfu_init.                                                   *)
Ep0Init ==
    /\ ep0r = [ctr_rx |-> FALSE, ctr_tx |-> FALSE, setup |-> FALSE,
               stat_rx |-> VALID, stat_tx |-> NAK]
    /\ val = ep0r
    /\ isr_reset = FALSE
    /\ daddr = 0
    /\ tx_packet = <<>>
    /\ request \in Requests
    /\ tag = 0
    /\ rx_packet = [request |-> request, tag |-> tag, data |-> FALSE]
    /\ todo = <<>>
    /\ ep0_req_len = 0
    /\ ep0_tx_left = <<>>
    /\ ep0_tx_need_zlp = FALSE
    /\ pending_address = 0
    /\ state = "other"
    /\ expected = 0
    /\ stage = "done"
    /\ taken = <<>>
    /\ left = 0
    /\ assigned = 0

Ep0Next == Firmware \/ SendSetup \/ HostGoesOn \/ BusReset

(* The main loop goes round for ever; the host is persistent.               *)
Ep0Spec ==
    /\ Ep0Init
    /\ [][Ep0Next]_ep0Vars
    /\ WF_ep0Vars(Firmware)
    /\ WF_ep0Vars(HostGoesOn)

-----------------------------------------------------------------------------
(* Correctness.                                                             *)

States == {"DNLOAD_SYNC", "DNBUSY", "other"}
Register ==
    [ctr_rx : BOOLEAN, ctr_tx : BOOLEAN, setup : BOOLEAN, stat_rx : Status, stat_tx : Status]

Ep0TypeOK ==
    /\ ep0r \in Register /\ val \in Register
    /\ isr_reset \in BOOLEAN
    /\ daddr \in Nat /\ pending_address \in Nat /\ assigned \in Nat
    /\ tx_packet \in Seq({0, 1} \X Nat) /\ Len(tx_packet) <= EP0_MAX_SIZE
    /\ ep0_tx_left \in Seq({0, 1} \X Nat)
    /\ ep0_tx_need_zlp \in BOOLEAN
    /\ state \in States
    /\ ep0_req_len \in Nat /\ expected \in Nat /\ left \in Nat
    /\ request \in Requests /\ tag \in {0, 1}
    /\ rx_packet \in [request : Requests, tag : {0, 1}, data : BOOLEAN]
    /\ stage \in {"data in", "data out", "status in", "status out", "done"}
    /\ taken \in Seq({0, 1} \X Nat)

(* The reader of a control transfer gets what ControlRead promises.         *)
Reader == INSTANCE ControlRead WITH open <- (stage = "data in")
ReplyWhole == Reader!ControlSpec

(* Whatever the firmware has done, once it has caught up EP0 can receive:   *)
(* no bus reset, stall or abandoned transfer leaves the device deaf         *)
(* (usb_reset: "Configure EP0 as control endpoint"; ep0_stall: "Keep RX     *)
(* enabled to receive next SETUP").                                         *)
NeverDeaf == todo = <<>> /\ ~isr_reset => ep0r.stat_rx # DISABLED

(* Once it has caught up, the device is at the address the host gave it, no *)
(* earlier and no later than the status stage of that SET_ADDRESS ("a       *)
(* SET_ADDRESS only takes effect now"; "Nothing is in flight across a bus   *)
(* reset").                                                                 *)
AddressAgreed == Attentive /\ ~isr_reset => daddr = assigned

(* Every transfer of a persistent host ends, unless it is given up: EP0     *)
(* never waits for an event it has missed.                                  *)
TransferEnds == \A t \in {0, 1} : stage # "done" /\ tag = t ~> stage = "done" \/ tag # t
=============================================================================
