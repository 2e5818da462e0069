----------------------------- MODULE ControlRead ------------------------------
(* What EP0 promises the reader of a control transfer (the comments on      *)
(* ep0_send and handle_ep0_in in src/src/usb_dfu.c): the reply to its own   *)
(* request, whole, in order, cut to the length it asked for, and ended      *)
(* where it can tell: by a packet that is not full or by the last byte      *)
(* asked for.  Ep0 implements it.                                           *)
EXTENDS Integers, Sequences

CONSTANTS
    EP0_MAX_SIZE,   \* bytes in a full packet
    Requests        \* the requests a host may make

VARIABLES
    request,  \* the request the host made last
    tag,      \* tells it, and the bytes that answer it, from the one before
    taken,    \* the bytes the host took in its data stage
    open      \* is the host in the data stage?

readVars == <<request, tag, taken, open>>

AtMost(m, n) == IF m <= n THEN m ELSE n

(* Answered by data, or by a stall in the place of it.                      *)
Reads(r) == r.kind \in {"read", "status", "refuse"}

(* The n-th byte of the reply to the request with this tag.                 *)
Bytes(t, n) == [i \in 1 .. n |-> <<t, i>>]
Whole == Bytes(tag, AtMost(request.reply, request.wLength))

ControlInit ==
    /\ request \in Requests
    /\ tag \in {0, 1}
    /\ taken = <<>>
    /\ ~open

(* The host may drop one request for the next at any time.                  *)
Ask ==
    /\ request' \in Requests
    /\ tag' = 1 - tag
    /\ taken' = <<>>
    /\ open' = (Reads(request') /\ request'.wLength > 0)

Deliver ==
    LET upto == AtMost(Len(taken) + EP0_MAX_SIZE, Len(Whole))
    IN  /\ open
        /\ request.kind # "refuse"
        /\ taken' = SubSeq(Whole, 1, upto)
        /\ open' = (/\ upto = Len(taken) + EP0_MAX_SIZE
                    /\ upto < request.wLength)
        /\ UNCHANGED <<request, tag>>

Refuse ==
    /\ open
    /\ request.kind = "refuse"
    /\ open' = FALSE
    /\ UNCHANGED <<request, tag, taken>>

(* A bus reset ends everything.                                             *)
Cut ==
    /\ tag' = 1 - tag
    /\ taken' = <<>>
    /\ open' = FALSE
    /\ UNCHANGED request

ControlNext == Ask \/ Deliver \/ Refuse \/ Cut

ControlSpec == ControlInit /\ [][ControlNext]_readVars

(* A reader that has come to the end of its data stage without a stall or a *)
(* reset has the whole reply.                                               *)
WholeWhenEnded ==
    ~open /\ taken # <<>> => taken = Whole
=============================================================================
