--------------------------------- MODULE MCEp0 ---------------------------------
(* Packets of two bytes.  Replies shorter and longer than asked for, with   *)
(* and without a full last packet, empty ones, and one that flash work      *)
(* precedes; a refusal, a download of two packets, SET_ADDRESS.             *)
EXTENDS Ep0

Req(kind, wLength, reply) ==
    [kind |-> kind, wLength |-> wLength, reply |-> reply,
     address |-> IF kind = "address" THEN 1 ELSE 0]

MCRequests ==
    {Req("read", 5, 4), Req("read", 4, 4), Req("read", 3, 5), Req("read", 2, 0),
     Req("status", 3, 3), Req("none", 0, 0), Req("address", 0, 0),
     Req("refuse", 2, 0), Req("write", 2, 0)}

AllButAddress == {r \in MCRequests : r.kind # "address"}
=============================================================================
