-------------------------------- MODULE MCBoot --------------------------------
(* Addresses are those of the board; a 32-bit erased word is the largest    *)
(* integer instead.  Option bytes have six values.                          *)
EXTENDS Boot

MCErasedVectors == [sp |-> 2147483647, reset |-> 2147483647]

(* A good image, one at both ends of what is accepted, one whose stack      *)
(* pointer is in the gap above the RAM, and one that starts at the          *)
(* bootloader.                                                              *)
MCVectors ==
    {[sp |-> EStack, reset |-> APP_ADDRESS + 257],
     [sp |-> RAM_BASE, reset |-> AppLimit],
     [sp |-> EStack + 4, reset |-> APP_ADDRESS],
     [sp |-> EStack, reset |-> APP_ADDRESS - 12287],
     MCErasedVectors}

(* Read protection off, on and erased; no, one and every page protected.    *)
MCInitialOptions ==
    {[b \in OptionName |->
        IF b = "RDP" THEN rdp
        ELSE IF b \in wrp THEN 0
        ELSE IF b = "USER" THEN 3
        ELSE IF b = "DATA0" THEN 7
        ELSE OB_WRP_NONE] :
     rdp \in {OB_RDP_UNLOCK, OB_WRP_NONE, 0}, wrp \in {{}, {"WRP3"}, Wrp}}
=============================================================================
