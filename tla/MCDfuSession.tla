---------------------------- MODULE MCDfuSession ----------------------------
(* Two pages of two blocks each; the image fills one and a half, and its    *)
(* last block has an odd length.  Bytes have 4 values and addresses 8 bits. *)
EXTENDS DfuSession

(* Flash as an older firmware left it: 0s in the application region.        *)
MCInitialFlash ==
    {[a \in FlashAddr |->
        IF a < APP_FLASH_START THEN 1 ELSE IF a <= APP_FLASH_END THEN 0 ELSE 2]}

MCImage ==
    << <<0, 1, 2, 0, 1, 2, 0, 1>>, <<2, 1, 0, 3, 2, 1, 0, 2>>, <<1, 1, 2, 2, 1>> >>

(* The host of DfuSession makes its own requests; these are not used.       *)
None == {}
=============================================================================
