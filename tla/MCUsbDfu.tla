------------------------------ MODULE MCUsbDfu ------------------------------
(* Scaled instances of UsbDfu.  A byte has 4 values, an address 7 bits, an  *)
(* EP0 packet carries 4 bytes and a transfer 8, so a DfuSe command and its  *)
(* operand take two packets, a shorter block 0 is a command without one,    *)
(* and a length of 12 exceeds wTransferSize.  The application region is one *)
(* page, 96..103, with a page of bootloader before it and the settings page *)
(* after it.                                                                *)
(*                                                                          *)
(* The high operand byte comes from the second packet of a command.  Block  *)
(* 11 lies 72 bytes past the pointer: inside the region for a pointer of    *)
(* 26, and past the end of the address space for 90 and 96.  Block 2 lies   *)
(* at the pointer, one block short of the region for 90.                    *)
EXTENDS UsbDfu

(* The bootloader page holds 1s; the rest of flash is blank.                *)
MCInitialFlash ==
    {[a \in FlashAddr |-> IF a < APP_FLASH_START THEN 1 ELSE Erased]}
MCBlocks == {0, 2, 11}
MCLowBlocks == {0, 1, 2}
MCLengths == {0, 8, 12}
MCShortLengths == {0, 4, 7}
MCReadLengths == {8}
None == {}

(* SET_ADDRESS to 90 or 26, ERASE_PAGE of 36 or 100, an unknown command.    *)
MCCommands == {<<1, 2, 2, 1>>, <<2, 0, 1, 2>>, <<3, 3, 3, 3>>}
MCPayloads == {<<2, 0, 1, 2>>}

(* SET_ADDRESS to an odd address, 99 or 35, and ERASE_PAGE.                 *)
MCFaultCommands == {<<1, 3, 0, 2>>, <<2, 0, 1, 2>>}

ASSUME SlotAssumption
=============================================================================
