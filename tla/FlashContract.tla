---------------------------- MODULE FlashContract ----------------------------
(* What the bootloader promises about main flash, whatever a USB host asks  *)
(* of it.  The README states it (DFU cannot erase saved settings no matter  *)
(* what a host asks for, the bootloader survives every update) and the      *)
(* checks in src/src/flash_if.c are there to keep it: flash changes only by *)
(* erasing one whole page of the application region, or by programming      *)
(* bytes of that region that read erased.                                   *)
EXTENDS Integers

CONSTANTS FLASH_PAGE_SIZE, BOOTLOADER_START, APP_FLASH_START, APP_FLASH_END,
          FLASH_END, ByteBase

VARIABLE flash

Erased == ByteBase - 1
FlashAddr == BOOTLOADER_START .. FLASH_END
AppAddr == APP_FLASH_START .. APP_FLASH_END

(* The first bytes of the pages that lie wholly in the application region.  *)
AppPages ==
    {p \in AppAddr : /\ p % FLASH_PAGE_SIZE = 0
                     /\ p + FLASH_PAGE_SIZE - 1 <= APP_FLASH_END}

Init == flash \in [FlashAddr -> 0 .. ByteBase - 1]

ErasePage ==
    \E p \in AppPages :
        flash' = [b \in FlashAddr |->
                    IF b >= p /\ b < p + FLASH_PAGE_SIZE THEN Erased ELSE flash[b]]

ProgramErased ==
    /\ flash' \in [FlashAddr -> 0 .. ByteBase - 1]
    /\ \A b \in FlashAddr : flash'[b] # flash[b] => b \in AppAddr /\ flash[b] = Erased

Next == ErasePage \/ ProgramErased

Spec == Init /\ [][Next]_flash
=============================================================================
