------------------------------- MODULE FlashIf -------------------------------
(* The main-flash driver, src/src/flash_if.c.                               *)
(*                                                                          *)
(* Flash is a function from byte address to byte.  The two operations below *)
(* are the calls usb_dfu.c makes: each is an action on flash together with  *)
(* the value the C function returns.  The controller behind FLASH_CR and    *)
(* FLASH_SR is hardware: an erase sets a page to all ones, a half-word can  *)
(* be programmed only when it reads erased, and with FlashMayFail any       *)
(* operation may end in PGERR or WRPRTERR, leaving its target as it was.    *)
(* (The controller's one exception, programming 0x0000 over anything, is    *)
(* left out.)  The unlock, lock and error-clear writes around an operation  *)
(* and the busy-wait inside it belong to the operation.                     *)
EXTENDS Integers, Sequences

CONSTANTS
    FLASH_PAGE_SIZE,                   \* bytes per erase page
    BOOTLOADER_START, BOOTLOADER_END,  \* first and last byte of the bootloader
    APP_FLASH_START, APP_FLASH_END,    \* first and last byte DFU may write
    FLASH_END,                         \* last byte of flash (settings page)
    ByteBase,                          \* number of byte values (256)
    FlashMayFail                       \* may the controller report an error?

FlashAddr == BOOTLOADER_START .. FLASH_END
AppAddr == APP_FLASH_START .. APP_FLASH_END
Byte == 0 .. ByteBase - 1
Erased == ByteBase - 1

(* flash_if.h: the regions follow one another, and the application region   *)
(* is a whole number of pages of an even size.                              *)
ASSUME GeometryAssumption ==
    /\ FLASH_PAGE_SIZE \in Nat \ {0}
    /\ FLASH_PAGE_SIZE % 2 = 0
    /\ BOOTLOADER_START \in Nat
    /\ BOOTLOADER_END \in Nat
    /\ APP_FLASH_START \in Nat
    /\ APP_FLASH_END \in Nat
    /\ FLASH_END \in Nat
    /\ BOOTLOADER_START <= BOOTLOADER_END
    /\ BOOTLOADER_END < APP_FLASH_START
    /\ APP_FLASH_START <= APP_FLASH_END
    /\ APP_FLASH_END <= FLASH_END
    /\ APP_FLASH_START % FLASH_PAGE_SIZE = 0
    /\ (APP_FLASH_END + 1) % FLASH_PAGE_SIZE = 0

ASSUME ByteAssumption == ByteBase \in Nat /\ ByteBase >= 2

ASSUME FlashMayFailAssumption == FlashMayFail \in BOOLEAN

VARIABLE flash  \* [FlashAddr -> Byte], the main flash array

Flash == [FlashAddr -> Byte]

-----------------------------------------------------------------------------
(* Variants of the operators below with a plausible slip in each.  No       *)
(* specification uses them: they are substituted for the original to see    *)
(* that a property notices.                                                 *)

OnlyBootloaderRejected(a) == ~(a >= BOOTLOADER_START /\ a <= BOOTLOADER_END)
PageBaseUnaligned(a) == a
HalfWordsTruncated(len) == len \div 2

-----------------------------------------------------------------------------
(* Addresses.                                                               *)

flash_is_address_valid(a) ==
    /\ ~(a >= BOOTLOADER_START /\ a <= BOOTLOADER_END)
    /\ a >= APP_FLASH_START
    /\ a <= APP_FLASH_END

(* address &= ~(FLASH_PAGE_SIZE - 1) *)
PageBase(a) == a - (a % FLASH_PAGE_SIZE)

Page(a) == PageBase(a) .. (PageBase(a) + FLASH_PAGE_SIZE - 1)

-----------------------------------------------------------------------------
(* Erasing a page.                                                          *)

ErasePage(a) == [b \in FlashAddr |-> IF b \in Page(a) THEN Erased ELSE flash[b]]

flash_erase_page(a, ret) ==
    \/ /\ ~flash_is_address_valid(a)
       /\ ret = -1
       /\ UNCHANGED flash
    \/ /\ flash_is_address_valid(a)
       /\ ret = 0
       /\ flash' = ErasePage(a)
    \/ /\ flash_is_address_valid(a)
       /\ FlashMayFail
       /\ ret = -1
       /\ UNCHANGED flash

-----------------------------------------------------------------------------
(* Programming.  The loop programs one half-word at a time and leaves at    *)
(* the first error, so what it has done is always a prefix.                 *)

HalfWords(len) == (len + 1) \div 2

(* data, with the odd tail padded by the erased value: the byte at offset i *)
ByteAt(data, i) == IF i < Len(data) THEN data[i + 1] ELSE Erased

(* flash after the first k half-words of data have been programmed at a *)
Programmed(a, data, k) ==
    [b \in FlashAddr |->
        IF b >= a /\ b < a + 2 * k THEN ByteAt(data, b - a) ELSE flash[b]]

Programmable(a, i) == flash[a + 2 * i] = Erased /\ flash[a + 2 * i + 1] = Erased

RangeValid(a, len) ==
    /\ flash_is_address_valid(a)
    /\ flash_is_address_valid(a + len - 1)

(* A half-word store to an odd address is a bus fault, not an error code.   *)
flash_write_faults(a, data) ==
    /\ Len(data) > 0
    /\ RangeValid(a, Len(data))
    /\ a % 2 = 1

flash_write(a, data, ret) ==
    \/ /\ Len(data) = 0
       /\ ret = 0
       /\ UNCHANGED flash
    \/ /\ Len(data) > 0
       /\ ~RangeValid(a, Len(data))
       /\ ret = -1
       /\ UNCHANGED flash
    \/ /\ Len(data) > 0
       /\ RangeValid(a, Len(data))
       /\ a % 2 = 0
       /\ \E k \in 0 .. HalfWords(Len(data)) :
             /\ \A i \in 0 .. k - 1 : Programmable(a, i)
             /\ flash' = Programmed(a, data, k)
             /\ \/ k = HalfWords(Len(data)) /\ ret = 0
                \/ /\ k < HalfWords(Len(data))
                   /\ FlashMayFail \/ ~Programmable(a, k)
                   /\ ret = -1

-----------------------------------------------------------------------------
(* The contract these operations are there to keep.                         *)
Contract == INSTANCE FlashContract
=============================================================================
