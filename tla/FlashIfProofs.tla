---------------------------- MODULE FlashIfProofs ----------------------------
(* Facts about the flash driver for every geometry that satisfies           *)
(* GeometryAssumption: what the range checks of flash_if.c guarantee.       *)
EXTENDS FlashIf, TLAPS

-----------------------------------------------------------------------------
(* Arithmetic.                                                              *)

LEMMA DivMod ==
    ASSUME NEW a \in Nat, NEW m \in Nat \ {0}
    PROVE  /\ a = m * (a \div m) + (a % m)
           /\ a \div m \in Nat
           /\ a % m \in 0 .. m - 1
  OBVIOUS

LEMMA MultipleOfEven ==
    ASSUME NEW n \in Nat, NEW m \in Nat \ {0}, m % 2 = 0, n % m = 0
    PROVE  n % 2 = 0
  <1> DEFINE h == m \div 2
             q == n \div m
  <1>1. m = 2 * h /\ h \in Nat
    OBVIOUS
  <1>2. n = m * q /\ q \in Nat
    BY DivMod
  <1>3. n = 2 * (h * q) /\ h * q \in Nat
    BY <1>1, <1>2
  <1> HIDE DEF h, q
  <1> QED BY <1>3

(* The first byte of the page of a is a page boundary at or below a, and    *)
(* above every boundary that is at or below a.                              *)
LEMMA PageBaseProperties ==
    ASSUME NEW a \in Nat
    PROVE  /\ PageBase(a) \in Nat
           /\ PageBase(a) <= a
           /\ a < PageBase(a) + FLASH_PAGE_SIZE
           /\ PageBase(a) = FLASH_PAGE_SIZE * (a \div FLASH_PAGE_SIZE)
           /\ PageBase(a) % FLASH_PAGE_SIZE = 0
  <1> DEFINE m == FLASH_PAGE_SIZE
             q == a \div m
  <1>1. m \in Nat \ {0}
    BY GeometryAssumption
  <1>2. a = m * q + (a % m) /\ q \in Nat /\ a % m \in 0 .. m - 1
    BY <1>1, DivMod
  <1>3. m * q \in Nat
    BY <1>1, <1>2
  <1>4. PageBase(a) = m * q
    BY <1>1, <1>2, <1>3 DEF PageBase
  <1>5. (m * q) % m = 0
    <2> HIDE DEF q
    <2> QED BY <1>1, <1>2
  <1> QED BY <1>1, <1>2, <1>3, <1>4, <1>5

(* A boundary at or below a is at or below the page of a; a boundary above  *)
(* a is above the whole page.                                               *)
LEMMA PageBetweenBoundaries ==
    ASSUME NEW a \in Nat, NEW s \in Nat, s % FLASH_PAGE_SIZE = 0
    PROVE  /\ s <= a => s <= PageBase(a)
           /\ a < s  => PageBase(a) + FLASH_PAGE_SIZE <= s
  <1> DEFINE m == FLASH_PAGE_SIZE
             q == a \div m
             t == s \div m
  <1>1. m \in Nat \ {0}
    BY GeometryAssumption
  <1>2. PageBase(a) = m * q /\ PageBase(a) <= a /\ a < PageBase(a) + m
    BY PageBaseProperties
  <1>3. s = m * t /\ t \in Nat /\ q \in Nat
    BY <1>1, DivMod
  <1> HIDE DEF m, q, t
  <1>4. ASSUME s <= a PROVE s <= PageBase(a)
    <2>1. m * t < m * (q + 1)
      BY <1>1, <1>2, <1>3, <1>4
    <2>2. t < q + 1
      BY <1>1, <1>3, <2>1
    <2>3. m * t <= m * q
      BY <1>1, <1>3, <2>2
    <2> QED BY <1>2, <1>3, <2>3
  <1>5. ASSUME a < s PROVE PageBase(a) + m <= s
    <2>1. m * q < m * t
      BY <1>1, <1>2, <1>3, <1>5
    <2>2. q + 1 <= t
      BY <1>1, <1>3, <2>1
    <2>3. m * (q + 1) <= m * t
      BY <1>1, <1>3, <2>2
    <2> QED BY <1>1, <1>2, <1>3, <2>3
  <1> QED BY <1>4, <1>5 DEF m

LEMMA ValidAddress ==
    ASSUME NEW a \in Int
    PROVE  flash_is_address_valid(a) <=> a \in AppAddr
  BY GeometryAssumption DEF flash_is_address_valid, AppAddr

-----------------------------------------------------------------------------
(* The erased page of a valid address lies in the application region.       *)
LEMMA PageOfValidAddress ==
    ASSUME NEW a \in Int, flash_is_address_valid(a)
    PROVE  /\ PageBase(a) \in Contract!AppPages
           /\ Page(a) \subseteq AppAddr
  <1>1. a \in Nat /\ APP_FLASH_START <= a /\ a < APP_FLASH_END + 1
    BY ValidAddress, GeometryAssumption DEF AppAddr
  <1>2. /\ APP_FLASH_START <= PageBase(a)
        /\ PageBase(a) + FLASH_PAGE_SIZE <= APP_FLASH_END + 1
    BY <1>1, PageBetweenBoundaries, GeometryAssumption
  <1>3. /\ PageBase(a) \in Nat
        /\ PageBase(a) % FLASH_PAGE_SIZE = 0
    BY <1>1, PageBaseProperties
  <1> QED BY <1>2, <1>3, GeometryAssumption
          DEF Contract!AppPages, Contract!AppAddr, AppAddr, Page

(* The half-words of a valid write lie in the application region: an odd    *)
(* tail is padded within it, because the region ends on an odd address.     *)
LEMMA HalfWordsInRegion ==
    ASSUME NEW a \in Int, NEW len \in Nat \ {0}, RangeValid(a, len), a % 2 = 0,
           NEW b \in Int, b >= a, b < a + 2 * HalfWords(len)
    PROVE  b \in AppAddr
  <1>1. /\ a \in Nat
        /\ APP_FLASH_START <= a
        /\ a + len - 1 <= APP_FLASH_END
    BY ValidAddress, GeometryAssumption DEF RangeValid, AppAddr
  <1>2. (APP_FLASH_END + 1) % 2 = 0
    <2>1. /\ APP_FLASH_END + 1 \in Nat
          /\ FLASH_PAGE_SIZE \in Nat \ {0}
          /\ FLASH_PAGE_SIZE % 2 = 0
          /\ (APP_FLASH_END + 1) % FLASH_PAGE_SIZE = 0
      BY GeometryAssumption
    <2> QED BY ONLY <2>1, MultipleOfEven
  <1>3. a + 2 * HalfWords(len) <= APP_FLASH_END + 1 /\ HalfWords(len) \in Nat
    BY <1>1, <1>2, GeometryAssumption DEF HalfWords
  <1> QED BY <1>1, <1>3, GeometryAssumption DEF AppAddr

-----------------------------------------------------------------------------
(* Both operations keep flash well typed.                                   *)

LEMMA EraseType ==
    ASSUME flash \in Flash, NEW a, NEW ret, flash_erase_page(a, ret)
    PROVE  flash' \in Flash
  BY ByteAssumption DEF flash_erase_page, ErasePage, Flash, Byte, Erased

LEMMA WriteType ==
    ASSUME flash \in Flash, NEW a \in Int, NEW data \in Seq(Byte), NEW ret,
           flash_write(a, data, ret)
    PROVE  flash' \in Flash
  <1>1. CASE UNCHANGED flash
    BY <1>1
  <1>2. ASSUME NEW k \in 0 .. HalfWords(Len(data)), flash' = Programmed(a, data, k)
        PROVE  flash' \in Flash
    <2>1. ASSUME NEW i \in Int, i >= 0 PROVE ByteAt(data, i) \in Byte
      BY <2>1, ByteAssumption DEF ByteAt, Byte, Erased
    <2>2. ASSUME NEW b \in FlashAddr
          PROVE  (IF b >= a /\ b < a + 2 * k THEN ByteAt(data, b - a) ELSE flash[b]) \in Byte
      BY <2>1, GeometryAssumption DEF Flash, FlashAddr
    <2> QED BY <1>2, <2>2 DEF Programmed, Flash
  <1> QED BY <1>1, <1>2 DEF flash_write

(* An erase is a step of the contract.                                      *)
LEMMA EraseKeepsContract ==
    ASSUME NEW a \in Int, NEW ret, flash_erase_page(a, ret)
    PROVE  Contract!ErasePage \/ UNCHANGED flash
  <1>1. CASE flash_is_address_valid(a) /\ flash' = ErasePage(a)
    <2>1. PageBase(a) \in Contract!AppPages
      BY <1>1, PageOfValidAddress
    <2>2. PageBase(a) \in Int /\ FLASH_PAGE_SIZE \in Int
      BY <2>1, GeometryAssumption DEF Contract!AppPages, Contract!AppAddr
    <2>3. ASSUME NEW b \in FlashAddr
          PROVE  b \in Page(a) <=> b >= PageBase(a) /\ b < PageBase(a) + FLASH_PAGE_SIZE
      BY <2>2, GeometryAssumption DEF Page, FlashAddr
    <2>4. flash' = [b \in FlashAddr |->
                      IF b >= PageBase(a) /\ b < PageBase(a) + FLASH_PAGE_SIZE
                      THEN Erased ELSE flash[b]]
      BY <1>1, <2>3 DEF ErasePage
    <2> QED BY <2>1, <2>4
            DEF Contract!ErasePage, Contract!FlashAddr, Contract!Erased, FlashAddr, Erased
  <1> QED BY <1>1 DEF flash_erase_page

(* So is a write, and every prefix of one.                                  *)
LEMMA WriteKeepsContract ==
    ASSUME flash \in Flash, NEW a \in Int, NEW data \in Seq(Byte), NEW ret,
           flash_write(a, data, ret)
    PROVE  Contract!ProgramErased \/ UNCHANGED flash
  <1>1. CASE UNCHANGED flash
    BY <1>1
  <1>2. ASSUME Len(data) > 0, RangeValid(a, Len(data)), a % 2 = 0,
               NEW k \in 0 .. HalfWords(Len(data)),
               \A i \in 0 .. k - 1 : Programmable(a, i),
               flash' = Programmed(a, data, k)
        PROVE  Contract!ProgramErased
    <2>1. flash' \in [FlashAddr -> Byte]
      BY WriteType DEF Flash
    <2>2. ASSUME NEW b \in FlashAddr, flash'[b] # flash[b]
          PROVE  b \in AppAddr /\ flash[b] = Erased
      <3>1. b \in Int /\ b >= a /\ b < a + 2 * k
        BY <1>2, <2>2, GeometryAssumption DEF Programmed, FlashAddr
      <3>2. Len(data) \in Nat /\ HalfWords(Len(data)) \in Nat /\ k \in Nat
        BY <1>2 DEF HalfWords
      <3>3. b \in AppAddr
        BY <1>2, <3>1, <3>2, HalfWordsInRegion
      <3>4. PICK i \in 0 .. k - 1 : b = a + 2 * i \/ b = a + 2 * i + 1
        <4> DEFINE j == (b - a) \div 2
        <4>1. j \in 0 .. k - 1 /\ (b = a + 2 * j \/ b = a + 2 * j + 1)
          BY <3>1, <3>2
        <4> QED BY <4>1
      <3> QED BY <1>2, <3>3, <3>4 DEF Programmable
    <2> QED BY <2>1, <2>2
            DEF Contract!ProgramErased, Contract!FlashAddr, Contract!AppAddr,
                Contract!Erased, FlashAddr, AppAddr, Byte, Erased
  <1> QED BY <1>1, <1>2 DEF flash_write
-----------------------------------------------------------------------------
(* An operation that returns 0 has done all it was asked to; whatever it    *)
(* returns, it has done nothing elsewhere.                                  *)

LEMMA EraseCompletes ==
    ASSUME NEW a \in Int, flash_erase_page(a, 0)
    PROVE  \A b \in Page(a) : flash'[b] = Erased
  <1>1. flash_is_address_valid(a) /\ flash' = ErasePage(a)
    BY DEF flash_erase_page
  <1>2. Page(a) \subseteq FlashAddr
    BY <1>1, PageOfValidAddress, GeometryAssumption DEF AppAddr, FlashAddr
  <1> QED BY <1>1, <1>2 DEF ErasePage

LEMMA EraseTouchesPage ==
    ASSUME NEW a, NEW ret, flash_erase_page(a, ret), NEW b \in FlashAddr \ Page(a)
    PROVE  flash'[b] = flash[b]
  BY DEF flash_erase_page, ErasePage

LEMMA WriteCompletes ==
    ASSUME NEW a \in Int, NEW data \in Seq(Byte), Len(data) > 0, flash_write(a, data, 0)
    PROVE  \A i \in 1 .. Len(data) : flash'[a + i - 1] = data[i]
  <1>1. /\ RangeValid(a, Len(data))
        /\ a % 2 = 0
        /\ flash' = Programmed(a, data, HalfWords(Len(data)))
    BY DEF flash_write
  <1>2. TAKE i \in 1 .. Len(data)
  <1> DEFINE b == a + i - 1
  <1>3. /\ b \in Int /\ b >= a /\ b - a = i - 1
        /\ b < a + 2 * HalfWords(Len(data))
    BY DEF HalfWords
  <1>4. b \in FlashAddr
    BY <1>1, <1>3, HalfWordsInRegion, GeometryAssumption DEF AppAddr, FlashAddr
  <1>5. flash'[b] = ByteAt(data, i - 1)
    BY <1>1, <1>3, <1>4 DEF Programmed
  <1>6. ByteAt(data, i - 1) = data[i]
    BY DEF ByteAt
  <1> QED BY <1>5, <1>6

LEMMA WriteTouchesRange ==
    ASSUME NEW a \in Int, NEW data \in Seq(Byte), NEW ret, flash_write(a, data, ret),
           NEW b \in FlashAddr, b < a \/ b >= a + 2 * HalfWords(Len(data))
    PROVE  flash'[b] = flash[b]
  <1>1. CASE UNCHANGED flash
    BY <1>1
  <1>2. ASSUME NEW k \in 0 .. HalfWords(Len(data)), flash' = Programmed(a, data, k)
        PROVE  flash'[b] = flash[b]
    <2>1. HalfWords(Len(data)) \in Nat /\ k \in Nat /\ b \in Int
      BY GeometryAssumption DEF HalfWords, FlashAddr
    <2>2. b < a \/ b >= a + 2 * k
      BY <1>2, <2>1
    <2> QED BY <1>2, <2>1, <2>2 DEF Programmed
  <1> QED BY <1>1, <1>2 DEF flash_write
=============================================================================
