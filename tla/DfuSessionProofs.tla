-------------------------- MODULE DfuSessionProofs --------------------------
(* Theorems about DfuSession: for every image, geometry, block size, packet *)
(* size and number of faults that its assumptions allow, the device serves  *)
(* a conforming host and begins to manifest only with the image in flash;   *)
(* and a session is one of the behaviours of UsbDfu.                        *)
EXTENDS DfuSession, FlashIfProofs, SequenceTheorems

-----------------------------------------------------------------------------
(* Where the blocks of the image are.                                       *)

LEMMA SizeTypes ==
    /\ DFU_XFER_SIZE \in Nat /\ DFU_XFER_SIZE >= 5 /\ DFU_XFER_SIZE % 2 = 0
    /\ FLASH_PAGE_SIZE \in Nat \ {0}
    /\ EP0_MAX_SIZE \in Nat \ {0}
    /\ AddrLimit \in Nat
    /\ Len(Image) \in Nat \ {0}
    /\ APP_FLASH_START \in Nat
    /\ APP_FLASH_START > 0
    /\ APP_FLASH_END \in Nat
  BY SizeAssumption, LayoutAssumption, GeometryAssumption, ImageAssumption

LEMMA MultipleOfMultiple ==
    ASSUME NEW n \in Nat, NEW m \in Nat \ {0}, NEW d \in Nat \ {0}, m % d = 0, n % m = 0
    PROVE  /\ n = d * (n \div d)
           /\ n \div d \in Nat
  <1> DEFINE h == m \div d
             q == n \div m
             r == n \div d
  <1>1. m = d * h /\ h \in Nat
    BY DivMod
  <1>2. n = m * q /\ q \in Nat
    BY DivMod
  <1>3. n = d * (h * q) /\ h * q \in Nat
    BY <1>1, <1>2
  <1>4. n = d * r + (n % d) /\ r \in Nat /\ n % d \in 0 .. d - 1
    BY DivMod
  <1> DEFINE e == h * q
  <1>5. n = d * e /\ e \in Nat
    BY <1>3
  <1> HIDE DEF h, q, r, e
  <1>6. (d * e) % d = 0
    BY <1>5
  <1>7. n % d = 0
    BY <1>5, <1>6
  <1> QED BY <1>4, <1>7 DEF r

(* A block is aligned, in the region, below the top of the address space    *)
(* and in one page.                                                         *)
LEMMA BlockPlace ==
    ASSUME NEW i \in 1 .. Len(Image)
    PROVE  /\ BlockStart(i) \in Nat
           /\ BlockStart(i) % 2 = 0
           /\ APP_FLASH_START <= BlockStart(i)
           /\ BlockStart(i) + DFU_XFER_SIZE <= APP_FLASH_END + 1
           /\ BlockStart(i) < AddrLimit
           /\ BlockPage(i) \in Nat
           /\ BlockPage(i) <= BlockStart(i)
           /\ BlockStart(i) + DFU_XFER_SIZE <= BlockPage(i) + FLASH_PAGE_SIZE
           /\ BlockPage(i) % FLASH_PAGE_SIZE = 0
  <1> DEFINE X == DFU_XFER_SIZE
             P == FLASH_PAGE_SIZE
             a == BlockStart(i)
             u == APP_FLASH_START \div X
             h == P \div X
  <1>1. X \in Nat \ {0} /\ P \in Nat \ {0} /\ P % X = 0 /\ X % 2 = 0
        /\ APP_FLASH_START \in Nat /\ APP_FLASH_START % P = 0
    BY SizeTypes, LayoutAssumption, GeometryAssumption
  <1>2. APP_FLASH_START = X * u /\ u \in Nat
    BY <1>1, MultipleOfMultiple
  <1>3. P = X * h /\ h \in Nat
    <2>1. P = X * h + (P % X) /\ h \in Nat
      BY <1>1, DivMod
    <2> QED BY <1>1, <2>1
  <1>4. i \in Nat /\ i >= 1 /\ i <= Len(Image) /\ Len(Image) \in Nat
    BY SizeTypes
  <1> DEFINE k == u + (i - 1)
  <1>5. a = X * k /\ k \in Nat /\ a \in Nat
    <2>1. a = X * u + (i - 1) * X
      BY <1>2 DEF BlockStart
    <2> HIDE DEF X, u, a
    <2>2. X * u + (i - 1) * X = X * (u + (i - 1))
      BY <1>1, <1>2, <1>4
    <2>3. k \in Nat /\ X * k \in Nat
      BY <1>1, <1>2, <1>4
    <2> QED BY <2>1, <2>2, <2>3
  <1>6. APP_FLASH_START <= a
    <2> HIDE DEF X
    <2>1. (i - 1) * X \in Nat
      BY <1>1, <1>4
    <2> QED BY <1>1, <2>1 DEF BlockStart, X
  <1>7. a + X <= APP_FLASH_END + 1
    <2>1. APP_FLASH_START + Len(Image) * X <= APP_FLASH_END + 1
      BY LayoutAssumption
    <2>2. a = APP_FLASH_START + (i - 1) * X
      BY DEF BlockStart
    <2> HIDE DEF X, a
    <2>3. (i - 1) * X + X = i * X
      BY <1>1, <1>4
    <2>4. i * X <= Len(Image) * X /\ i * X \in Nat /\ Len(Image) * X \in Nat
      BY <1>1, <1>4
    <2>5. (i - 1) * X \in Int
      BY <1>1, <1>4
    <2>6. APP_FLASH_END \in Nat
      BY SizeTypes
    <2> QED BY <1>1, <2>1, <2>2, <2>3, <2>4, <2>5, <2>6
  <1>8. a < AddrLimit
    <2>1. APP_FLASH_END < AddrLimit /\ APP_FLASH_END \in Nat /\ AddrLimit \in Nat
      BY SizeAssumption, GeometryAssumption
    <2> HIDE DEF X, a, k
    <2> QED BY <1>1, <1>5, <1>7, <2>1
  <1>9. a % 2 = 0
    <2> DEFINE e == X \div 2
    <2>1. X = 2 * e /\ e \in Nat
      BY <1>1
    <2> HIDE DEF X, a, k, e
    <2>2. a = 2 * (e * k) /\ e * k \in Nat
      BY <1>5, <2>1
    <2> QED BY <2>2
  <1> DEFINE q == a \div P
             b == PageBase(a)
  <1>10. b \in Nat /\ b <= a /\ a < b + P /\ b = P * q /\ b % P = 0 /\ q \in Nat
    <2>1. q \in Nat
      BY <1>1, <1>5, DivMod
    <2> QED BY <1>5, <2>1, PageBaseProperties
  <1>11. a + X <= b + P
    <2> HIDE DEF X, P, a, b, u, h, k, q
    <2>1. b + P = X * (h * q + h) /\ h * q + h \in Nat
      BY <1>1, <1>3, <1>10
    <2>2. k < h * q + h
      BY <1>1, <1>5, <1>10, <2>1
    <2>3. X * (k + 1) <= X * (h * q + h)
      BY <1>1, <1>5, <2>1, <2>2
    <2> QED BY <1>1, <1>5, <2>1, <2>3
  <1> QED BY <1>5, <1>6, <1>7, <1>8, <1>9, <1>10, <1>11 DEF BlockPage

LEMMA BlocksApart ==
    ASSUME NEW i \in 1 .. Len(Image), NEW j \in 1 .. Len(Image), i < j
    PROVE  BlockStart(i) + DFU_XFER_SIZE <= BlockStart(j)
  <1>1. DFU_XFER_SIZE \in Nat /\ APP_FLASH_START \in Nat
    BY SizeTypes
  <1>2. (i - 1) * DFU_XFER_SIZE + DFU_XFER_SIZE = i * DFU_XFER_SIZE
    BY <1>1
  <1>3. i * DFU_XFER_SIZE <= (j - 1) * DFU_XFER_SIZE
    BY <1>1
  <1>4. /\ (i - 1) * DFU_XFER_SIZE \in Int
        /\ i * DFU_XFER_SIZE \in Int
        /\ (j - 1) * DFU_XFER_SIZE \in Int
    BY <1>1
  <1> QED BY <1>1, <1>2, <1>3, <1>4 DEF BlockStart

LEMMA BlockType ==
    ASSUME NEW i \in 1 .. Len(Image)
    PROVE  Image[i] \in Seq(Byte) /\ Len(Image[i]) \in 1 .. DFU_XFER_SIZE
  BY ImageAssumption, SizeTypes

(* Block i is not touched by an erase of another page, nor by a write of    *)
(* another block.                                                           *)
LEMMA EraseKeepsHeld ==
    ASSUME NEW i \in 1 .. Len(Image), NEW p \in ImagePages, NEW ret,
           p # BlockPage(i), flash_erase_page(p, ret), Holds(i)
    PROVE  Holds(i)'
  <1> SUFFICES ASSUME NEW j \in 1 .. Len(Image[i])
               PROVE  flash'[BlockStart(i) + j - 1] = flash[BlockStart(i) + j - 1]
    BY DEF Holds
  <1> DEFINE b == BlockStart(i) + j - 1
             P == FLASH_PAGE_SIZE
             o == BlockPage(i)
  <1>1. j \in 1 .. DFU_XFER_SIZE /\ DFU_XFER_SIZE \in Nat
    BY BlockType, SizeTypes
  <1>2. b \in Nat /\ o \in Nat /\ o <= b /\ b < o + P /\ o % P = 0
        /\ APP_FLASH_START <= b /\ b <= APP_FLASH_END /\ P \in Nat \ {0}
    <2> DEFINE a == BlockStart(i)
    <2>1. o % P = 0
      BY BlockPlace
    <2>2. /\ a \in Nat /\ o \in Nat /\ o <= a /\ a + DFU_XFER_SIZE <= o + P
          /\ APP_FLASH_START <= a /\ a + DFU_XFER_SIZE <= APP_FLASH_END + 1
      BY BlockPlace
    <2>3. P \in Nat \ {0} /\ APP_FLASH_START \in Nat /\ APP_FLASH_END \in Nat
      BY SizeTypes
    <2>4. b = a + j - 1
      OBVIOUS
    <2> HIDE DEF a, b, o, P
    <2>5. b \in Nat /\ o <= b /\ b < o + P /\ APP_FLASH_START <= b /\ b <= APP_FLASH_END
      BY <1>1, <2>2, <2>3, <2>4
    <2> QED BY <2>1, <2>2, <2>3, <2>5
  <1>3. p \in Nat /\ p % P = 0
    BY BlockPlace DEF ImagePages
  <1>4. PageBase(p) = p
    BY <1>2, <1>3 DEF PageBase
  <1>5. b \in FlashAddr
    BY <1>2, GeometryAssumption DEF FlashAddr
  <1>6. b \notin Page(p)
    <2> DEFINE m == o \div P
               n == p \div P
    <2> HIDE DEF o, P, b
    <2>1. o = P * m /\ p = P * n /\ m \in Nat /\ n \in Nat
      <3>1. /\ o = P * m + (o % P) /\ m \in Nat
            /\ p = P * n + (p % P) /\ n \in Nat
        BY <1>2, <1>3, DivMod
      <3> HIDE DEF m, n
      <3> QED BY <1>2, <1>3, <3>1
    <2> HIDE DEF m, n
    <2>2. CASE n < m
      <3>1. P * (n + 1) <= P * m
        BY <1>2, <2>1, <2>2
      <3>2. p + P <= o
        BY <1>2, <2>1, <3>1
      <3> QED BY <1>2, <1>3, <1>4, <3>2 DEF Page, P
    <2>3. CASE m < n
      <3>1. P * (m + 1) <= P * n
        BY <1>2, <2>1, <2>3
      <3>2. o + P <= p
        BY <1>2, <2>1, <3>1
      <3> QED BY <1>2, <1>3, <1>4, <3>2 DEF Page, P
    <2>4. m # n
      BY <2>1 DEF o
    <2> QED BY <2>1, <2>2, <2>3, <2>4
  <1> QED BY <1>5, <1>6, EraseTouchesPage

LEMMA WriteKeepsHeld ==
    ASSUME NEW i \in 1 .. Len(Image), NEW j \in 1 .. Len(Image), i < j, NEW ret,
           flash_write(BlockStart(j), Image[j], ret), Holds(i)
    PROVE  Holds(i)'
  <1> SUFFICES ASSUME NEW k \in 1 .. Len(Image[i])
               PROVE  flash'[BlockStart(i) + k - 1] = flash[BlockStart(i) + k - 1]
    BY DEF Holds
  <1> DEFINE b == BlockStart(i) + k - 1
  <1>1. k \in 1 .. DFU_XFER_SIZE /\ DFU_XFER_SIZE \in Nat
    BY BlockType, SizeTypes
  <1>2. b \in Nat /\ APP_FLASH_START <= b /\ b <= APP_FLASH_END /\ BlockStart(j) \in Nat
    <2> DEFINE a == BlockStart(i)
    <2>1. /\ a \in Nat /\ BlockStart(j) \in Nat
          /\ APP_FLASH_START <= a /\ a + DFU_XFER_SIZE <= APP_FLASH_END + 1
      BY BlockPlace
    <2>2. APP_FLASH_START \in Nat /\ APP_FLASH_END \in Nat
      BY SizeTypes
    <2>3. \A m, n, size, first, last \in Nat :
             n \in 1 .. size /\ first <= m /\ m + size <= last + 1
             => m + n - 1 \in Nat /\ first <= m + n - 1 /\ m + n - 1 <= last
      OBVIOUS
    <2> HIDE DEF a
    <2>4. a + k - 1 \in Nat /\ APP_FLASH_START <= a + k - 1 /\ a + k - 1 <= APP_FLASH_END
      BY <1>1, <2>1, <2>2, <2>3
    <2> QED BY <2>1, <2>4 DEF a
  <1>3. b < BlockStart(j)
    <2>1. BlockStart(i) + DFU_XFER_SIZE <= BlockStart(j) /\ BlockStart(i) \in Nat
      BY BlocksApart, BlockPlace
    <2> QED BY <1>1, <1>2, <2>1
  <1>4. b \in FlashAddr
    BY <1>2, GeometryAssumption DEF FlashAddr
  <1> HIDE DEF b
  <1>5. flash'[b] = flash[b]
    BY <1>2, <1>3, <1>4, BlockType, WriteTouchesRange
  <1> QED BY <1>5 DEF b

-----------------------------------------------------------------------------
(* The host's commands are what the device decodes.                         *)

LEMMA DivUnique ==
    ASSUME NEW a \in Nat, NEW m \in Nat \ {0}, NEW q \in Nat, NEW r \in 0 .. m - 1,
           a = m * q + r
    PROVE  a \div m = q
  <1> DEFINE t == a \div m
             s == a % m
  <1>1. a = m * t + s /\ t \in Nat /\ s \in 0 .. m - 1
    BY DivMod
  <1> HIDE DEF t, s
  <1>2. ASSUME t < q PROVE FALSE
    <2>1. m * (t + 1) <= m * q
      BY <1>1, <1>2
    <2> QED BY <1>1, <2>1
  <1>3. ASSUME q < t PROVE FALSE
    <2>1. m * (q + 1) <= m * t
      BY <1>1, <1>3
    <2> QED BY <1>1, <2>1
  <1> QED BY <1>1, <1>2, <1>3 DEF t

LEMMA DivDiv ==
    ASSUME NEW a \in Nat, NEW m \in Nat \ {0}, NEW n \in Nat \ {0}
    PROVE  a \div (m * n) = (a \div m) \div n
  <1> DEFINE q == a \div m
             r == a % m
             t == q \div n
             s == q % n
  <1>1. a = m * q + r /\ q \in Nat /\ r \in 0 .. m - 1
    BY DivMod
  <1>2. q = n * t + s /\ t \in Nat /\ s \in 0 .. n - 1
    <2> HIDE DEF q
    <2> QED BY <1>1, DivMod
  <1> DEFINE u == m * s + r
             k == m * n
  <1> HIDE DEF q, r, t, s
  <1>3. k \in Nat \ {0}
    OBVIOUS
  <1>4. u \in 0 .. k - 1
    <2>1. m * s <= m * (n - 1) /\ m * s \in Nat
      BY <1>2
    <2>2. m * (n - 1) = k - m
      OBVIOUS
    <2> HIDE DEF k
    <2> QED BY <1>1, <1>2, <1>3, <2>1, <2>2
  <1>5. a = k * t + u
    <2>1. m * q = m * (n * t) + m * s
      BY <1>2
    <2>2. m * (n * t) = k * t
      BY <1>2
    <2>3. m * q \in Int /\ m * s \in Int /\ k * t \in Int
      BY <1>1, <1>2, <1>3
    <2> HIDE DEF k
    <2> QED BY <1>1, <2>1, <2>2, <2>3
  <1> HIDE DEF k, u
  <1>6. a \div k = t
    BY <1>2, <1>3, <1>4, <1>5, DivUnique
  <1> QED BY <1>6 DEF k, t, q

LEMMA FourBytes ==
    ASSUME NEW a \in Addr
    PROVE  /\ LittleEndian(a) \in Seq(Byte)
           /\ Len(LittleEndian(a)) = 4
           /\ LittleEndian(a)[1] + ByteBase * (LittleEndian(a)[2]
                + ByteBase * (LittleEndian(a)[3] + ByteBase * LittleEndian(a)[4])) = a
  <1> DEFINE B == ByteBase
             q1 == a \div B
             q2 == a \div (B * B)
             q3 == a \div (B * B * B)
  <1>1. B \in Nat \ {0} /\ a \in Nat /\ a < B * B * B * B
    BY ByteAssumption, LayoutAssumption, SizeAssumption DEF Addr
  <1>2. B * B \in Nat \ {0} /\ B * B * B \in Nat \ {0}
    <2> HIDE DEF B
    <2>1. B * B \in Nat \ {0}
      BY <1>1
    <2> QED BY <1>1, <2>1
  <1>3. a = B * q1 + (a % B) /\ q1 \in Nat /\ a % B \in 0 .. B - 1
    BY <1>1, DivMod
  <1>4. q2 = q1 \div B
    BY <1>1, DivDiv
  <1>5. q1 = B * q2 + (q1 % B) /\ q2 \in Nat /\ q1 % B \in 0 .. B - 1
    <2> HIDE DEF B, q1, q2
    <2> QED BY <1>1, <1>3, <1>4, DivMod
  <1>6. q3 = q2 \div B
    BY <1>1, <1>2, DivDiv
  <1>7. q2 = B * q3 + (q2 % B) /\ q3 \in Nat /\ q2 % B \in 0 .. B - 1
    <2> HIDE DEF B, q2, q3
    <2> QED BY <1>1, <1>5, <1>6, DivMod
  <1>8. q3 % B = q3
    <2> DEFINE C == B * B * B
    <2>1. a = C * q3 + (a % C) /\ a % C \in Nat
      <3>1. q3 = a \div C /\ C \in Nat \ {0}
        BY <1>2
      <3>2. a = C * (a \div C) + (a % C) /\ a % C \in 0 .. C - 1
        <4> HIDE DEF C, q3
        <4> QED BY <1>1, <3>1, DivMod
      <3> HIDE DEF C, q3
      <3> QED BY <3>1, <3>2
    <2>2. a < C * B
      BY <1>1
    <2>3. a >= C * q3
      <3>1. C * q3 \in Int
        BY <1>2, <1>7
      <3> HIDE DEF C, q3
      <3> QED BY <1>1, <2>1, <3>1
    <2>4. q3 < B
      <3>1. C \in Nat \ {0}
        BY <1>2
      <3> HIDE DEF C, q3, B
      <3> QED BY <1>1, <1>7, <2>2, <2>3, <3>1
    <2> HIDE DEF q3, B
    <2> QED BY <1>1, <1>7, <2>4
  <1> DEFINE b == LittleEndian(a)
  <1>9. b = <<a % B, q1 % B, q2 % B, q3>>
    BY <1>8 DEF LittleEndian
  <1>10. a % B \in Byte /\ q1 % B \in Byte /\ q2 % B \in Byte /\ q3 \in Byte
    <2>1. q3 \in 0 .. B - 1
      <3>1. q3 % B \in 0 .. B - 1
        <4> HIDE DEF q3, B
        <4> QED BY <1>1, <1>7, DivMod
      <3> QED BY <1>8, <3>1
    <2> QED BY <1>3, <1>5, <1>7, <2>1 DEF Byte
  <1> HIDE DEF q1, q2, q3, B, b
  <1>11. b \in Seq(Byte) /\ Len(b) = 4
    BY <1>9, <1>10
  <1>12. b[1] = a % B /\ b[2] = q1 % B /\ b[3] = q2 % B /\ b[4] = q3
    BY <1>9
  <1>13. b[1] + B * (b[2] + B * (b[3] + B * b[4])) = a
    <2>1. b[3] + B * b[4] = q2
      <3>1. B * q3 \in Int /\ q2 % B \in Int
        BY <1>1, <1>7
      <3> QED BY <1>7, <1>12, <3>1
    <2>2. b[2] + B * q2 = q1
      <3>1. B * q2 \in Int /\ q1 % B \in Int
        BY <1>1, <1>5
      <3> QED BY <1>5, <1>12, <3>1
    <2>3. b[1] + B * q1 = a
      <3>1. B * q1 \in Int /\ a % B \in Int
        BY <1>1, <1>3
      <3> QED BY <1>3, <1>12, <3>1
    <2> QED BY <2>1, <2>2, <2>3
  <1> QED BY <1>11, <1>13 DEF b, B

(* A command sent as its code and the four bytes of its operand.            *)
LEMMA CommandDecoded ==
    ASSUME NEW op \in Byte, NEW a \in Addr
    PROVE  /\ <<op>> \o LittleEndian(a) \in Seq(Byte)
           /\ Len(<<op>> \o LittleEndian(a)) = 5
           /\ (<<op>> \o LittleEndian(a))[1] = op
           /\ DecodeCommand(<<op>> \o LittleEndian(a)) = [op |-> op, arg |-> a]
  <1> DEFINE b == LittleEndian(a)
             c == <<op>>
             data == c \o b
  <1>1. b \in Seq(Byte) /\ Len(b) = 4
        /\ b[1] + ByteBase * (b[2] + ByteBase * (b[3] + ByteBase * b[4])) = a
    BY FourBytes
  <1>2. U32(a) = a
    <2>1. AddrLimit \in Nat /\ a \in Nat /\ a < AddrLimit
      BY SizeTypes DEF Addr
    <2> QED BY <2>1 DEF U32
  <1> HIDE DEF b
  <1>3. c \in Seq(Byte) /\ Len(c) = 1 /\ c[1] = op
    OBVIOUS
  <1> HIDE DEF c
  <1>4. /\ data \in Seq(Byte) /\ Len(data) = 5
        /\ \A i \in 1 .. 5 : data[i] = IF i <= 1 THEN c[i] ELSE b[i - 1]
    <2>1. b \in Seq(Byte) /\ c \in Seq(Byte) /\ Len(c) + Len(b) = 5
      BY <1>1, <1>3
    <2>2. /\ data \in Seq(Byte)
          /\ Len(data) = Len(c) + Len(b)
          /\ \A i \in 1 .. Len(c) + Len(b) : data[i] = IF i <= Len(c) THEN c[i] ELSE b[i - Len(c)]
      BY <2>1, ConcatProperties
    <2> HIDE DEF data
    <2> QED BY <1>3, <2>1, <2>2
  <1> HIDE DEF data
  <1>5. data[1] = op /\ data[2] = b[1] /\ data[3] = b[2] /\ data[4] = b[3] /\ data[5] = b[4]
    BY <1>3, <1>4
  <1>6. DecodeCommand(data) = [op |-> op, arg |-> a]
    BY <1>1, <1>2, <1>4, <1>5 DEF DecodeCommand
  <1> QED BY <1>4, <1>5, <1>6 DEF data, b, c

(* The steps a host may take.                                               *)
LEMMA StepData ==
    ASSUME SessionTypeOK, NEW s \in Choices
    PROVE  /\ s.data \in Seq(Byte)
           /\ Len(s.data) \in 1 .. DFU_XFER_SIZE
           /\ s.block = 0 =>
                 /\ s.data[1] \in {DFUSE_CMD_SET_ADDRESS, DFUSE_CMD_ERASE_PAGE}
                 /\ s.data[1] = DFUSE_CMD_SET_ADDRESS => s.page = -1
                 /\ s.data[1] = DFUSE_CMD_ERASE_PAGE =>
                       s.page # -1 /\ s.page \in ImagePages \ erased
                 /\ DecodeCommand(s.data)
                      = [op |-> s.data[1],
                         arg |-> IF s.page = -1 THEN APP_FLASH_START ELSE s.page]
           /\ s.block # 0 =>
                 /\ acked + 1 \in 1 .. Len(Image)
                 /\ BlockPage(acked + 1) \in erased
                 /\ s = DataStep(acked + 1)
                 /\ s.block = acked + 2
                 /\ s.data = Image[acked + 1]
                 /\ s.page = -1
  <1>1. CASE s = SetAddressStep
    <2>1. s.block = 0 /\ s.page = -1
          /\ s.data = <<DFUSE_CMD_SET_ADDRESS>> \o LittleEndian(APP_FLASH_START)
      BY <1>1 DEF SetAddressStep
    <2>2. APP_FLASH_START \in Addr /\ DFUSE_CMD_SET_ADDRESS \in Byte
      BY CommandAssumption, GeometryAssumption, SizeAssumption DEF Addr
    <2>3. /\ s.data \in Seq(Byte) /\ Len(s.data) = 5
          /\ s.data[1] = DFUSE_CMD_SET_ADDRESS
          /\ DecodeCommand(s.data) = [op |-> DFUSE_CMD_SET_ADDRESS, arg |-> APP_FLASH_START]
      BY <2>1, <2>2, CommandDecoded
    <2> QED BY <2>1, <2>3, SizeTypes, CommandAssumption
  <1>2. CASE \E p \in ImagePages \ erased : s = EraseStep(p)
    <2>1. PICK p \in ImagePages \ erased : s = EraseStep(p)
      BY <1>2
    <2>2. s.block = 0 /\ s.page = p /\ s.data = <<DFUSE_CMD_ERASE_PAGE>> \o LittleEndian(p)
      BY <2>1 DEF EraseStep
    <2>3. p \in Nat /\ p \in Addr
      <3>1. PICK i \in 1 .. Len(Image) : p = BlockPage(i)
        BY DEF ImagePages
      <3>2. p \in Nat /\ p <= BlockStart(i) /\ BlockStart(i) < AddrLimit
            /\ BlockStart(i) \in Nat /\ AddrLimit \in Nat
        BY <3>1, BlockPlace, SizeTypes
      <3> QED BY <3>2 DEF Addr
    <2>4. DFUSE_CMD_ERASE_PAGE \in Byte
      BY CommandAssumption
    <2>5. /\ s.data \in Seq(Byte) /\ Len(s.data) = 5
          /\ s.data[1] = DFUSE_CMD_ERASE_PAGE
          /\ DecodeCommand(s.data) = [op |-> DFUSE_CMD_ERASE_PAGE, arg |-> p]
      BY <2>2, <2>3, <2>4, CommandDecoded
    <2>6. p # -1
      BY <2>3
    <2>7. Len(s.data) \in 1 .. DFU_XFER_SIZE
      BY <2>5, SizeTypes
    <2> QED BY <2>2, <2>5, <2>6, <2>7, CommandAssumption
  <1>3. CASE /\ acked + 1 \in 1 .. Len(Image)
             /\ BlockPage(acked + 1) \in erased
             /\ s = DataStep(acked + 1)
    <2>1. s.block = acked + 2 /\ s.data = Image[acked + 1] /\ s.page = -1 /\ acked \in Nat
      BY <1>3, SizeTypes DEF DataStep, SessionTypeOK
    <2>2. s.data \in Seq(Byte) /\ Len(s.data) \in 1 .. DFU_XFER_SIZE
      BY <1>3, <2>1, BlockType
    <2>3. s.block # 0
      BY <2>1
    <2> QED BY <1>3, <2>1, <2>2, <2>3
  <1> QED BY <1>1, <1>2, <1>3 DEF Choices

-----------------------------------------------------------------------------
(* The inductive invariant.                                                 *)

(* What the device holds when it has received step s, whose data is block i *)
(* if it has any: the command or the data, all of it, and nothing else.     *)
Pending(s, i) ==
    IF s.block = 0
    THEN /\ dfuse_cmd = [op |-> s.data[1], arg |-> IF s.page = -1 THEN APP_FLASH_START
                                                                  ELSE s.page]
         /\ dfu_buffer = <<>>
    ELSE /\ dfuse_cmd = NoCommand
         /\ dfu_buffer = s.data
         /\ dfu_address = BlockStart(i)

(* While the data of the step is on its way: a prefix of it is here.        *)
Receiving ==
    /\ dfu_state = "DNLOAD_SYNC"
    /\ dfuse_cmd = NoCommand
    /\ block_num = step.block
    /\ xfer_len = Len(step.data)
    /\ step.block # 0 => dfu_address = BlockStart(acked + 1)
    /\ ctl.left \in 1 .. Len(step.data)
    /\ dfu_buffer = SubSeq(step.data, 1, Len(step.data) - ctl.left)

(* What is true of the device in each phase of the host.                    *)
InStep ==
    /\ phase = "ready" => /\ dfu_state \in {"IDLE", "DNLOAD_IDLE"}
                          /\ acked > 0 => dfu_state = "DNLOAD_IDLE"
                          /\ dfuse_cmd = NoCommand
    /\ phase = "send" => Receiving
    /\ phase = "status" => dfu_state = "DNLOAD_SYNC" /\ Pending(step, acked + 1)
    /\ phase = "poll" =>
          \/ dfu_state \in {"DNLOAD_SYNC", "DNBUSY"} /\ Pending(step, acked + 1)
          \/ /\ dfu_state = "DNLOAD_IDLE"
             /\ dfuse_cmd = NoCommand
             /\ step.block # 0 => Holds(acked + 1)
    /\ phase = "manifest" => /\ dfu_state \in {"MANIFEST_SYNC", "MANIFEST_WAIT_RESET"}
                             /\ acked = Len(Image)
    /\ phase = "clear" => dfu_state = "ERROR" /\ dfuse_cmd = NoCommand
    /\ phase = "done" => dfu_state = "IDLE" /\ acked = Len(Image)

SessionInv ==
    /\ SessionTypeOK
    /\ flash \in Flash
    /\ dfuse_address_ptr = APP_FLASH_START
    /\ ConformingHostServed
    /\ dfu_state # "ERROR" => dfu_status = "OK"
    /\ phase \in {"send", "status", "poll"} => step \in Choices
    /\ \A i \in 1 .. acked : BlockPage(i) \in erased /\ Holds(i)
    /\ InStep

-----------------------------------------------------------------------------
(* The invariant is inductive: the host's requests.                         *)

LEMMA ReplyKinds ==
    /\ Reply("nak").kind # "stall"
    /\ Reply("zlp").kind # "stall"
    /\ Reply("data").kind # "stall"
  BY DEF Reply

(* Whatever sets the device back to dfuIDLE and the host to the beginning.  *)
LEMMA FreshStart ==
    ASSUME SessionInv, StartOver, faults' \in 0 .. MaxFaults,
           UNCHANGED flash, dfuse_address_ptr' = APP_FLASH_START,
           dfu_state' = "IDLE", dfu_status' = "OK", dfuse_cmd' = NoCommand,
           ~hung', ep0_tx'.kind # "stall"
    PROVE  SessionInv'
  <1>1. /\ phase' = "ready" /\ step' = NoStep /\ addressed' = FALSE
        /\ erased' = {} /\ acked' = 0
    BY DEF StartOver
  <1>2. SessionTypeOK'
    <2>1. acked' \in 0 .. Len(Image)
      BY <1>1, SizeTypes
    <2> QED BY <1>1, <2>1 DEF SessionTypeOK
  <1>3. InStep'
    BY <1>1 DEF InStep
  <1>4. ConformingHostServed'
    BY DEF ConformingHostServed
  <1>5. \A i \in 1 .. acked' : BlockPage(i)' \in erased' /\ Holds(i)'
    BY <1>1
  <1> QED BY <1>1, <1>2, <1>3, <1>4, <1>5 DEF SessionInv

LEMMA StepDnload == SessionInv /\ host_dnload => SessionInv'
  <1> SUFFICES ASSUME SessionInv, host_dnload PROVE SessionInv'
    OBVIOUS
  <1>1. /\ phase = "ready" /\ phase' = "send"
        /\ UNCHANGED <<addressed, erased, acked, faults>>
    BY DEF host_dnload
  <1>2. PICK s \in Choices : handle_dfu_dnload(s.block, Len(s.data)) /\ step' = s
    BY DEF host_dnload
  <1>3. /\ SessionTypeOK /\ dfuse_cmd = NoCommand /\ dfuse_address_ptr = APP_FLASH_START
        /\ dfu_status = "OK" /\ flash \in Flash /\ ~hung
    BY <1>1 DEF SessionInv, InStep, ConformingHostServed
  <1>4. /\ s.data \in Seq(Byte)
        /\ Len(s.data) \in 1 .. DFU_XFER_SIZE
        /\ s.block # 0 => /\ s.block = acked + 2
                          /\ acked + 1 \in 1 .. Len(Image)
    BY <1>3, StepData
  <1>5. s.block # 1 /\ ReadyForDnload /\ acked \in Nat
    <2>1. acked \in Nat
      BY <1>3, SizeTypes DEF SessionTypeOK
    <2>2. s.block # 1
      BY <1>4, <2>1
    <2> QED BY <1>1, <2>1, <2>2 DEF SessionInv, InStep, ReadyForDnload
  <1>6. DnloadAccepted(s.block, Len(s.data))
    <2>1. ~(Len(s.data) = 0) /\ ~(Len(s.data) > DFU_XFER_SIZE)
      BY <1>4, SizeTypes
    <2> QED BY <1>2, <1>5, <2>1 DEF handle_dfu_dnload, DnloadOversize, DnloadRefused
  <1>7. /\ ctl' = [left |-> Len(s.data), accepted |-> TRUE]
        /\ ep0_tx' = Reply("nak")
        /\ block_num' = s.block
        /\ xfer_len' = Len(s.data)
        /\ dfu_buffer' = <<>>
        /\ dfu_address' = DownloadAddress(s.block)
        /\ dfu_state' = "DNLOAD_SYNC" /\ dfu_status' = "OK"
        /\ UNCHANGED <<dfuse_cmd, dfuse_address_ptr, hung, flash>>
    BY <1>3, <1>6 DEF DnloadAccepted, handle_setup, Enter, cmdVars
  <1>8. s.block # 0 => DownloadAddress(s.block) = BlockStart(acked + 1)
    <2> SUFFICES ASSUME s.block # 0 PROVE BlockAddress(s.block) = BlockStart(acked + 1)
      BY <1>4, <1>5 DEF DownloadAddress
    <2> DEFINE a == BlockStart(acked + 1)
    <2>1. a \in Nat /\ a < AddrLimit /\ AddrLimit \in Nat
      BY <1>4, BlockPlace, SizeTypes
    <2>2. (s.block - 2) * DFU_XFER_SIZE = acked * DFU_XFER_SIZE
      BY <1>4, <1>5
    <2>3. dfuse_address_ptr + (s.block - 2) * DFU_XFER_SIZE = a
      <3>1. acked + 1 - 1 = acked
        BY <1>5
      <3>2. a = APP_FLASH_START + acked * DFU_XFER_SIZE
        BY <1>5, <3>1, SizeTypes DEF BlockStart
      <3>3. dfuse_address_ptr = APP_FLASH_START
        BY <1>3
      <3> QED BY <2>2, <3>2, <3>3
    <2> HIDE DEF a
    <2>4. a % AddrLimit = a
      BY <2>1
    <2>5. BlockAddress(s.block) = a
      BY <2>3, <2>4 DEF BlockAddress, U32
    <2> QED BY <2>5 DEF a
  <1>9. Receiving'
    <2>1. ctl'.left = Len(s.data)
      BY <1>7
    <2>2. SubSeq(s.data, 1, Len(s.data) - Len(s.data)) = <<>>
      BY <1>4, SubSeqEmpty
    <2> QED BY <1>1, <1>2, <1>3, <1>4, <1>7, <1>8, <2>1, <2>2 DEF Receiving, BlockStart
  <1>10. SessionTypeOK'
    <2>1. s \in {NoStep, SetAddressStep} \cup {EraseStep(p) : p \in ImagePages}
                \cup {DataStep(i) : i \in 1 .. Len(Image)}
      BY DEF Choices
    <2> QED BY <1>1, <1>2, <1>3, <2>1 DEF SessionTypeOK
  <1>11. step' \in Choices'
    <2>1. Choices' = Choices
      BY <1>1 DEF Choices
    <2> QED BY <1>2, <2>1
  <1>12. ConformingHostServed'
    BY <1>1, <1>3, <1>7, ReplyKinds DEF ConformingHostServed
  <1>13. \A i \in 1 .. acked' : BlockPage(i)' \in erased' /\ Holds(i)'
    BY <1>1, <1>7 DEF SessionInv, Holds, BlockPage, BlockStart
  <1>14. InStep'
    BY <1>1, <1>9 DEF InStep
  <1> QED BY <1>1, <1>3, <1>7, <1>10, <1>11, <1>12, <1>13, <1>14 DEF SessionInv

(* The packet the host sends is the next piece of the data.                 *)
LEMMA PacketBytes ==
    ASSUME step.data \in Seq(Byte), ctl.left \in 1 .. Len(step.data)
    PROVE  LET sent == Len(step.data) - ctl.left
           IN  /\ PacketSize \in 1 .. ctl.left
               /\ SubSeq(NextPacket, 1, PacketSize)
                    = SubSeq(step.data, sent + 1, sent + PacketSize)
               /\ Len(SubSeq(NextPacket, 1, PacketSize)) = PacketSize
  <1> DEFINE d == step.data
             L == Len(d)
             sent == L - ctl.left
             p == PacketSize
             u == SubSeq(NextPacket, 1, p)
             v == SubSeq(d, sent + 1, sent + p)
  <1>1. /\ p \in 1 .. ctl.left /\ p \in 1 .. EP0_MAX_SIZE
        /\ L \in Nat /\ ctl.left \in 1 .. L /\ sent \in Nat /\ sent + p <= L
    <2>1. L \in Nat /\ EP0_MAX_SIZE \in Nat \ {0}
      BY SizeTypes
    <2> HIDE DEF L
    <2>2. p \in 1 .. ctl.left /\ p \in 1 .. EP0_MAX_SIZE
      BY <2>1 DEF PacketSize, L
    <2> HIDE DEF p
    <2> QED BY <2>1, <2>2 DEF L
  <1>2. \A i \in 1 .. p : NextPacket[i] = d[sent + i] /\ d[sent + i] \in Byte
    <2> TAKE i \in 1 .. p
    <2>1. i \in 1 .. EP0_MAX_SIZE /\ sent + i <= L /\ sent + i \in 1 .. L
      <3> HIDE DEF p, L, sent
      <3> QED BY <1>1, SizeTypes
    <2>2. NextPacket[i] = IF sent + i <= L THEN d[sent + i] ELSE 0
      BY <2>1 DEF NextPacket
    <2>3. d[sent + i] \in Byte
      <3> HIDE DEF sent
      <3> QED BY <2>1
    <2> QED BY <2>1, <2>2, <2>3
  <1>3. u \in Seq(Byte) /\ Len(u) = p /\ \A i \in 1 .. p : u[i] = NextPacket[i]
    <2>1. \A i \in 1 .. p : NextPacket[i] \in Byte
      BY <1>2
    <2>2. p \in Nat /\ p >= 1
      BY <1>1
    <2> HIDE DEF p
    <2> QED BY <2>1, <2>2, SubSeqProperties
  <1>4. v \in Seq(Byte) /\ Len(v) = p /\ \A i \in 1 .. p : v[i] = d[sent + i]
    <2>1. \A i \in sent + 1 .. sent + p : d[i] \in Byte
      <3> TAKE i \in sent + 1 .. sent + p
      <3>1. i - sent \in 1 .. p /\ sent + (i - sent) = i
        <4> HIDE DEF sent, p
        <4> QED BY <1>1
      <3> QED BY <1>2, <3>1
    <2>2. p \in Nat /\ p >= 1 /\ sent \in Nat
      BY <1>1
    <2> HIDE DEF p, d, sent
    <2> QED BY <2>1, <2>2, SubSeqProperties
  <1>5. u = v
    <2> HIDE DEF u, v, p, sent
    <2> QED BY <1>2, <1>3, <1>4, SeqEqual
  <1> QED BY <1>1, <1>3, <1>5

LEMMA StepOutData == SessionInv /\ host_data => SessionInv'
  <1> SUFFICES ASSUME SessionInv, host_data PROVE SessionInv'
    OBVIOUS
  <1> DEFINE d == step.data
             L == Len(d)
             sent == L - ctl.left
             p == PacketSize
             u == SubSeq(NextPacket, 1, p)
  <1>1. /\ phase = "send" /\ OutPacket(NextPacket)
        /\ phase' = IF ctl'.left = 0 THEN "status" ELSE "send"
        /\ UNCHANGED <<step, addressed, erased, acked, faults>>
    BY DEF host_data
  <1>2. /\ SessionTypeOK /\ flash \in Flash /\ step \in Choices /\ ~hung
        /\ Receiving /\ dfuse_address_ptr = APP_FLASH_START /\ dfu_status = "OK"
        /\ ep0_tx.kind # "stall"
    BY <1>1 DEF SessionInv, InStep, ConformingHostServed, Receiving
  <1>3. /\ d \in Seq(Byte) /\ L \in 1 .. DFU_XFER_SIZE
        /\ step.block = 0 => DecodeCommand(d) =
              [op |-> d[1], arg |-> IF step.page = -1 THEN APP_FLASH_START ELSE step.page]
    BY <1>2, StepData
  <1>4. /\ ctl.left \in 1 .. L
        /\ xfer_len = L
        /\ dfu_buffer = SubSeq(d, 1, sent)
        /\ block_num = step.block
    BY <1>2 DEF Receiving
  <1>5. p \in 1 .. ctl.left /\ u = SubSeq(d, sent + 1, sent + p) /\ Len(u) = p
    BY <1>3, <1>4, PacketBytes
  <1>6. sent \in Nat /\ sent + p \in 1 .. L /\ ctl.left - p = L - (sent + p)
    <2>1. L \in Nat /\ ctl.left \in 1 .. L /\ p \in 1 .. ctl.left
      BY <1>3, <1>4, <1>5, SizeTypes
    <2> HIDE DEF L, p
    <2> QED BY <2>1
  <1>7. Received(u) = SubSeq(d, 1, sent + p) /\ Len(Received(u)) = sent + p
    <2>1. Len(dfu_buffer) = sent
      <3> HIDE DEF sent, p
      <3> QED BY <1>3, <1>4, <1>6, SubSeqProperties
    <2>2. dfu_buffer \o u = SubSeq(d, 1, sent + p)
      <3> HIDE DEF sent, p, u
      <3>1. 1 \in 1 .. Len(d) + 1 /\ sent \in 1 - 1 .. Len(d) /\ sent + p \in sent .. Len(d)
        <4>1. Len(d) = L /\ L \in Nat /\ p \in Nat
          BY <1>3, <1>4, <1>5, SizeTypes
        <4> HIDE DEF L, d
        <4> QED BY <1>6, <4>1
      <3>2. SubSeq(d, 1, sent) \o SubSeq(d, sent + 1, sent + p) = SubSeq(d, 1, sent + p)
        BY <1>3, <3>1, ConcatAdjacentSubSeq
      <3> QED BY <1>4, <1>5, <3>2
    <2>3. sent + p <= DFU_XFER_SIZE
      <3> HIDE DEF sent, p
      <3> QED BY <1>3, <1>6, SizeTypes
    <2>4. Received(u) = dfu_buffer \o u
      <3> HIDE DEF sent, p, u
      <3> QED BY <1>5, <2>1, <2>3 DEF Received
    <2>5. Len(SubSeq(d, 1, sent + p)) = sent + p
      <3> HIDE DEF sent, p
      <3> QED BY <1>3, <1>6, SubSeqProperties
    <2> QED BY <2>2, <2>4, <2>5
  <1>8. /\ handle_ep0_out(u)
        /\ ctl'.left = ctl.left - p
        /\ UNCHANGED <<dfu_state, dfu_status, dfu_address, block_num, xfer_len,
                       dfuse_address_ptr, hung, flash>>
    BY <1>1, <1>4 DEF OutPacket
  <1>9. /\ dfu_state' = "DNLOAD_SYNC"
        /\ dfu_status' = "OK"
        /\ dfuse_address_ptr' = APP_FLASH_START
        /\ flash' = flash
        /\ step.block # 0 => dfu_address' = BlockStart(acked + 1)
    BY <1>2, <1>8 DEF Receiving
  <1>10. ep0_tx'.kind # "stall"
    BY <1>2, <1>8, ReplyKinds DEF handle_ep0_out, ep0_send_zlp
  <1>11. ConformingHostServed'
    <2>1. ~hung'
      BY <1>2, <1>8
    <2> QED BY <1>9, <1>10, <2>1 DEF ConformingHostServed
  <1>12. SessionTypeOK'
    <2>1. phase' \in {"status", "send"}
      BY <1>1
    <2> QED BY <1>1, <1>2, <2>1 DEF SessionTypeOK
  <1>13. step' \in Choices'
    BY <1>1, <1>2 DEF Choices
  <1>14. \A i \in 1 .. acked' : BlockPage(i)' \in erased' /\ Holds(i)'
    BY <1>1, <1>9 DEF SessionInv, Holds, BlockPage, BlockStart
  <1>15. InStep'
    <2>1. CASE ctl'.left > 0
      <3>1. Len(Received(u)) < xfer_len /\ ~(Len(Received(u)) >= xfer_len)
        <4>1. ctl.left - p > 0
          BY <1>8, <2>1
        <4> HIDE DEF p, sent, u
        <4> QED BY <1>4, <1>5, <1>6, <1>7, <4>1, SizeTypes
      <3>2. dfu_buffer' = Received(u) /\ UNCHANGED dfuse_cmd
        <4> HIDE DEF u
        <4> QED BY <1>8, <1>9, <3>1 DEF handle_ep0_out
      <3>3. ctl'.left \in 1 .. L /\ L - ctl'.left = sent + p
        <4>1. L \in Nat /\ ctl.left \in 1 .. L /\ p \in 1 .. ctl.left
          BY <1>3, <1>4, <1>5, SizeTypes
        <4> HIDE DEF L, p
        <4> QED BY <1>8, <2>1, <4>1
      <3>4. Receiving'
        <4> HIDE DEF p, sent, u
        <4> QED BY <1>1, <1>2, <1>4, <1>7, <1>8, <1>9, <3>2, <3>3
                DEF Receiving, BlockStart
      <3>5. phase' = "send"
        BY <1>1, <2>1
      <3> QED BY <3>4, <3>5 DEF InStep
    <2>2. CASE ~(ctl'.left > 0)
      <3>1. ctl.left - p = 0 /\ ctl'.left = 0 /\ sent + p = L
        <4>1. L \in Nat /\ ctl.left \in 1 .. L /\ p \in 1 .. ctl.left
          BY <1>3, <1>4, <1>5, SizeTypes
        <4> HIDE DEF L, p
        <4> QED BY <1>8, <2>2, <4>1
      <3>2. Received(u) = d
        <4> HIDE DEF p, sent, u
        <4> QED BY <1>3, <1>7, <3>1, SubSeqFull
      <3>3. ~(Len(Received(u)) < xfer_len)
        <4> HIDE DEF p, sent, u
        <4> QED BY <1>3, <1>4, <3>2
      <3>4. IF step.block = 0
            THEN dfuse_cmd' = DecodeCommand(d) /\ dfu_buffer' = <<>>
            ELSE dfu_buffer' = d /\ UNCHANGED dfuse_cmd
        <4> HIDE DEF d, u
        <4> QED BY <1>4, <1>8, <1>9, <3>2, <3>3 DEF handle_ep0_out
      <3>5. Pending(step, acked + 1)'
        BY <1>1, <1>2, <1>3, <1>9, <3>4 DEF Pending, Receiving, BlockStart
      <3>6. phase' = "status"
        BY <1>1, <3>1
      <3> QED BY <1>9, <3>5, <3>6 DEF InStep
    <2> QED BY <2>1, <2>2
  <1> QED BY <1>1, <1>9, <1>2, <1>11, <1>12, <1>13, <1>14, <1>15 DEF SessionInv

LEMMA StepStatusStage == SessionInv /\ host_status_stage => SessionInv'
  <1> SUFFICES ASSUME SessionInv, host_status_stage PROVE SessionInv'
    OBVIOUS
  <1>1. /\ phase = "status" /\ phase' = "poll"
        /\ UNCHANGED <<step, addressed, erased, acked, faults>>
        /\ UNCHANGED <<flash, dfu_state, dfu_status, dfu_address, dfu_buffer, dfuse_cmd,
                       dfuse_address_ptr, ep0_tx, hung>>
    BY DEF host_status_stage, vars, dfuVars, cmdVars, busVars
  <1>2. SessionTypeOK'
    BY <1>1 DEF SessionInv, SessionTypeOK
  <1>3. ConformingHostServed'
    BY <1>1 DEF SessionInv, ConformingHostServed
  <1>4. step' \in Choices'
    BY <1>1 DEF SessionInv, Choices
  <1>5. \A i \in 1 .. acked' : BlockPage(i)' \in erased' /\ Holds(i)'
    BY <1>1 DEF SessionInv, Holds, BlockPage, BlockStart
  <1>6. InStep'
    BY <1>1 DEF SessionInv, InStep, Pending, BlockStart
  <1>7. /\ flash' \in Flash
        /\ dfuse_address_ptr' = APP_FLASH_START
        /\ dfu_state' # "ERROR" => dfu_status' = "OK"
    BY <1>1 DEF SessionInv
  <1> QED BY <1>1, <1>2, <1>3, <1>4, <1>5, <1>6, <1>7 DEF SessionInv

LEMMA StepEnd == SessionInv /\ host_end => SessionInv'
  <1> SUFFICES ASSUME SessionInv, host_end PROVE SessionInv'
    OBVIOUS
  <1>1. /\ phase = "ready" /\ acked = Len(Image) /\ phase' = "manifest"
        /\ UNCHANGED <<step, addressed, erased, acked, faults>>
        /\ handle_dfu_dnload(0, 0)
    BY DEF host_end
  <1>2. dfu_state = "DNLOAD_IDLE" /\ dfu_status = "OK"
    BY <1>1, SizeTypes DEF SessionInv, InStep
  <1>3. DnloadEnd
    <2>1. ~(0 > DFU_XFER_SIZE) /\ 0 \notin 1 .. DFU_XFER_SIZE
      BY SizeTypes
    <2> QED BY <1>1, <2>1 DEF handle_dfu_dnload, DnloadOversize, DnloadRefused, DnloadAccepted
  <1>4. /\ dfu_state' = "MANIFEST_SYNC"
        /\ ep0_tx' = Reply("zlp")
        /\ UNCHANGED <<dfu_status, dfuse_cmd, dfuse_address_ptr, hung, flash>>
    BY <1>2, <1>3 DEF DnloadEnd, Enter, ep0_send_zlp, cmdVars
  <1>5. SessionTypeOK'
    BY <1>1 DEF SessionInv, SessionTypeOK
  <1>6. ConformingHostServed'
    BY <1>1, <1>4, ReplyKinds DEF SessionInv, ConformingHostServed
  <1>7. \A i \in 1 .. acked' : BlockPage(i)' \in erased' /\ Holds(i)'
    BY <1>1, <1>4 DEF SessionInv, Holds, BlockPage, BlockStart
  <1>8. InStep'
    BY <1>1, <1>4 DEF InStep
  <1>9. /\ flash' \in Flash
        /\ dfuse_address_ptr' = APP_FLASH_START
        /\ dfu_state' # "ERROR" => dfu_status' = "OK"
    BY <1>2, <1>4 DEF SessionInv
  <1> QED BY <1>1, <1>5, <1>6, <1>7, <1>8, <1>9 DEF SessionInv

LEMMA StepClrstatus == SessionInv /\ host_clrstatus => SessionInv'
  <1> SUFFICES ASSUME SessionInv, host_clrstatus PROVE SessionInv'
    OBVIOUS
  <1>1. phase = "clear" /\ handle_dfu_clrstatus /\ StartOver /\ UNCHANGED faults
    BY DEF host_clrstatus
  <1>2. dfu_state = "ERROR" /\ dfuse_cmd = NoCommand
    BY <1>1 DEF SessionInv, InStep
  <1>3. /\ dfu_state' = "IDLE" /\ dfu_status' = "OK" /\ ep0_tx' = Reply("zlp")
        /\ UNCHANGED <<dfuse_cmd, dfuse_address_ptr, hung, flash>>
    BY <1>1, <1>2 DEF handle_dfu_clrstatus, ep0_send_zlp, cmdVars
  <1>4. /\ faults' \in 0 .. MaxFaults /\ dfuse_address_ptr' = APP_FLASH_START
        /\ dfuse_cmd' = NoCommand
    BY <1>1, <1>2, <1>3 DEF SessionInv, SessionTypeOK
  <1>5. ~hung'
    BY <1>3 DEF SessionInv, ConformingHostServed
  <1> QED BY <1>1, <1>3, <1>4, <1>5, ReplyKinds, FreshStart

-----------------------------------------------------------------------------
(* GETSTATUS while the host polls a download step.                          *)

(* What it leaves of step s, whose data is block n if it has any.           *)
PollOutcome(s, n) ==
    /\ flash' \in Flash
    /\ dfuse_address_ptr' = APP_FLASH_START
    /\ ep0_tx'.kind # "stall"
    /\ \A i \in 1 .. n - 1 : Holds(i)'
    /\ \/ dfu_state' = "DNBUSY" /\ dfu_status' = "OK" /\ Pending(s, n)'
       \/ /\ dfu_state' = "DNLOAD_IDLE" /\ dfu_status' = "OK" /\ dfuse_cmd' = NoCommand
          /\ s.block # 0 => Holds(n)'
       \/ /\ dfu_state' = "ERROR" /\ dfu_status' \in {"ERR_ERASE", "ERR_WRITE"}
          /\ dfuse_cmd' = NoCommand

LEMMA PollStep ==
    ASSUME SessionInv, phase = "poll", handle_dfu_getstatus,
           NEW CONSTANT s, s = step, NEW CONSTANT n, n = acked + 1
    PROVE  PollOutcome(s, n) /\ ~hung'
  <1>1. /\ SessionTypeOK /\ flash \in Flash /\ s \in Choices
        /\ dfuse_address_ptr = APP_FLASH_START
        /\ \/ dfu_state \in {"DNLOAD_SYNC", "DNBUSY"} /\ Pending(s, n)
           \/ /\ dfu_state = "DNLOAD_IDLE" /\ dfuse_cmd = NoCommand
              /\ s.block # 0 => Holds(n)
    BY DEF SessionInv, InStep
  <1>2. dfu_status = "OK"
    BY <1>1 DEF SessionInv
  <1>3. /\ s.data \in Seq(Byte) /\ Len(s.data) \in 1 .. DFU_XFER_SIZE
        /\ s.block = 0 =>
              /\ s.data[1] \in {DFUSE_CMD_SET_ADDRESS, DFUSE_CMD_ERASE_PAGE}
              /\ s.data[1] = DFUSE_CMD_SET_ADDRESS => s.page = -1
              /\ s.data[1] = DFUSE_CMD_ERASE_PAGE =>
                    s.page # -1 /\ s.page \in ImagePages \ erased
        /\ s.block # 0 => n \in 1 .. Len(Image) /\ s.data = Image[n]
    BY <1>1, StepData
  <1>4. acked \in 0 .. Len(Image) /\ n - 1 = acked /\ n \in Nat
    BY <1>1, SizeTypes DEF SessionTypeOK
  <1>5. \A i \in 1 .. n - 1 : i \in 1 .. Len(Image) /\ i < n /\ BlockPage(i) \in erased /\ Holds(i)
    <2>1. \A i \in 1 .. acked : BlockPage(i) \in erased /\ Holds(i)
      BY DEF SessionInv
    <2>2. \A i \in 1 .. n - 1 : i \in 1 .. acked /\ i \in 1 .. Len(Image) /\ i < n
      BY <1>4, SizeTypes
    <2> QED BY <2>1, <2>2
  <1>6. ~hung
    BY DEF SessionInv, ConformingHostServed
  <1>7. /\ DFUSE_CMD_SET_ADDRESS # DFUSE_CMD_ERASE_PAGE
        /\ DFUSE_CMD_SET_ADDRESS # 0 /\ DFUSE_CMD_ERASE_PAGE # 0
        /\ NoCommand.op = 0
    BY CommandAssumption DEF NoCommand
  (* The states in which the step is still to be done. *)
  <1>8. ASSUME dfu_state \in {"DNLOAD_SYNC", "DNBUSY"}
        PROVE  /\ s.block = 0 => /\ dfuse_cmd.op = s.data[1] /\ dfuse_cmd.op # 0
                                 /\ dfuse_cmd.arg = IF s.page = -1 THEN APP_FLASH_START
                                                                   ELSE s.page
               /\ s.block # 0 => /\ dfuse_cmd = NoCommand /\ dfuse_cmd.op = 0
                                 /\ dfu_buffer = s.data /\ dfu_buffer # <<>>
                                 /\ dfu_address = BlockStart(n)
    <2>1. Pending(s, n)
      BY <1>1, <1>8
    <2>2. s.data # <<>>
      BY <1>3
    <2> QED BY <1>3, <1>7, <2>1, <2>2 DEF Pending
  <1>9. ASSUME UNCHANGED flash PROVE \A i \in 1 .. n - 1 : Holds(i)'
    BY <1>5, <1>9 DEF Holds
  <1>10. CASE GetStatusSync
    <2>1. /\ dfu_state = "DNLOAD_SYNC" /\ dfu_state' = "DNBUSY"
          /\ UNCHANGED <<dfu_status, dfuse_cmd, dfuse_address_ptr, dfu_buffer, dfu_address,
                         hung, flash>>
          /\ ep0_tx' = Reply("data")
      BY <1>10 DEF GetStatusSync, GetStatus, Enter, ep0_reply, cmdVars
    <2>2. Pending(s, n)'
      BY <1>1, <2>1 DEF Pending, BlockStart
    <2> QED BY <1>1, <1>2, <1>6, <1>9, <2>1, <2>2, ReplyKinds DEF PollOutcome
  <1>11. CASE ExecuteSetAddress
    <2>1. /\ dfu_state = "DNBUSY" /\ dfuse_cmd.op = DFUSE_CMD_SET_ADDRESS
          /\ dfuse_cmd' = NoCommand /\ ep0_tx' = Reply("data")
          /\ UNCHANGED <<hung, flash>>
      BY <1>11 DEF ExecuteSetAddress, GetStatus, ep0_reply
    <2>2. s.block = 0 /\ s.page = -1 /\ dfuse_cmd.arg = APP_FLASH_START
      BY <1>3, <1>7, <1>8, <2>1
    <2>3. dfuse_cmd.arg # NoArg
      BY <2>2, SizeTypes DEF NoArg
    <2>4. dfu_state' = "DNLOAD_IDLE" /\ dfu_status' = "OK" /\ dfuse_address_ptr' = APP_FLASH_START
      BY <1>2, <1>11, <2>2, <2>3 DEF ExecuteSetAddress, Enter
    <2> QED BY <1>1, <1>6, <1>9, <2>1, <2>2, <2>4, ReplyKinds DEF PollOutcome
  <1>12. CASE ExecuteErase
    <2>1. /\ dfu_state = "DNBUSY" /\ dfuse_cmd.op = DFUSE_CMD_ERASE_PAGE
          /\ dfuse_cmd' = NoCommand /\ ep0_tx' = Reply("data")
          /\ UNCHANGED <<hung, dfuse_address_ptr>>
      BY <1>12 DEF ExecuteErase, GetStatus, ep0_reply
    <2>2. /\ s.block = 0 /\ s.page \in ImagePages \ erased /\ dfuse_cmd.arg = s.page
          /\ s.page # -1
      BY <1>3, <1>7, <1>8, <2>1
    <2>3. PICK ret \in {-1, 0} :
             /\ flash_erase_page(s.page, ret)
             /\ \/ dfu_state' = "ERROR" /\ dfu_status' = "ERR_ERASE"
                \/ dfu_state' = "DNLOAD_IDLE" /\ dfu_status' = dfu_status
      BY <1>12, <2>2 DEF ExecuteErase, Enter, Fail, NoArg
    <2>4. flash' \in Flash
      BY <1>1, <2>3, EraseType
    <2>5. \A i \in 1 .. n - 1 : Holds(i)'
      <3> TAKE i \in 1 .. n - 1
      <3>1. s.page # BlockPage(i)
        BY <1>5, <2>2
      <3> QED BY <1>5, <2>2, <2>3, <3>1, EraseKeepsHeld
    <2> QED BY <1>1, <1>2, <1>6, <2>1, <2>2, <2>3, <2>4, <2>5, ReplyKinds DEF PollOutcome
  <1>13. ~ExecuteUnknown
    BY <1>3, <1>8 DEF ExecuteUnknown
  <1>14. ASSUME ExecuteProgram \/ ExecuteNothing \/ ExecuteFaults
         PROVE  /\ s.block # 0 /\ dfuse_cmd = NoCommand /\ n \in 1 .. Len(Image)
                /\ dfu_buffer = Image[n] /\ dfu_buffer # <<>> /\ dfu_address = BlockStart(n)
    <2>1. dfu_state = "DNBUSY" /\ dfuse_cmd.op = 0
      BY <1>14 DEF ExecuteProgram, ExecuteNothing, ExecuteFaults
    <2> QED BY <1>3, <1>8, <2>1
  <1>15. CASE ExecuteProgram
    <2>1. /\ dfuse_cmd' = dfuse_cmd /\ ep0_tx' = Reply("data")
          /\ UNCHANGED <<hung, dfuse_address_ptr>>
      BY <1>15 DEF ExecuteProgram, GetStatus, ep0_reply, cmdVars
    <2>2. \/ /\ flash_write(BlockStart(n), Image[n], -1)
             /\ dfu_state' = "ERROR" /\ dfu_status' = "ERR_WRITE"
          \/ /\ flash_write(BlockStart(n), Image[n], 0)
             /\ dfu_state' = "DNLOAD_IDLE" /\ dfu_status' = dfu_status
      BY <1>14, <1>15 DEF ExecuteProgram, Enter, Fail
    <2>3. PICK ret \in {-1, 0} : flash_write(BlockStart(n), Image[n], ret)
      BY <2>2
    <2>4. n \in 1 .. Len(Image) /\ BlockStart(n) \in Int
          /\ Image[n] \in Seq(Byte) /\ Len(Image[n]) > 0
      BY <1>14, <1>15, BlockPlace, BlockType
    <2>5. flash' \in Flash
      BY <1>1, <2>3, <2>4, WriteType
    <2>6. \A i \in 1 .. n - 1 : Holds(i)'
      BY <1>5, <2>3, <2>4, WriteKeepsHeld
    <2>7. ASSUME flash_write(BlockStart(n), Image[n], 0) PROVE Holds(n)'
      BY <2>4, <2>7, WriteCompletes DEF Holds, BlockStart
    <2>8. dfuse_cmd' = NoCommand
      BY <1>14, <1>15, <2>1
    <2> QED BY <1>1, <1>2, <1>6, <2>1, <2>2, <2>5, <2>6, <2>7, <2>8, ReplyKinds DEF PollOutcome
  <1>16. ~ExecuteNothing
    BY <1>14 DEF ExecuteNothing
  <1>17. ~ExecuteFaults
    <2> SUFFICES ASSUME ExecuteFaults PROVE FALSE
      OBVIOUS
    <2>1. dfu_address % 2 = 1
      BY DEF ExecuteFaults, flash_write_faults
    <2>2. BlockStart(n) % 2 = 0 /\ dfu_address = BlockStart(n)
      BY <1>14, BlockPlace
    <2> QED BY <2>1, <2>2
  <1>18. ~GetStatusManifest
    BY <1>1 DEF GetStatusManifest
  <1>19. CASE GetStatusReport
    <2>1. /\ dfu_state = "DNLOAD_IDLE"
          /\ UNCHANGED <<dfu_state, dfu_status, dfuse_cmd, dfuse_address_ptr, hung, flash>>
          /\ ep0_tx' = Reply("data")
      BY <1>1, <1>19 DEF GetStatusReport, GetStatus, ep0_reply, dfuVars, cmdVars
    <2>2. s.block # 0 => Holds(n)'
      BY <1>1, <2>1 DEF Holds, BlockStart
    <2> QED BY <1>1, <1>2, <1>6, <1>9, <2>1, <2>2, ReplyKinds DEF PollOutcome
  <1> QED BY <1>10, <1>11, <1>12, <1>13, <1>15, <1>16, <1>17, <1>18, <1>19
          DEF handle_dfu_getstatus

-----------------------------------------------------------------------------
(* What the host makes of it.                                               *)

(* The host learns that the step is over.                                   *)
LEMMA StepOver ==
    ASSUME SessionInv, phase = "poll", ~hung', StepDone, faults' = faults,
           NEW CONSTANT s, s = step, NEW CONSTANT n, n = acked + 1, PollOutcome(s, n),
           dfu_state' = "DNLOAD_IDLE"
    PROVE  SessionInv'
  <1>1. SessionTypeOK /\ s \in Choices
    BY DEF SessionInv
  <1>2. /\ phase' = "ready" /\ step' = NoStep
        /\ addressed' = (addressed \/ step = SetAddressStep)
        /\ erased' = IF s.page # -1 THEN erased \cup {s.page} ELSE erased
        /\ acked' = IF s.block # 0 THEN acked + 1 ELSE acked
    BY DEF StepDone
  <1>3. /\ s.block # 0 => n \in 1 .. Len(Image) /\ BlockPage(n) \in erased /\ s.page = -1
        /\ s.page # -1 => s.page \in ImagePages
    <2>1. s.block = 0 =>
              /\ s.data[1] \in {DFUSE_CMD_SET_ADDRESS, DFUSE_CMD_ERASE_PAGE}
              /\ s.data[1] = DFUSE_CMD_SET_ADDRESS => s.page = -1
              /\ s.data[1] = DFUSE_CMD_ERASE_PAGE => s.page \in ImagePages \ erased
      BY <1>1, StepData
    <2>2. s.block # 0 => n \in 1 .. Len(Image) /\ BlockPage(n) \in erased /\ s.page = -1
      BY <1>1, StepData
    <2> QED BY <2>1, <2>2
  <1>4. acked \in 0 .. Len(Image) /\ n - 1 = acked /\ n \in Nat
    BY <1>1, SizeTypes DEF SessionTypeOK
  <1>5. /\ flash' \in Flash /\ dfuse_address_ptr' = APP_FLASH_START
        /\ ep0_tx'.kind # "stall" /\ dfu_status' = "OK" /\ dfuse_cmd' = NoCommand
        /\ s.block # 0 => Holds(n)'
        /\ \A i \in 1 .. n - 1 : Holds(i)'
    BY DEF PollOutcome
  <1>6. SessionTypeOK'
    <2>1. acked' \in 0 .. Len(Image)
      BY <1>2, <1>3, <1>4
    <2>2. erased' \subseteq ImagePages
      BY <1>1, <1>2, <1>3 DEF SessionTypeOK
    <2>3. addressed' \in BOOLEAN
      BY <1>2
    <2> QED BY <1>1, <1>2, <2>1, <2>2, <2>3 DEF SessionTypeOK
  <1>7. ConformingHostServed'
    BY <1>5 DEF ConformingHostServed
  <1>8. \A i \in 1 .. acked' : BlockPage(i)' \in erased' /\ Holds(i)'
    <2> TAKE i \in 1 .. acked'
    <2>1. erased \subseteq erased'
      BY <1>2
    <2>2. BlockPage(i)' = BlockPage(i)
      BY DEF BlockPage, BlockStart
    <2>3. CASE i \in 1 .. n - 1
      <3>1. i \in 1 .. acked
        BY <1>4, <2>3
      <3>2. BlockPage(i) \in erased
        BY <3>1 DEF SessionInv
      <3> QED BY <1>5, <2>1, <2>2, <2>3, <3>2
    <2>4. CASE i \notin 1 .. n - 1
      <3>1. s.block # 0 /\ i = n
        BY <1>2, <1>4, <2>4
      <3> QED BY <1>3, <1>5, <2>1, <2>2, <3>1
    <2> QED BY <2>3, <2>4
  <1>9. InStep'
    BY <1>2, <1>5 DEF InStep
  <1> QED BY <1>2, <1>5, <1>6, <1>7, <1>8, <1>9 DEF SessionInv

(* It goes on polling, sees the error, or sees nothing.                     *)
LEMMA StepNotOver ==
    ASSUME SessionInv, phase = "poll", ~hung', UNCHANGED <<step, addressed, erased, acked>>,
           NEW CONSTANT s, s = step, NEW CONSTANT n, n = acked + 1, PollOutcome(s, n),
           IF dfu_state' = "ERROR" THEN phase' = "clear" /\ faults' \in 0 .. MaxFaults - 1
                                   ELSE phase' = "poll" /\ faults' \in 0 .. MaxFaults
    PROVE  SessionInv'
  <1>1. SessionTypeOK /\ s \in Choices
    BY DEF SessionInv
  <1>2. acked \in 0 .. Len(Image) /\ n - 1 = acked /\ n \in Nat
    BY <1>1, SizeTypes DEF SessionTypeOK
  <1>3. /\ flash' \in Flash /\ dfuse_address_ptr' = APP_FLASH_START
        /\ ep0_tx'.kind # "stall"
        /\ \A i \in 1 .. n - 1 : Holds(i)'
    BY DEF PollOutcome
  <1>4. SessionTypeOK'
    <2>1. faults' \in 0 .. MaxFaults
      BY MaxFaultsAssumption
    <2>2. phase' \in {"clear", "poll"}
      OBVIOUS
    <2> QED BY <1>1, <2>1, <2>2 DEF SessionTypeOK
  <1>5. /\ dfu_state' # "ERROR" => dfu_status' = "OK"
        /\ dfu_status' \in {"OK", "ERR_ERASE", "ERR_WRITE"}
    BY DEF PollOutcome
  <1>6. faults' = MaxFaults => dfu_state' # "ERROR"
    BY MaxFaultsAssumption
  <1>7. ConformingHostServed'
    BY <1>3, <1>5, <1>6 DEF ConformingHostServed
  <1>8. step' \in Choices'
    BY <1>1 DEF Choices
  <1>9. \A i \in 1 .. acked' : BlockPage(i)' \in erased' /\ Holds(i)'
    <2>1. \A i \in 1 .. acked : BlockPage(i) \in erased
      BY DEF SessionInv
    <2> QED BY <1>2, <1>3, <2>1 DEF BlockPage, BlockStart
  <1>10. InStep'
    <2>1. CASE dfu_state' = "ERROR"
      BY <2>1 DEF PollOutcome, InStep
    <2>2. CASE dfu_state' = "DNBUSY"
      <3>1. Pending(s, n)'
        BY <2>2 DEF PollOutcome
      <3>2. Pending(step, acked + 1)'
        BY <3>1 DEF Pending, BlockStart
      <3> QED BY <2>2, <3>2 DEF InStep
    <2>3. CASE dfu_state' = "DNLOAD_IDLE"
      <3>1. dfuse_cmd' = NoCommand /\ (s.block # 0 => Holds(n)')
        BY <2>3 DEF PollOutcome
      <3>2. step'.block # 0 => Holds(acked + 1)'
        BY <3>1 DEF Holds, BlockStart
      <3> QED BY <2>3, <3>1, <3>2 DEF InStep
    <2> QED BY <2>1, <2>2, <2>3 DEF PollOutcome
  <1> QED BY <1>3, <1>4, <1>5, <1>7, <1>8, <1>9, <1>10 DEF SessionInv

(* GETSTATUS while the device manifests.                                    *)
LEMMA StepManifest ==
    ASSUME SessionInv, phase = "manifest", handle_dfu_getstatus,
           UNCHANGED <<phase, step, addressed, erased, acked>>, faults' \in 0 .. MaxFaults
    PROVE  SessionInv' /\ dfu_state' = "MANIFEST_WAIT_RESET"
  <1>1. /\ dfu_state \in {"MANIFEST_SYNC", "MANIFEST_WAIT_RESET"} /\ dfu_status = "OK"
        /\ acked = Len(Image)
    BY DEF SessionInv, InStep
  <1>2. /\ dfu_state' = "MANIFEST_WAIT_RESET" /\ dfu_status' = "OK"
        /\ ep0_tx' = Reply("data")
        /\ UNCHANGED <<dfuse_address_ptr, hung, flash>>
    BY <1>1 DEF handle_dfu_getstatus, GetStatusSync, ExecuteSetAddress, ExecuteErase,
                ExecuteUnknown, ExecuteProgram, ExecuteNothing, ExecuteFaults,
                GetStatusManifest, GetStatusReport, GetStatus, Enter, ep0_reply,
                dfuVars, cmdVars
  <1>3. SessionTypeOK'
    BY DEF SessionInv, SessionTypeOK
  <1>4. ConformingHostServed'
    <2>1. ~hung'
      BY <1>2 DEF SessionInv, ConformingHostServed
    <2> QED BY <1>2, <2>1, ReplyKinds DEF ConformingHostServed
  <1>5. \A i \in 1 .. acked' : BlockPage(i)' \in erased' /\ Holds(i)'
    BY <1>2 DEF SessionInv, Holds, BlockPage, BlockStart
  <1>6. InStep'
    BY <1>1, <1>2 DEF InStep
  <1>7. flash' \in Flash /\ dfuse_address_ptr' = APP_FLASH_START
    BY <1>2 DEF SessionInv
  <1> QED BY <1>2, <1>3, <1>4, <1>5, <1>6, <1>7 DEF SessionInv

LEMMA StepGetstatus == SessionInv /\ host_getstatus => SessionInv'
  <1> SUFFICES ASSUME SessionInv, host_getstatus PROVE SessionInv'
    OBVIOUS
  <1>1. handle_dfu_getstatus /\ Interpret /\ faults \in 0 .. MaxFaults
    BY DEF host_getstatus, SessionInv, SessionTypeOK
  <1>2. IF dfu_state # "ERROR" /\ dfu_state' = "ERROR"
        THEN faults > 0 /\ faults' = faults - 1
        ELSE UNCHANGED faults
    BY DEF host_getstatus
  <1>3. faults' \in 0 .. MaxFaults
    BY <1>1, <1>2, MaxFaultsAssumption
  <1>4. CASE phase = "poll"
    <2>1. dfu_state # "ERROR"
      BY <1>4 DEF SessionInv, InStep
    <2> PICK s : s = step
      OBVIOUS
    <2> PICK n : n = acked + 1
      OBVIOUS
    <2>2. PollOutcome(s, n) /\ ~hung'
      BY <1>1, <1>4, PollStep
    <2>3. CASE dfu_state' = "DNLOAD_IDLE"
      <3>1. StepDone /\ faults' = faults
        BY <1>1, <1>2, <1>4, <2>3 DEF Interpret
      <3> QED BY <1>4, <2>2, <2>3, <3>1, StepOver
    <2>4. CASE dfu_state' # "DNLOAD_IDLE"
      <3>1. UNCHANGED <<step, addressed, erased, acked>>
        BY <1>1, <2>4 DEF Interpret
      <3>2. IF dfu_state' = "ERROR" THEN phase' = "clear" ELSE phase' = "poll"
        BY <1>1, <1>4, <2>4 DEF Interpret
      <3>3. dfu_state' = "ERROR" => faults' \in 0 .. MaxFaults - 1
        BY <1>1, <1>2, <2>1, MaxFaultsAssumption
      <3> QED BY <1>3, <1>4, <2>2, <3>1, <3>2, <3>3, StepNotOver
    <2> QED BY <2>3, <2>4
  <1>5. CASE phase = "manifest"
    <2>1. dfu_state' # "ERROR"
      BY <1>1, <1>5 DEF SessionInv, InStep, handle_dfu_getstatus, GetStatusSync,
                ExecuteSetAddress, ExecuteErase, ExecuteUnknown, ExecuteProgram,
                ExecuteNothing, ExecuteFaults, GetStatusManifest, GetStatusReport, Enter, dfuVars
    <2>2. UNCHANGED <<phase, step, addressed, erased, acked>>
      BY <1>1, <1>5, <2>1 DEF Interpret
    <2> QED BY <1>1, <1>3, <1>5, <2>2, StepManifest
  <1> QED BY <1>4, <1>5 DEF host_getstatus

LEMMA StepLostReply == SessionInv /\ LostReply => SessionInv'
  <1> SUFFICES ASSUME SessionInv, LostReply PROVE SessionInv'
    OBVIOUS
  <1>1. /\ handle_dfu_getstatus /\ dfu_state' # "ERROR"
        /\ UNCHANGED <<phase, step, addressed, erased, acked>>
    BY DEF LostReply
  <1>2. faults' \in 0 .. MaxFaults
    BY MaxFaultsAssumption DEF LostReply, Fault, SessionInv, SessionTypeOK
  <1>3. CASE phase = "poll"
    <2> PICK s : s = step
      OBVIOUS
    <2> PICK n : n = acked + 1
      OBVIOUS
    <2>1. PollOutcome(s, n) /\ ~hung'
      BY <1>1, <1>3, PollStep
    <2> QED BY <1>1, <1>2, <1>3, <2>1, StepNotOver
  <1>4. CASE phase = "manifest"
    BY <1>1, <1>2, <1>4, StepManifest
  <1> QED BY <1>3, <1>4 DEF LostReply

-----------------------------------------------------------------------------
(* Aborts and resets.                                                       *)

LEMMA StepFault == SessionInv /\ (HostTimeout \/ BusReset \/ PowerLoss) => SessionInv'
  <1> SUFFICES ASSUME SessionInv, HostTimeout \/ BusReset \/ PowerLoss PROVE SessionInv'
    OBVIOUS
  <1>1. faults' \in 0 .. MaxFaults
    BY MaxFaultsAssumption
    DEF HostTimeout, BusReset, PowerLoss, Fault, SessionInv, SessionTypeOK
  <1>2. ~hung
    BY DEF SessionInv, ConformingHostServed
  <1>3. StartOver /\ (handle_dfu_abort \/ usb_reset \/ Restart)
    BY DEF HostTimeout, BusReset, PowerLoss
  <1>4. /\ UNCHANGED flash /\ dfuse_address_ptr' = APP_FLASH_START /\ dfu_state' = "IDLE"
        /\ dfu_status' = "OK" /\ dfuse_cmd' = NoCommand /\ ep0_tx'.kind # "stall"
    BY <1>3, ReplyKinds DEF handle_dfu_abort, usb_reset, Restart, ResetContext, ep0_send_zlp
  <1>5. ~hung'
    BY <1>2, <1>3 DEF handle_dfu_abort, usb_reset, Restart
  <1> QED BY <1>1, <1>3, <1>4, <1>5, FreshStart

LEMMA StepManifestReset == SessionInv /\ ManifestReset => SessionInv'
  <1> SUFFICES ASSUME SessionInv, ManifestReset PROVE SessionInv'
    OBVIOUS
  <1>1. /\ phase = "manifest" /\ phase' = "done"
        /\ UNCHANGED <<step, addressed, erased, acked, faults, flash>>
        /\ dfu_state' = "IDLE" /\ dfu_status' = "OK" /\ ep0_tx' = Reply("nak")
        /\ dfuse_address_ptr' = APP_FLASH_START
    BY DEF ManifestReset, Restart, ResetContext
  <1>2. SessionTypeOK'
    BY <1>1 DEF SessionInv, SessionTypeOK
  <1>3. ConformingHostServed'
    <2>1. ~hung'
      BY DEF ManifestReset, Restart
    <2> QED BY <1>1, <2>1, ReplyKinds DEF ConformingHostServed
  <1>4. \A i \in 1 .. acked' : BlockPage(i)' \in erased' /\ Holds(i)'
    BY <1>1 DEF SessionInv, Holds, BlockPage, BlockStart
  <1>5. InStep'
    BY <1>1 DEF SessionInv, InStep
  <1>6. flash' \in Flash
    BY <1>1 DEF SessionInv
  <1> QED BY <1>1, <1>2, <1>3, <1>4, <1>5, <1>6 DEF SessionInv

-----------------------------------------------------------------------------
(* The theorems.                                                            *)

LEMMA SessionStart == SessionInit => SessionInv
  <1> SUFFICES ASSUME SessionInit PROVE SessionInv
    OBVIOUS
  <1>1. /\ phase = "ready" /\ step = NoStep /\ addressed = FALSE /\ erased = {}
        /\ acked = 0 /\ faults = MaxFaults
    BY DEF SessionInit
  <1>2. /\ flash \in Flash /\ dfu_state = "IDLE" /\ dfu_status = "OK"
        /\ dfuse_cmd = NoCommand /\ dfuse_address_ptr = APP_FLASH_START
        /\ ep0_tx = Reply("nak")
    BY InputAssumption DEF SessionInit, Init
  <1>3. SessionTypeOK
    <2>1. acked \in 0 .. Len(Image) /\ faults \in 0 .. MaxFaults
      BY <1>1, SizeTypes, MaxFaultsAssumption
    <2> QED BY <1>1, <2>1 DEF SessionTypeOK
  <1>4. ConformingHostServed
    <2>1. ~hung
      BY DEF SessionInit, Init
    <2> QED BY <1>2, <2>1, ReplyKinds DEF ConformingHostServed
  <1>5. InStep
    <2>1. ~(acked > 0)
      BY <1>1
    <2> QED BY <1>1, <1>2, <2>1 DEF InStep
  <1> QED BY <1>1, <1>2, <1>3, <1>4, <1>5 DEF SessionInv

LEMMA SessionStutter == SessionInv /\ UNCHANGED sessionVars => SessionInv'
  BY DEF SessionInv, sessionVars, hostVars, vars, dfuVars, cmdVars, busVars, SessionTypeOK,
         ConformingHostServed, InStep, Receiving, Pending, Holds, BlockPage, BlockStart, Choices

LEMMA SessionStep == SessionInv /\ [SessionNext]_sessionVars => SessionInv'
  BY StepDnload, StepOutData, StepStatusStage, StepGetstatus, StepEnd, StepClrstatus,
     StepLostReply, StepFault, StepManifestReset, SessionStutter
  DEF SessionNext, HostNext

LEMMA SessionInductive == SessionSpec => []SessionInv
  BY SessionStart, SessionStep, PTL DEF SessionSpec

(* The host's own bookkeeping keeps its type: it never counts a block or a  *)
(* page the image does not have.                                            *)
THEOREM SessionTypeCorrect == SessionSpec => []SessionTypeOK
  <1>1. SessionInv => SessionTypeOK
    BY DEF SessionInv
  <1> QED BY <1>1, SessionInductive, PTL

(* Every block the device has reported done is in flash, byte for byte, and *)
(* stays there while the rest arrives and further pages are erased.         *)
THEOREM AckedAlwaysProgrammed == SessionSpec => []AckedIsProgrammed
  <1>1. SessionInv => AckedIsProgrammed
    BY DEF SessionInv, AckedIsProgrammed
  <1> QED BY <1>1, SessionInductive, PTL

(* The device begins to manifest, and resets into the application, only     *)
(* with the whole image in flash, whatever was retried on the way.          *)
THEOREM ManifestsOnlyWhole == SessionSpec => []ManifestMeansWhole
  <1>1. SessionInv => ManifestMeansWhole
    <2> SUFFICES ASSUME SessionInv, dfu_state \in {"MANIFEST_SYNC", "MANIFEST_WAIT_RESET"}
                                      \/ phase = "done"
                 PROVE  \A i \in 1 .. Len(Image) : Holds(i)
      BY DEF ManifestMeansWhole
    <2>1. phase \in {"ready", "send", "status", "poll", "manifest", "clear", "done"}
      BY DEF SessionInv, SessionTypeOK
    <2>2. phase \in {"manifest", "done"}
      BY <2>1 DEF SessionInv, InStep, Receiving
    <2>3. acked = Len(Image)
      BY <2>2 DEF SessionInv, InStep
    <2> QED BY <2>3 DEF SessionInv
  <1> QED BY <1>1, SessionInductive, PTL

(* A host that follows the sequence is never refused, and never sees an     *)
(* error the flash controller did not cause, after aborts and resets in any *)
(* state of the device.                                                     *)
THEOREM ConformingHostAlwaysServed == SessionSpec => []ConformingHostServed
  <1>1. SessionInv => ConformingHostServed
    BY DEF SessionInv
  <1> QED BY <1>1, SessionInductive, PTL

-----------------------------------------------------------------------------
(* A session is one of the behaviours of UsbDfu.  Engine is UsbDfu with a   *)
(* host that may make any request and send any bytes.                       *)

Packets == [1 .. EP0_MAX_SIZE -> Byte]

Engine == INSTANCE UsbDfuProofs
            WITH Blocks <- Nat, Lengths <- Nat, ReadLengths <- Nat,
                 Commands <- Packets, Payloads <- Packets

LEMMA EngineAssumptions ==
    /\ Engine!GeometryAssumption /\ Engine!ByteAssumption /\ Engine!FlashMayFailAssumption
    /\ Engine!SizeAssumption /\ Engine!CommandAssumption /\ Engine!InputAssumption
  <1>1. Engine!GeometryAssumption
    BY GeometryAssumption DEF Engine!GeometryAssumption
  <1>2. Engine!ByteAssumption
    BY ByteAssumption DEF Engine!ByteAssumption
  <1>3. Engine!FlashMayFailAssumption
    BY FlashMayFailAssumption DEF Engine!FlashMayFailAssumption
  <1>4. Engine!SizeAssumption
    BY SizeAssumption DEF Engine!SizeAssumption
  <1>5. Engine!CommandAssumption
    BY CommandAssumption DEF Engine!CommandAssumption, Engine!Byte, Byte
  <1>6. Engine!InputAssumption
    BY InputAssumption DEF Engine!InputAssumption, Engine!Flash, Flash, Engine!FlashAddr,
       FlashAddr, Engine!Byte, Byte, Packets
  <1> QED BY <1>1, <1>2, <1>3, <1>4, <1>5, <1>6

(* The engine's steps do not depend on which requests its host may choose.  *)
LEMMA SameInit == Init => Engine!Init
  BY DEF Init, Engine!Init, NoCommand, Engine!NoCommand, NoArg, Engine!NoArg,
         Reply, Engine!Reply, NoTransfer, Engine!NoTransfer

LEMMA SameDnload ==
    ASSUME NEW block, NEW len, handle_dfu_dnload(block, len)
    PROVE  Engine!handle_dfu_dnload(block, len)
  BY DEF handle_dfu_dnload, Engine!handle_dfu_dnload,
         DnloadEnd, Engine!DnloadEnd, DnloadOversize, Engine!DnloadOversize,
         DnloadRefused, Engine!DnloadRefused, DnloadAccepted, Engine!DnloadAccepted,
         ReadyForDnload, Engine!ReadyForDnload, DownloadAddress, Engine!DownloadAddress,
         BlockAddress, Engine!BlockAddress, U32, Engine!U32,
         handle_setup, Engine!handle_setup, Enter, Engine!Enter, Fail, Engine!Fail,
         ep0_stall, Engine!ep0_stall, ep0_send_zlp, Engine!ep0_send_zlp,
         Reply, Engine!Reply, dfuVars, Engine!dfuVars, cmdVars, Engine!cmdVars

LEMMA SameOut ==
    ASSUME NEW packet, OutPacket(packet)
    PROVE  Engine!OutPacket(packet)
  BY DEF OutPacket, Engine!OutPacket, handle_ep0_out, Engine!handle_ep0_out,
         PacketSize, Engine!PacketSize, Received, Engine!Received,
         DecodeCommand, Engine!DecodeCommand, U32, Engine!U32, NoArg, Engine!NoArg,
         ep0_send_zlp, Engine!ep0_send_zlp, Reply, Engine!Reply

LEMMA SameFlash ==
    /\ \A a, ret : flash_erase_page(a, ret) => Engine!flash_erase_page(a, ret)
    /\ \A a, data, ret : flash_write(a, data, ret) => Engine!flash_write(a, data, ret)
    /\ \A a, data : flash_write_faults(a, data) => Engine!flash_write_faults(a, data)
  <1>1. \A a : flash_is_address_valid(a) <=> Engine!flash_is_address_valid(a)
    BY DEF flash_is_address_valid, Engine!flash_is_address_valid
  <1>2. \A a : ErasePage(a) = Engine!ErasePage(a)
    BY Zenon DEF ErasePage, Engine!ErasePage, Page, Engine!Page, PageBase, Engine!PageBase,
           Erased, Engine!Erased, FlashAddr, Engine!FlashAddr
  <1>3. \A a, data, k : Programmed(a, data, k) = Engine!Programmed(a, data, k)
    BY Zenon DEF Programmed, Engine!Programmed, ByteAt, Engine!ByteAt,
           Erased, Engine!Erased, FlashAddr, Engine!FlashAddr
  <1>4. \A a, i : Programmable(a, i) <=> Engine!Programmable(a, i)
    BY DEF Programmable, Engine!Programmable, Erased, Engine!Erased
  <1>5. \A a, len : RangeValid(a, len) <=> Engine!RangeValid(a, len)
    BY <1>1 DEF RangeValid, Engine!RangeValid
  <1>6. \A len : HalfWords(len) = Engine!HalfWords(len)
    BY DEF HalfWords, Engine!HalfWords
  <1>7. \A a, ret : flash_erase_page(a, ret) => Engine!flash_erase_page(a, ret)
    BY <1>1, <1>2, Zenon DEF flash_erase_page, Engine!flash_erase_page
  <1>8. \A a, data, ret : flash_write(a, data, ret) => Engine!flash_write(a, data, ret)
    <2> SUFFICES ASSUME NEW a, NEW data, NEW ret, flash_write(a, data, ret)
                 PROVE  Engine!flash_write(a, data, ret)
      OBVIOUS
    <2>1. CASE Len(data) = 0 /\ ret = 0 /\ UNCHANGED flash
      BY <2>1, Zenon DEF Engine!flash_write
    <2>2. CASE Len(data) > 0 /\ ~RangeValid(a, Len(data)) /\ ret = -1 /\ UNCHANGED flash
      BY <1>5, <2>2, Zenon DEF Engine!flash_write
    <2>3. ASSUME Len(data) > 0, RangeValid(a, Len(data)), a % 2 = 0,
                 NEW k \in 0 .. HalfWords(Len(data)),
                 \A i \in 0 .. k - 1 : Programmable(a, i),
                 flash' = Programmed(a, data, k),
                 \/ k = HalfWords(Len(data)) /\ ret = 0
                 \/ /\ k < HalfWords(Len(data))
                    /\ FlashMayFail \/ ~Programmable(a, k)
                    /\ ret = -1
          PROVE  Engine!flash_write(a, data, ret)
      BY <1>3, <1>4, <1>5, <1>6, <2>3, Zenon DEF Engine!flash_write
    <2> QED BY <2>1, <2>2, <2>3, Zenon DEF flash_write
  <1>9. \A a, data : flash_write_faults(a, data) => Engine!flash_write_faults(a, data)
    BY <1>5 DEF flash_write_faults, Engine!flash_write_faults
  <1> QED BY <1>7, <1>8, <1>9

LEMMA SameGetstatus == handle_dfu_getstatus => Engine!handle_dfu_getstatus
  <1> USE DEF GetStatus, Engine!GetStatus, handle_setup, Engine!handle_setup,
              Enter, Engine!Enter, Fail, Engine!Fail, ep0_reply, Engine!ep0_reply,
              Reply, Engine!Reply, NoArg, Engine!NoArg, NoCommand, Engine!NoCommand,
              dfuVars, Engine!dfuVars, cmdVars, Engine!cmdVars
  <1>1. GetStatusSync => Engine!GetStatusSync
    BY DEF GetStatusSync, Engine!GetStatusSync
  <1>2. ExecuteSetAddress => Engine!ExecuteSetAddress
    BY DEF ExecuteSetAddress, Engine!ExecuteSetAddress
  <1>3. ExecuteErase => Engine!ExecuteErase
    BY SameFlash DEF ExecuteErase, Engine!ExecuteErase
  <1>4. ExecuteUnknown => Engine!ExecuteUnknown
    BY DEF ExecuteUnknown, Engine!ExecuteUnknown
  <1>5. ExecuteProgram => Engine!ExecuteProgram
    BY SameFlash DEF ExecuteProgram, Engine!ExecuteProgram, U32, Engine!U32
  <1>6. ExecuteNothing => Engine!ExecuteNothing
    BY DEF ExecuteNothing, Engine!ExecuteNothing
  <1>7. ExecuteFaults => Engine!ExecuteFaults
    BY SameFlash DEF ExecuteFaults, Engine!ExecuteFaults
  <1>8. GetStatusManifest => Engine!GetStatusManifest
    BY DEF GetStatusManifest, Engine!GetStatusManifest
  <1>9. GetStatusReport => Engine!GetStatusReport
    BY DEF GetStatusReport, Engine!GetStatusReport
  <1> QED BY <1>1, <1>2, <1>3, <1>4, <1>5, <1>6, <1>7, <1>8, <1>9
          DEF handle_dfu_getstatus, Engine!handle_dfu_getstatus

LEMMA SameRest ==
    /\ handle_dfu_clrstatus => Engine!handle_dfu_clrstatus
    /\ handle_dfu_abort => Engine!handle_dfu_abort
    /\ usb_reset => Engine!usb_reset
    /\ Restart => Engine!Restart
  BY DEF handle_dfu_clrstatus, Engine!handle_dfu_clrstatus,
         handle_dfu_abort, Engine!handle_dfu_abort, usb_reset, Engine!usb_reset,
         Restart, Engine!Restart, ResetContext, Engine!ResetContext,
         handle_setup, Engine!handle_setup, ep0_send_zlp, Engine!ep0_send_zlp,
         Reply, Engine!Reply, NoCommand, Engine!NoCommand, NoArg, Engine!NoArg,
         NoTransfer, Engine!NoTransfer, cmdVars, Engine!cmdVars

(* Every packet of the session is a packet of bytes.                        *)
LEMMA PacketIsPacket == SessionInv /\ phase = "send" => NextPacket \in Packets
  <1> SUFFICES ASSUME SessionInv, phase = "send", NEW i \in 1 .. EP0_MAX_SIZE
               PROVE  LET sent == Len(step.data) - ctl.left
                      IN  (IF sent + i <= Len(step.data) THEN step.data[sent + i] ELSE 0)
                            \in Byte
    BY DEF NextPacket, Packets
  <1> DEFINE sent == Len(step.data) - ctl.left
  <1>1. step.data \in Seq(Byte) /\ ctl.left \in 1 .. Len(step.data)
    BY StepData DEF SessionInv, InStep, Receiving
  <1>2. 0 \in Byte
    BY ByteAssumption DEF Byte
  <1>3. ASSUME sent + i <= Len(step.data) PROVE step.data[sent + i] \in Byte
    <2>1. sent + i \in 1 .. Len(step.data)
      BY <1>1, <1>3, SizeTypes
    <2> QED BY <1>1, <2>1
  <1> QED BY <1>2, <1>3

(* A step of the session is a step the arbitrary host of UsbDfu may cause,  *)
(* or none of the device's.                                                 *)
LEMMA EngineStep ==
    SessionInv /\ [SessionNext]_sessionVars => [Engine!Next]_(Engine!vars)
  <1> SUFFICES ASSUME SessionInv, SessionNext
               PROVE  Engine!Next \/ UNCHANGED vars
    BY DEF sessionVars, vars, Engine!vars, dfuVars, Engine!dfuVars, cmdVars, Engine!cmdVars,
           busVars, Engine!busVars
  <1>1. CASE host_dnload
    <2>1. PICK s \in Choices : handle_dfu_dnload(s.block, Len(s.data))
      BY <1>1 DEF host_dnload
    <2>2. s.block \in Nat /\ Len(s.data) \in Nat
      BY StepData, SizeTypes DEF SessionInv, Choices, SetAddressStep, EraseStep, DataStep
    <2> QED BY <2>1, <2>2, SameDnload DEF Engine!Next
  <1>2. CASE host_data
    <2>1. OutPacket(NextPacket) /\ NextPacket \in Packets
      BY <1>2, PacketIsPacket DEF host_data
    <2> QED BY <2>1, SameOut DEF Engine!Next
  <1>3. CASE host_status_stage
    BY <1>3 DEF host_status_stage
  <1>4. CASE host_end
    BY <1>4, SameDnload DEF host_end, Engine!Next
  <1>5. CASE host_getstatus \/ LostReply
    BY <1>5, SameGetstatus DEF host_getstatus, LostReply, Engine!Next
  <1>6. CASE host_clrstatus \/ HostTimeout \/ BusReset \/ PowerLoss \/ ManifestReset
    BY <1>6, SameRest
    DEF host_clrstatus, HostTimeout, BusReset, PowerLoss, ManifestReset, Engine!Next
  <1> QED BY <1>1, <1>2, <1>3, <1>4, <1>5, <1>6 DEF SessionNext, HostNext

(* A conforming host, with all that may go wrong in its session, is one of  *)
(* the hosts UsbDfu is about: what is proved there for the arbitrary host   *)
(* holds of every update.                                                   *)
THEOREM SessionIsEngine == SessionSpec => Engine!Spec
  <1>1. SessionInit => Engine!Init
    BY SameInit DEF SessionInit
  <1> QED BY <1>1, EngineStep, SessionInductive, PTL DEF SessionSpec, Engine!Spec

(* Throughout an update, faults included, flash changes only as the         *)
(* contract allows: the bootloader and the settings page survive it.        *)
THEOREM SessionKeepsContract == SessionSpec => FlashContractKept
  <1>1. Engine!FlashContractKept => FlashContractKept
    <2>1. Engine!Contract!Init => Contract!Init
      BY DEF Engine!Contract!Init, Contract!Init, Engine!Contract!FlashAddr, Contract!FlashAddr
    <2>2. [Engine!Contract!Next]_flash => [Contract!Next]_flash
      BY Zenon
      DEF Engine!Contract!Next, Contract!Next, Engine!Contract!ErasePage, Contract!ErasePage,
          Engine!Contract!ProgramErased, Contract!ProgramErased,
          Engine!Contract!AppPages, Contract!AppPages, Engine!Contract!AppAddr, Contract!AppAddr,
          Engine!Contract!FlashAddr, Contract!FlashAddr, Engine!Contract!Erased, Contract!Erased
    <2> QED
      BY <2>1, <2>2, PTL
      DEF Engine!FlashContractKept, FlashContractKept, Engine!Contract!Spec, Contract!Spec
  <1>2. Engine!Spec => Engine!FlashContractKept
    BY Engine!ContractRefined, EngineAssumptions
  <1> QED BY <1>1, <1>2, SessionIsEngine

(* Throughout an update, faults included, the device reports an error       *)
(* exactly in the error state, owes no command when it reports a step done  *)
(* and never wedges in a data stage.                                        *)
THEOREM SessionKeepsInvariants ==
    SessionSpec => [](StatusIffError /\ NothingOwedAtManifest /\ DataStageAnswered)
  <1>1. Engine!StatusIffError => StatusIffError
    BY DEF Engine!StatusIffError, StatusIffError
  <1>2. Engine!NothingOwedAtManifest => NothingOwedAtManifest
    BY DEF Engine!NothingOwedAtManifest, NothingOwedAtManifest
  <1>3. Engine!DataStageAnswered => DataStageAnswered
    BY DEF Engine!DataStageAnswered, DataStageAnswered
  <1>4. /\ Engine!Spec => []Engine!StatusIffError
        /\ Engine!Spec => []Engine!NothingOwedAtManifest
        /\ Engine!Spec => []Engine!DataStageAnswered
    BY Engine!StatusAlwaysIffError, Engine!NothingEverOwed, Engine!NoDataStageWedges,
       EngineAssumptions
  <1> QED BY <1>1, <1>2, <1>3, <1>4, SessionIsEngine, PTL

(* Throughout an update, nothing is reported erased or programmed unless    *)
(* all of it is.                                                            *)
THEOREM SessionDoneIsComplete == SessionSpec => CompleteOrError
  <1>1. Engine!CompleteOrError => CompleteOrError
    <2>1. [flash' # flash /\ dfu_state' # "ERROR" =>
             \/ dfuse_cmd.op = DFUSE_CMD_ERASE_PAGE
                /\ \A b \in Engine!Page(dfuse_cmd.arg) : flash'[b] = Engine!Erased
             \/ dfuse_cmd.op = 0
                /\ \A i \in 1 .. Len(dfu_buffer) :
                      flash'[dfu_address + i - 1] = dfu_buffer[i]]_(Engine!vars)
       => [flash' # flash /\ dfu_state' # "ERROR" =>
                \/ dfuse_cmd.op = DFUSE_CMD_ERASE_PAGE
                   /\ \A b \in Page(dfuse_cmd.arg) : flash'[b] = Erased
                \/ dfuse_cmd.op = 0
                   /\ \A i \in 1 .. Len(dfu_buffer) :
                         flash'[dfu_address + i - 1] = dfu_buffer[i]]_vars
      BY Zenon
      DEF Engine!vars, vars, Engine!dfuVars, dfuVars, Engine!cmdVars, cmdVars, Engine!busVars,
          busVars, Engine!Page, Page, Engine!PageBase, PageBase, Engine!Erased, Erased
    <2> QED BY <2>1, PTL DEF Engine!CompleteOrError, CompleteOrError
  <1>2. Engine!Spec => Engine!CompleteOrError
    BY Engine!DoneIsComplete, EngineAssumptions
  <1> QED BY <1>1, <1>2, SessionIsEngine
=============================================================================
