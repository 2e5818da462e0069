------------------------------- MODULE Ep0Proofs -------------------------------
(* Theorems about Ep0 for every packet size and set of requests, and        *)
(* whether or not the bus waits for the main loop (Timely).                 *)
EXTENDS Ep0, SequenceTheorems, TLAPS

-----------------------------------------------------------------------------
(* The endpoint register.                                                   *)

LEMMA XorFacts ==
    /\ \A a, b \in Status : Xor(a, b) \in Status
    /\ \A a \in Status : Xor(a, 0) = a /\ Xor(a, RxUntouched) = a
    /\ Xor(DISABLED, VALID) = VALID
    /\ Xor(NAK, Xor(NAK, VALID)) = VALID
    /\ Xor(VALID, Xor(VALID, VALID)) = VALID
    /\ Xor(NAK, Xor(VALID, VALID)) = NAK
  <1> USE DEF Xor, Status, DISABLED, STALL, NAK, VALID, RxUntouched
  <1>1. \A a \in Status : a \in {0, 1, 2, 3}
    OBVIOUS
  <1>2. \A a, b \in {0, 1, 2, 3} : Xor(a, b) \in {0, 1, 2, 3}
    OBVIOUS
  <1>3. \A a \in {0, 1, 2, 3} : Xor(a, 0) = a
    OBVIOUS
  <1> QED BY <1>1, <1>2, <1>3

LEMMA Fields ==
    /\ DISABLED \in Status /\ STALL \in Status /\ NAK \in Status /\ VALID \in Status
    /\ DISABLED # STALL /\ DISABLED # NAK /\ DISABLED # VALID
    /\ NAK # VALID /\ NAK # STALL /\ VALID # STALL
  BY DEF Status, DISABLED, STALL, NAK, VALID

LEMMA WrittenType ==
    ASSUME NEW r \in Register, NEW rx \in Status, NEW tx \in Status,
           NEW c \in BOOLEAN, NEW d \in BOOLEAN
    PROVE  /\ Written(r, c, d, rx, tx) \in Register
           /\ Written(r, c, d, rx, tx).stat_rx = Xor(r.stat_rx, rx)
  <1>1. (r.ctr_rx /\ c) \in BOOLEAN /\ (r.ctr_tx /\ d) \in BOOLEAN
    OBVIOUS
  <1>2. Xor(r.stat_rx, rx) \in Status /\ Xor(r.stat_tx, tx) \in Status
    BY XorFacts DEF Register
  <1> QED BY <1>1, <1>2 DEF Written, Register

LEMMA WrittenRx ==
    ASSUME NEW r \in Register, NEW c, NEW d, NEW rx, NEW tx
    PROVE  Written(r, c, d, rx, tx).stat_rx = Xor(r.stat_rx, rx)
  BY DEF Written, Register

LEMMA ClearedRx ==
    ASSUME NEW r \in Register
    PROVE  /\ Written(r, FALSE, TRUE, 0, 0).stat_rx = Xor(r.stat_rx, 0)
           /\ Written(r, TRUE, FALSE, 0, 0).stat_rx = Xor(r.stat_rx, 0)
  BY DEF Written, Register

-----------------------------------------------------------------------------
(* What the rest of a handler may be.                                       *)

Names == {"read", "chunk", "zlp", "stall", "setup", "out", "in", "flash", "clear rx",
          "send", "write rx", "write tx"}

(* STAT_RX is only ever written as VALID.                                   *)
Sound(op) ==
    /\ op[1] = "write rx" => op[2] = VALID
    /\ op[1] = "write tx" => op[2] \in Status
    /\ op[1] = "send" => op[2] \in {0, 1} /\ op[3] \in Nat

Ops == {op \in Seq(Names \cup Nat) : Sound(op)}

(* STAT_RX is written right after EP0R is read.                             *)
Paired(q) == \A i \in 2 .. Len(q) : q[i][1] = "write rx" => q[i - 1][1] = "read"

(* A piece of a handler that begins with something else.                    *)
Piece(q) ==
    /\ q \in Seq(Ops)
    /\ Paired(q)
    /\ q # <<>> => q[1][1] # "write rx"

LEMMA Tuples ==
    ASSUME NEW S, NEW a \in S, NEW b \in S, NEW c \in S
    PROVE  <<a>> \in Seq(S) /\ <<a, b>> \in Seq(S) /\ <<a, b, c>> \in Seq(S)
  OBVIOUS

LEMMA Singles ==
    ASSUME NEW k \in Names \ {"send", "write rx", "write tx"}
    PROVE  <<k>> \in Ops /\ <<k>>[1] = k
  <1>1. <<k>> \in Seq(Names \cup Nat)
    <2>1. k \in Names \cup Nat
      OBVIOUS
    <2> QED BY <2>1, Tuples
  <1>2. <<k>>[1] = k
    OBVIOUS
  <1>3. Sound(<<k>>)
    BY <1>2 DEF Sound
  <1> QED BY <1>1, <1>2, <1>3 DEF Ops

LEMMA Writes ==
    /\ <<"write rx", VALID>> \in Ops
    /\ \A s \in Status : <<"write tx", s>> \in Ops
  <1>1. <<"write rx", VALID>> \in Ops
    <2>1. <<"write rx", VALID>> \in Seq(Names \cup Nat)
      BY DEF VALID, Names
    <2>2. Sound(<<"write rx", VALID>>)
      BY DEF Sound
    <2> QED BY <2>1, <2>2 DEF Ops
  <1>2. ASSUME NEW s \in Status PROVE <<"write tx", s>> \in Ops
    <2>1. <<"write tx", s>> \in Seq(Names \cup Nat)
      <3>1. "write tx" \in Names \cup Nat
        BY DEF Names
      <3>2. s \in Names \cup Nat
        BY DEF Status, DISABLED, VALID
      <3> QED BY <3>1, <3>2, Tuples
    <2>2. Sound(<<"write tx", s>>)
      BY DEF Sound
    <2> QED BY <2>1, <2>2 DEF Ops
  <1> QED BY <1>1, <1>2

LEMMA Sends ==
    ASSUME NEW t \in {0, 1}, NEW n \in Nat
    PROVE  <<"send", t, n>> \in Ops
  <1>1. <<"send", t, n>> \in Seq(Names \cup Nat)
    <2>1. "send" \in Names \cup Nat
      BY DEF Names
    <2>2. t \in Names \cup Nat /\ n \in Names \cup Nat
      OBVIOUS
    <2> QED BY <2>1, <2>2, Tuples
  <1>2. Sound(<<"send", t, n>>)
    BY DEF Sound
  <1> QED BY <1>1, <1>2 DEF Ops

LEMMA PieceConcat ==
    ASSUME NEW p, NEW q, Piece(p), Piece(q)
    PROVE  Piece(p \o q)
  <1>1. p \in Seq(Ops) /\ q \in Seq(Ops)
    BY DEF Piece
  <1> DEFINE m == Len(p)
             n == Len(q)
             r == p \o q
  <1>2. m \in Nat /\ n \in Nat
    BY <1>1
  <1>3. /\ r \in Seq(Ops) /\ Len(r) = m + n
        /\ \A i \in 1 .. m + n : r[i] = IF i <= m THEN p[i] ELSE q[i - m]
    BY <1>1, ConcatProperties
  <1> HIDE DEF r
  <1>4. ASSUME NEW i \in 2 .. m + n, r[i][1] = "write rx" PROVE r[i - 1][1] = "read"
    <2>1. CASE i <= m
      <3>1. i \in 2 .. m /\ r[i] = p[i] /\ r[i - 1] = p[i - 1]
        <4> HIDE DEF m, n
        <4> QED BY <1>2, <1>3, <2>1
      <3> QED BY <1>4, <3>1 DEF Piece, Paired
    <2>2. CASE i = m + 1
      <3>1. r[i] = q[1] /\ n > 0
        <4> HIDE DEF m, n
        <4> QED BY <1>2, <1>3, <2>2
      <3>2. q # <<>>
        BY <3>1
      <3> QED BY <1>4, <3>1, <3>2 DEF Piece
    <2>3. CASE i > m + 1
      <3>1. i - m \in 2 .. n /\ r[i] = q[i - m] /\ r[i - 1] = q[i - m - 1]
        <4> HIDE DEF m, n
        <4>1. i - 1 \in 1 .. m + n /\ ~(i - 1 <= m) /\ i - 1 - m = i - m - 1
          BY <1>2, <2>3
        <4> QED BY <1>2, <1>3, <2>3, <4>1
      <3> QED BY <1>4, <3>1 DEF Piece, Paired
    <2> QED BY <1>2, <2>1, <2>2, <2>3
  <1>5. ASSUME r # <<>> PROVE r[1][1] # "write rx"
    <2>1. CASE m > 0
      <3>1. r[1] = p[1] /\ p # <<>>
        BY <1>2, <1>3, <2>1
      <3> QED BY <3>1 DEF Piece
    <2>2. CASE m = 0
      <3>1. n > 0
        <4>1. Len(r) \in Nat \ {0}
          <5> HIDE DEF m, n
          <5> QED BY <1>3, <1>5
        <4> HIDE DEF m, n
        <4> QED BY <1>2, <1>3, <2>2, <4>1
      <3>2. r[1] = q[1] /\ q # <<>>
        BY <1>2, <1>3, <2>2, <3>1
      <3> QED BY <3>2 DEF Piece
    <2>3. m > 0 \/ m = 0
      <3> HIDE DEF m
      <3> QED BY <1>2
    <2> QED BY <2>1, <2>2, <2>3
  <1> QED BY <1>3, <1>4, <1>5 DEF Piece, Paired, r

LEMMA NoPair == ~ \E i \in 2 .. 1 : TRUE
  OBVIOUS

LEMMA Singleton ==
    ASSUME NEW op \in Ops, op[1] # "write rx"
    PROVE  Piece(<<op>>)
  <1> DEFINE q == <<op>>
  <1>1. q \in Seq(Ops)
    BY Tuples
  <1>2. Len(q) = 1 /\ q[1] = op
    OBVIOUS
  <1> HIDE DEF q
  <1>3. Paired(q)
    BY <1>2, NoPair DEF Paired
  <1>4. Piece(q)
    BY <1>1, <1>2, <1>3 DEF Piece
  <1> QED BY <1>4 DEF q

LEMMA Guarded ==
    ASSUME NEW op \in Ops
    PROVE  Piece(<<<<"read">>, op>>)
  <1>1. <<"read">> \in Ops /\ <<"read">>[1] = "read"
    BY Singles DEF Names
  <1> DEFINE rd == <<"read">>
             q == <<rd, op>>
  <1>2. rd \in Ops /\ rd[1] = "read"
    BY <1>1
  <1> HIDE DEF rd
  <1>3. q \in Seq(Ops) /\ Len(q) = 2 /\ q[1] = rd
    BY <1>2
  <1> HIDE DEF q
  <1>4. \A i \in 2 .. 2 : i - 1 = 1
    OBVIOUS
  <1>5. Piece(q)
    BY <1>2, <1>3, <1>4 DEF Piece, Paired
  <1> QED BY <1>5 DEF q, rd

LEMMA Pieces ==
    /\ Piece(<<>>)
    /\ \A k \in Names \ {"send", "write rx", "write tx"} : Piece(<<<<k>>>>)
    /\ \A s \in Status : Piece(SetTx(s))
    /\ Piece(SetRx(VALID))
    /\ Piece(Chunk)
    /\ Piece(RxAcknowledge)
  <1>1. Piece(<<>>)
    BY DEF Piece, Paired
  <1>2. ASSUME NEW k \in Names \ {"send", "write rx", "write tx"} PROVE Piece(<<<<k>>>>)
    BY Singles, Singleton
  <1>3. \A s \in Status : Piece(SetTx(s))
    BY Writes, Guarded DEF SetTx
  <1>4. Piece(SetRx(VALID))
    BY Writes, Guarded DEF SetRx
  <1>5. Piece(<<<<"chunk">>>>) /\ Piece(<<<<"clear rx">>>>)
    BY <1>2 DEF Names
  <1>6. Piece(Chunk)
    BY <1>3, <1>5, Fields, PieceConcat DEF Chunk
  <1>7. Piece(RxAcknowledge)
    BY <1>4, <1>5, PieceConcat DEF RxAcknowledge
  <1> QED BY <1>1, <1>2, <1>3, <1>4, <1>6, <1>7

LEMMA TailPiece ==
    ASSUME NEW q \in Seq(Ops), q # <<>>, Paired(q)
    PROVE  /\ Head(q) \in Ops /\ Tail(q) \in Seq(Ops)
           /\ Paired(Tail(q))
           /\ Head(q)[1] # "read" => Piece(Tail(q))
  <1> DEFINE n == Len(q)
             t == Tail(q)
  <1>1. /\ n \in Nat /\ n > 0 /\ Head(q) = q[1] /\ q[1] \in Ops
        /\ t \in Seq(Ops) /\ Len(t) = n - 1
    BY HeadTailProperties
  <1>2. \A i \in 1 .. n - 1 : t[i] = q[i + 1]
    BY HeadTailProperties
  <1> HIDE DEF n, t
  <1>3. ASSUME NEW i \in 2 .. Len(t), t[i][1] = "write rx" PROVE t[i - 1][1] = "read"
    <2>1. /\ i \in 1 .. n - 1 /\ i - 1 \in 1 .. n - 1
          /\ i + 1 \in 2 .. n /\ (i - 1) + 1 = i /\ (i + 1) - 1 = i
      BY <1>1
    <2>2. t[i] = q[i + 1] /\ t[i - 1] = q[i]
      BY <1>2, <2>1
    <2>3. q[i + 1][1] = "write rx" => q[(i + 1) - 1][1] = "read"
      BY <2>1 DEF Paired, n
    <2> QED BY <1>3, <2>1, <2>2, <2>3
  <1>4. Paired(t)
    BY <1>3 DEF Paired
  <1>0. t # <<>> => Len(t) > 0
    BY <1>1
  <1>5. ASSUME t # <<>>, t[1][1] = "write rx" PROVE q[1][1] = "read"
    <2>1. Len(t) > 0
      BY <1>0, <1>5
    <2>2. 1 \in 1 .. n - 1 /\ 2 \in 2 .. n
      BY <1>1, <2>1
    <2>3. t[1] = q[2]
      BY <1>2, <2>2
    <2>4. q[2][1] = "write rx" => q[2 - 1][1] = "read"
      BY <2>2 DEF Paired, n
    <2>5. 2 - 1 = 1
      OBVIOUS
    <2>6. q[2][1] = "write rx" => q[1][1] = "read"
      BY <2>4, <2>5
    <2> QED BY <1>5, <2>3, <2>6
  <1>6. q[1][1] # "read" => Piece(t)
    BY <1>1, <1>4, <1>5 DEF Piece
  <1> QED BY <1>1, <1>4, <1>6 DEF t

LEMMA HandlersPiece == Piece(Handlers)
  <1>1. /\ Piece(<<>>) /\ Piece(<<<<"setup">>>>) /\ Piece(<<<<"out">>>>)
        /\ Piece(<<<<"in">>>>)
    BY Pieces DEF Names
  <1> DEFINE a == IF ~ep0r.ctr_rx THEN <<>> ELSE IF ep0r.setup THEN <<<<"setup">>>>
                  ELSE <<<<"out">>>>
             b == IF ep0r.ctr_tx THEN <<<<"in">>>> ELSE <<>>
  <1>2. Piece(a) /\ Piece(b)
    BY <1>1
  <1>3. Handlers = a \o b
    BY DEF Handlers
  <1> HIDE DEF a, b
  <1> QED BY <1>2, <1>3, PieceConcat

TodoOK == todo \in Seq(Ops) /\ Paired(todo)

LEMMA Continues ==
    ASSUME TodoOK, NEW k, At(k)
    PROVE  /\ Head(todo) \in Ops /\ Sound(Head(todo)) /\ Head(todo)[1] = k
           /\ Tail(todo) \in Seq(Ops) /\ Paired(Tail(todo))
           /\ k # "read" => \A ops : Piece(ops) => Piece(ops \o Tail(todo))
  <1>1. todo \in Seq(Ops) /\ todo # <<>> /\ Paired(todo) /\ Head(todo)[1] = k
    BY DEF TodoOK, At
  <1>2. /\ Head(todo) \in Ops /\ Tail(todo) \in Seq(Ops) /\ Paired(Tail(todo))
        /\ Head(todo)[1] # "read" => Piece(Tail(todo))
    BY <1>1, TailPiece
  <1>3. Sound(Head(todo))
    BY <1>2 DEF Ops
  <1>4. k # "read" => \A ops : Piece(ops) => Piece(ops \o Tail(todo))
    BY <1>1, <1>2, PieceConcat
  <1> QED BY <1>1, <1>2, <1>3, <1>4

(* A step that goes on with ops: nothing but a reading of EP0R comes        *)
(* before a write to STAT_RX.                                               *)
LEMMA ThenPiece ==
    ASSUME TodoOK, NEW k, At(k), k # "read", NEW ops, Piece(ops), Then(ops)
    PROVE  TodoOK' /\ ~At("write rx")'
  <1>1. todo' = ops \o Tail(todo)
    BY DEF Then
  <1>2. Piece(todo')
    BY <1>1, Continues
  <1>3. TodoOK'
    BY <1>2 DEF Piece, TodoOK
  <1>0. todo' \in Seq(Ops)
    BY <1>2 DEF Piece
  <1>4. todo' # <<>> => Head(todo') = todo'[1]
    BY <1>0
  <1>5. ~At("write rx")'
    BY <1>2, <1>4 DEF Piece, At
  <1> QED BY <1>3, <1>5

-----------------------------------------------------------------------------
(* Types.  The rest of the handlers is part of the invariant: it says what  *)
(* the arguments of every operation are.                                    *)

Byte == {0, 1} \X Nat

RegisterOK ==
    /\ ep0r \in Register /\ val \in Register
    /\ isr_reset \in BOOLEAN
PacketsOK ==
    /\ tx_packet \in Seq(Byte) /\ Len(tx_packet) <= EP0_MAX_SIZE
    /\ rx_packet \in [request : Requests, tag : {0, 1}, data : BOOLEAN]
MemoryOK ==
    /\ daddr \in Nat /\ pending_address \in Nat
    /\ ep0_tx_left \in Seq(Byte)
    /\ ep0_tx_need_zlp \in BOOLEAN /\ state \in States
    /\ ep0_req_len \in Nat /\ expected \in Nat
HostOK ==
    /\ request \in Requests /\ tag \in {0, 1}
    /\ stage \in {"data in", "data out", "status in", "status out", "done"}
    /\ taken \in Seq(Byte)
    /\ left \in Nat /\ assigned \in Nat
    /\ stage = "data out" => left > 0

Ep0Inv == TodoOK /\ RegisterOK /\ PacketsOK /\ MemoryOK /\ HostOK

LEMMA InvIsType == Ep0Inv => Ep0TypeOK
  BY DEF Ep0Inv, RegisterOK, PacketsOK, MemoryOK, HostOK, Ep0TypeOK, Byte

LEMMA SubSeqType ==
    ASSUME NEW q \in Seq(Byte), NEW m \in Nat, m <= Len(q)
    PROVE  /\ SubSeq(q, 1, m) \in Seq(Byte) /\ Len(SubSeq(q, 1, m)) = m
           /\ SubSeq(q, m + 1, Len(q)) \in Seq(Byte)
  <1>1. 1 \in Int /\ m \in Int /\ m + 1 \in Int /\ Len(q) \in Nat
    OBVIOUS
  <1>2. \A i \in 1 .. m : i \in 1 .. Len(q)
    BY <1>1
  <1>3. \A i \in (m + 1) .. Len(q) : i \in 1 .. Len(q)
    BY <1>1
  <1>4. \A i \in 1 .. Len(q) : q[i] \in Byte
    OBVIOUS
  <1>5. SubSeq(q, 1, m) \in Seq(Byte) /\ Len(SubSeq(q, 1, m)) = m
    BY <1>1, <1>2, <1>4, SubSeqProperties
  <1>6. SubSeq(q, m + 1, Len(q)) \in Seq(Byte)
    BY <1>1, <1>3, <1>4, SubSeqProperties
  <1> QED BY <1>5, <1>6

LEMMA BytesType ==
    ASSUME NEW t \in {0, 1}, NEW n \in Nat
    PROVE  Bytes(t, n) \in Seq(Byte)
  <1>1. \A i \in 1 .. n : <<t, i>> \in Byte
    BY DEF Byte
  <1>2. [i \in 1 .. n |-> <<t, i>>] \in Seq(Byte)
    BY <1>1
  <1> QED BY <1>2 DEF Bytes

LEMMA Ep0Init_Inv == Ep0Init => Ep0Inv
  <1> SUFFICES ASSUME Ep0Init PROVE Ep0Inv
    OBVIOUS
  <1> USE DEF Ep0Init
  <1>1. TodoOK
    <2>1. Piece(<<>>)
      BY Pieces
    <2> QED BY <2>1 DEF TodoOK, Piece
  <1>2. RegisterOK
    BY Fields DEF RegisterOK, Register
  <1>3. PacketsOK
    <2>1. tx_packet \in Seq(Byte) /\ Len(tx_packet) = 0
      OBVIOUS
    <2>2. 0 <= EP0_MAX_SIZE
      BY Ep0Assumption
    <2>3. rx_packet \in [request : Requests, tag : {0, 1}, data : BOOLEAN]
      OBVIOUS
    <2> QED BY <2>1, <2>2, <2>3 DEF PacketsOK
  <1>4. MemoryOK
    <2>1. ep0_tx_left \in Seq(Byte)
      OBVIOUS
    <2>2. ep0_tx_need_zlp \in BOOLEAN /\ state \in States
      BY DEF States
    <2>3. daddr \in Nat /\ pending_address \in Nat /\ ep0_req_len \in Nat /\ expected \in Nat
      OBVIOUS
    <2> QED BY <2>1, <2>2, <2>3 DEF MemoryOK
  <1>5. HostOK
    BY DEF HostOK
  <1> QED BY <1>1, <1>2, <1>3, <1>4, <1>5 DEF Ep0Inv

LEMMA RequestFields ==
    ASSUME NEW r \in Requests
    PROVE  /\ r.wLength \in Nat /\ r.reply \in Nat /\ r.address \in Nat
           /\ r.kind \in Kinds
           /\ r.kind = "write" => r.wLength > 0
  BY Ep0Assumption

LEMMA OnlyTwo == \A i \in 2 .. 2 : i = 2
  OBVIOUS

LEMMA Doubles ==
    ASSUME NEW f \in Ops, NEW g \in Ops, f[1] # "write rx", g[1] # "write rx"
    PROVE  Piece(<<f, g>>)
  <1> DEFINE q == <<f, g>>
  <1>1. q \in Seq(Ops)
    BY Tuples
  <1>2. Len(q) = 2 /\ q[1] = f /\ q[2] = g
    OBVIOUS
  <1> HIDE DEF q
  <1>4. Paired(q)
    BY <1>2, OnlyTwo DEF Paired
  <1>5. Piece(q)
    BY <1>1, <1>2, <1>4 DEF Piece
  <1> QED BY <1>5 DEF q

(* What each handler of a request leaves.                                   *)
LEMMA DispatchType ==
    ASSUME TodoOK, MemoryOK, NEW k, At(k), k # "read",
           NEW r \in Requests, NEW t \in {0, 1}, Dispatch(r, t)
    PROVE  /\ TodoOK' /\ ~At("write rx")'
           /\ pending_address' \in Nat /\ expected' \in Nat /\ state' \in States
  <1>1. r.wLength \in Nat /\ r.reply \in Nat /\ r.address \in Nat
    BY RequestFields
  <1>2. pending_address \in Nat /\ expected \in Nat /\ state \in States
    BY DEF MemoryOK
  <1>3. state' \in States
    BY <1>2 DEF Dispatch, DropDownload, engineVars, States
  <1>4. pending_address' \in Nat
    BY <1>1, <1>2 DEF Dispatch
  <1>5. expected' \in Nat
    BY <1>1, <1>2 DEF Dispatch, DropDownload, engineVars
  <1>6. Piece(<<<<"zlp">>>>) /\ Piece(<<<<"stall">>>>) /\ Piece(<<<<"flash">>>>)
        /\ Piece(SetRx(VALID))
    BY Pieces DEF Names
  <1>7. Piece(<<<<"send", t, r.reply>>>>)
    <2>1. <<"send", t, r.reply>> \in Ops
      BY <1>1, Sends
    <2>2. <<"send", t, r.reply>>[1] # "write rx"
      OBVIOUS
    <2> QED BY <2>1, <2>2, Singleton
  <1>8. Piece(<<<<"flash">>, <<"send", t, r.reply>>>>)
    <2>1. <<"flash">> \in Ops /\ <<"flash">>[1] = "flash"
      BY Singles DEF Names
    <2>2. <<"flash">>[1] # "write rx"
      BY <2>1
    <2>3. <<"send", t, r.reply>> \in Ops
      BY <1>1, Sends
    <2>4. <<"send", t, r.reply>>[1] # "write rx"
      OBVIOUS
    <2> QED BY <2>1, <2>2, <2>3, <2>4, Doubles
  <1>9. \E ops : Piece(ops) /\ Then(ops)
    BY <1>6, <1>7, <1>8 DEF Dispatch
  <1>10. TodoOK' /\ ~At("write rx")'
    BY <1>9, ThenPiece
  <1> QED BY <1>3, <1>4, <1>5, <1>10

LEMMA FirmwareInv == Ep0Inv /\ Firmware => Ep0Inv'
  <1> SUFFICES ASSUME Ep0Inv, Firmware PROVE Ep0Inv'
    OBVIOUS
  <1> USE DEF Ep0Inv
  <1>0. /\ \A s \in Status : Piece(SetTx(s))
        /\ Piece(<<>>) /\ Piece(SetRx(VALID)) /\ Piece(Chunk) /\ Piece(RxAcknowledge)
        /\ Piece(<<<<"zlp">>>>)
    BY Pieces DEF Names
  <1>f. VALID \in Status /\ NAK \in Status /\ 0 \in Status
        /\ STALL \in Status /\ DISABLED \in Status
    BY Fields DEF DISABLED
  <1>1. CASE usb_poll
    <2> USE <1>1 DEF usb_poll, regVars, memVars, txVars, engineVars, hostVars
    <2>1. TodoOK'
      BY HandlersPiece DEF Piece, TodoOK
    <2> QED BY <2>1 DEF RegisterOK, PacketsOK, MemoryOK, HostOK
  <1>2. CASE usb_reset
    <2> USE <1>2 DEF usb_reset, NothingInFlight, hostVars
    <2>1. ep0r' \in Register
      BY <1>f, WrittenType DEF RegisterOK
    <2>2. RegisterOK'
      BY <2>1 DEF RegisterOK
    <2>3. tx_packet' \in Seq(Byte) /\ Len(tx_packet') = 0 /\ ep0_tx_left' \in Seq(Byte)
      OBVIOUS
    <2>4. PacketsOK'
      BY <2>3, Ep0Assumption DEF PacketsOK
    <2>5. daddr' \in Nat /\ ep0_req_len' \in Nat /\ expected' \in Nat /\ state' \in States
      BY DEF DropDownload, States
    <2>6. MemoryOK'
      BY <2>3, <2>5 DEF MemoryOK
    <2> QED BY <2>2, <2>4, <2>6 DEF TodoOK, HostOK
  <1>3. CASE ReadEp0r
    <2> USE <1>3 DEF ReadEp0r, regVars, memVars, txVars, engineVars, hostVars
    <2>1. Tail(todo) \in Seq(Ops) /\ Paired(Tail(todo))
      BY Continues
    <2>2. todo' = <<>> \o Tail(todo)
      BY DEF Then
    <2>3. <<>> \o Tail(todo) = Tail(todo)
      BY <2>1
    <2>4. TodoOK'
      BY <2>1, <2>2, <2>3 DEF TodoOK
    <2> QED BY <2>4 DEF RegisterOK, PacketsOK, MemoryOK, HostOK
  <1>4. CASE ep_set_tx_status
    <2> USE <1>4 DEF ep_set_tx_status, memVars, txVars, engineVars, hostVars
    <2>1. TodoOK'
      BY <1>0, ThenPiece
    <2>2. Head(todo)[2] \in Status
      BY Continues DEF Sound
    <2>3. Xor(val.stat_tx, Head(todo)[2]) \in Status /\ RxUntouched \in Status
      BY <1>f, <2>2, XorFacts DEF RegisterOK, Register, RxUntouched
    <2>4. val.ctr_rx \in BOOLEAN /\ val.ctr_tx \in BOOLEAN
      BY DEF RegisterOK, Register
    <2>5. ep0r' \in Register
      BY <2>3, <2>4, WrittenType DEF RegisterOK
    <2> QED BY <2>1, <2>5 DEF RegisterOK, PacketsOK, MemoryOK, HostOK
  <1>5. CASE ep_set_rx_status
    <2> USE <1>5 DEF ep_set_rx_status, memVars, txVars, engineVars, hostVars
    <2>1. TodoOK'
      BY <1>0, ThenPiece
    <2>2. Head(todo)[2] \in Status
      BY <1>f, Continues DEF Sound
    <2>3. Xor(val.stat_rx, Head(todo)[2]) \in Status
      BY <2>2, XorFacts DEF RegisterOK, Register
    <2>4. val.ctr_rx \in BOOLEAN /\ val.ctr_tx \in BOOLEAN
      BY DEF RegisterOK, Register
    <2>5. ep0r' \in Register
      BY <1>f, <2>3, <2>4, WrittenType DEF RegisterOK
    <2> QED BY <2>1, <2>5 DEF RegisterOK, PacketsOK, MemoryOK, HostOK
  <1>6. CASE ep0_tx_chunk
    <2> DEFINE chunk == AtMost(FullChunk, Len(ep0_tx_left))
    <2> USE <1>6 DEF ep0_tx_chunk, engineVars, hostVars
    <2>1. TodoOK'
      BY <1>0, ThenPiece
    <2>2. chunk \in Nat /\ chunk <= Len(ep0_tx_left) /\ chunk <= EP0_MAX_SIZE
      <3>1. Len(ep0_tx_left) \in Nat /\ EP0_MAX_SIZE \in Nat
        BY Ep0Assumption DEF MemoryOK
      <3> QED BY <3>1 DEF AtMost, FullChunk
    <2>3. /\ tx_packet' = SubSeq(ep0_tx_left, 1, chunk)
          /\ ep0_tx_left' = SubSeq(ep0_tx_left, chunk + 1, Len(ep0_tx_left))
      OBVIOUS
    <2>4. ep0_tx_left \in Seq(Byte)
      BY DEF MemoryOK
    <2> HIDE DEF chunk
    <2>5. tx_packet' \in Seq(Byte) /\ Len(tx_packet') <= EP0_MAX_SIZE
          /\ ep0_tx_left' \in Seq(Byte)
      BY <2>2, <2>3, <2>4, SubSeqType
    <2> QED BY <2>1, <2>5 DEF RegisterOK, PacketsOK, MemoryOK, HostOK
  <1>7. CASE ep0_send
    <2> DEFINE len == CutToAsked(Head(todo)[3])
    <2> USE <1>7 DEF ep0_send, regVars, engineVars, hostVars
    <2>1. TodoOK'
      BY <1>0, PieceConcat, ThenPiece
    <2>2. Head(todo)[2] \in {0, 1} /\ Head(todo)[3] \in Nat
      BY Continues DEF Sound
    <2>3. len \in Nat
      BY <2>2 DEF CutToAsked, AtMost, MemoryOK
    <2>4. ep0_tx_left' = Bytes(Head(todo)[2], len) /\ ep0_tx_need_zlp' = NeedZlp(len)
      OBVIOUS
    <2> HIDE DEF len
    <2>5. ep0_tx_left' \in Seq(Byte) /\ ep0_tx_need_zlp' \in BOOLEAN
      BY <2>2, <2>3, <2>4, BytesType DEF NeedZlp
    <2> QED BY <2>1, <2>5 DEF RegisterOK, PacketsOK, MemoryOK, HostOK
  <1>8. CASE ep0_send_zlp
    <2> USE <1>8 DEF ep0_send_zlp, NothingInFlight, engineVars, hostVars
    <2>1. TodoOK'
      BY <1>0, <1>f, PieceConcat, ThenPiece
    <2>2. tx_packet' \in Seq(Byte) /\ Len(tx_packet') = 0 /\ ep0_tx_left' \in Seq(Byte)
      OBVIOUS
    <2>3. PacketsOK'
      BY <2>2, Ep0Assumption DEF PacketsOK
    <2> QED BY <2>1, <2>2, <2>3 DEF RegisterOK, MemoryOK, HostOK
  <1>9. CASE ep0_stall
    <2> USE <1>9 DEF ep0_stall, NothingInFlight, regVars, engineVars, hostVars
    <2>1. TodoOK'
      BY <1>0, <1>f, PieceConcat, ThenPiece
    <2>2. ep0_tx_left' \in Seq(Byte)
      OBVIOUS
    <2> QED BY <2>1, <2>2 DEF RegisterOK, PacketsOK, MemoryOK, HostOK
  <1>10. CASE handle_setup
    <2> USE <1>10 DEF handle_setup, NothingInFlight, hostVars
    <2>1. rx_packet.request \in Requests /\ rx_packet.tag \in {0, 1}
      BY DEF PacketsOK
    <2>2. /\ TodoOK'
          /\ pending_address' \in Nat /\ expected' \in Nat /\ state' \in States
      BY <2>1, DispatchType
    <2>3. ep0_req_len' \in Nat
      BY <2>1, RequestFields
    <2>4. ep0r' \in Register
      BY <1>f, WrittenType DEF RegisterOK
    <2>5. ep0_tx_left' \in Seq(Byte)
      OBVIOUS
    <2> QED BY <2>2, <2>3, <2>4, <2>5 DEF RegisterOK, PacketsOK, MemoryOK, HostOK
  <1>11. CASE FlashOperation
    <2> USE <1>11 DEF FlashOperation, regVars, memVars, txVars, engineVars, hostVars
    <2>1. TodoOK'
      BY <1>0, ThenPiece
    <2> QED BY <2>1 DEF RegisterOK, PacketsOK, MemoryOK, HostOK
  <1>12. CASE handle_ep0_out
    <2> USE <1>12 DEF handle_ep0_out, regVars, txVars, hostVars
    <2>1. \E ops : Piece(ops) /\ Then(ops)
      BY <1>0, PieceConcat
    <2>2. TodoOK'
      BY <2>1, ThenPiece
    <2>3. state' \in States
      BY DEF MemoryOK
    <2>4. expected' \in Nat
      BY DEF MemoryOK
    <2> QED BY <2>2, <2>3, <2>4 DEF RegisterOK, PacketsOK, MemoryOK, HostOK
  <1>13. CASE ClearCtrRx
    <2> USE <1>13 DEF ClearCtrRx, memVars, txVars, engineVars, hostVars
    <2>1. TodoOK'
      BY <1>0, ThenPiece
    <2>2. ep0r' \in Register
      BY <1>f, WrittenType DEF RegisterOK
    <2> QED BY <2>1, <2>2 DEF RegisterOK, PacketsOK, MemoryOK, HostOK
  <1>14. CASE handle_ep0_in
    <2> USE <1>14 DEF handle_ep0_in, engineVars, hostVars
    <2>1. \E ops : Piece(ops) /\ Then(ops)
      BY <1>0, <1>f
    <2>2. TodoOK'
      BY <2>1, ThenPiece
    <2>3. ep0r' \in Register
      BY <1>f, WrittenType DEF RegisterOK
    <2>4. tx_packet' = tx_packet \/ tx_packet' = <<>>
      OBVIOUS
    <2>5. tx_packet' \in Seq(Byte) /\ Len(tx_packet') <= EP0_MAX_SIZE
      <3>1. /\ tx_packet \in Seq(Byte) /\ Len(tx_packet) <= EP0_MAX_SIZE
            /\ <<>> \in Seq(Byte) /\ Len(<<>>) = 0 /\ 0 <= EP0_MAX_SIZE
        BY Ep0Assumption DEF PacketsOK
      <3> HIDE DEF handle_ep0_in
      <3> QED BY <2>4, <3>1
    <2>6. daddr' \in Nat /\ pending_address' \in Nat
      BY DEF MemoryOK, NonePending
    <2>7. ep0_tx_need_zlp' \in BOOLEAN
      BY DEF MemoryOK
    <2> QED BY <2>2, <2>3, <2>5, <2>6, <2>7 DEF RegisterOK, PacketsOK, MemoryOK, HostOK
  <1> QED BY <1>1, <1>2, <1>3, <1>4, <1>5, <1>6, <1>7, <1>8, <1>9, <1>10, <1>11, <1>12,
             <1>13, <1>14 DEF Firmware

Bus == SendSetup \/ HostGoesOn \/ BusReset

LEMMA ReceivedType ==
    ASSUME RegisterOK, NEW setup \in BOOLEAN
    PROVE  Received(setup) \in Register /\ Received(setup).stat_rx = NAK
  <1>1. Received(setup) \in Register
    BY Fields DEF Received, RegisterOK, Register
  <1>2. Received(setup).stat_rx = NAK
    BY DEF Received, RegisterOK, Register
  <1> QED BY <1>1, <1>2

LEMMA OtherTag == HostOK => 1 - tag \in {0, 1}
  <1>1. \A t \in {0, 1} : 1 - t \in {0, 1}
    OBVIOUS
  <1> QED BY <1>1 DEF HostOK

LEMMA OneLess == \A n \in Nat : n > 0 => n - 1 \in Nat /\ (n # 1 => n - 1 > 0)
  OBVIOUS

LEMMA BusInv == Ep0Inv /\ Bus => Ep0Inv'
  <1> SUFFICES ASSUME Ep0Inv, Bus PROVE Ep0Inv'
    OBVIOUS
  <1> USE DEF Ep0Inv, memVars, txVars, engineVars
  <1>1. CASE SendSetup
    <2> USE <1>1 DEF SendSetup
    <2>1. PICK r \in Requests :
            /\ request' = r
            /\ rx_packet' = [request |-> r, tag |-> 1 - tag, data |-> FALSE]
            /\ stage' = FirstStage(r)
            /\ left' = IF r.kind = "write" THEN r.wLength ELSE 0
      OBVIOUS
    <2>2. 1 - tag \in {0, 1}
      BY OtherTag
    <2>3. RegisterOK'
      BY ReceivedType DEF RegisterOK
    <2>4. PacketsOK'
      BY <2>1, <2>2 DEF PacketsOK
    <2>5. stage' \in {"data in", "data out", "status in", "status out", "done"}
          /\ (stage' = "data out" => r.kind = "write")
      BY <2>1 DEF FirstStage
    <2>6. left' \in Nat /\ (r.kind = "write" => left' > 0)
      BY <2>1, RequestFields
    <2>7. taken' \in Seq(Byte)
      OBVIOUS
    <2>8. HostOK'
      BY <2>1, <2>2, <2>5, <2>6, <2>7 DEF HostOK
    <2> QED BY <2>3, <2>4, <2>8 DEF TodoOK, MemoryOK
  <1>2. CASE SendData
    <2> USE <1>2 DEF SendData
    <2>1. RegisterOK'
      BY ReceivedType DEF RegisterOK
    <2>2. PacketsOK'
      BY DEF PacketsOK
    <2>3. left' \in Nat /\ (left # 1 => left' > 0)
      <3>1. left \in Nat /\ left > 0
        BY DEF HostOK
      <3>2. \A n \in Nat : n > 0 => n - 1 \in Nat /\ (n # 1 => n - 1 > 0)
        BY OneLess
      <3> QED BY <3>1, <3>2
    <2>4. HostOK'
      BY <2>3 DEF HostOK
    <2> QED BY <2>1, <2>2, <2>4 DEF TodoOK, MemoryOK
  <1>3. CASE SendStatus
    <2> USE <1>3 DEF SendStatus
    <2>1. RegisterOK'
      BY ReceivedType DEF RegisterOK
    <2>2. PacketsOK'
      BY DEF PacketsOK
    <2> QED BY <2>1, <2>2 DEF TodoOK, MemoryOK, HostOK
  <1>4. CASE TakePacket
    <2> USE <1>4 DEF TakePacket
    <2>1. RegisterOK'
      BY Fields DEF RegisterOK, Register
    <2>2. taken' \in Seq(Byte)
      BY ConcatProperties DEF PacketsOK, HostOK
    <2>3. stage' \in {"data in", "data out", "status in", "status out", "done"}
          /\ stage' # "data out"
      OBVIOUS
    <2>4. assigned' \in Nat
      BY RequestFields DEF HostOK
    <2>5. HostOK'
      BY <2>2, <2>3, <2>4 DEF HostOK
    <2> QED BY <2>1, <2>5 DEF TodoOK, PacketsOK, MemoryOK
  <1>5. CASE TakeStall
    <2> USE <1>5 DEF TakeStall, regVars
    <2>1. HostOK'
      BY DEF HostOK
    <2> QED BY <2>1 DEF TodoOK, RegisterOK, PacketsOK, MemoryOK
  <1>6. CASE BusReset
    <2> USE <1>6 DEF BusReset
    <2>1. RegisterOK'
      BY Fields DEF RegisterOK, Register
    <2>2. 1 - tag \in {0, 1}
      BY OtherTag
    <2>3. taken' \in Seq(Byte)
      OBVIOUS
    <2>4. HostOK'
      BY <2>2, <2>3 DEF HostOK
    <2>5. MemoryOK'
      BY DEF MemoryOK
    <2> QED BY <2>1, <2>4, <2>5 DEF TodoOK, PacketsOK
  <1> QED BY <1>1, <1>2, <1>3, <1>4, <1>5, <1>6 DEF Bus, HostGoesOn

LEMMA Ep0Inductive == Ep0Spec => []Ep0Inv
  <1>1. Ep0Inv /\ [Ep0Next]_ep0Vars => Ep0Inv'
    <2> SUFFICES ASSUME Ep0Inv, [Ep0Next]_ep0Vars PROVE Ep0Inv'
      OBVIOUS
    <2>1. CASE Ep0Next
      BY <2>1, FirmwareInv, BusInv DEF Ep0Next, Bus
    <2>2. CASE UNCHANGED ep0Vars
      BY <2>2 DEF Ep0Inv, TodoOK, RegisterOK, PacketsOK, MemoryOK, HostOK, ep0Vars, regVars,
                  memVars, txVars, engineVars, hostVars
    <2> QED BY <2>1, <2>2
  <1> QED BY <1>1, Ep0Init_Inv, PTL DEF Ep0Spec

(* Types hold for every packet size and every set of requests, and the rest *)
(* of a handler is always a list of operations with arguments in range.     *)
THEOREM Ep0TypeCorrect == Ep0Spec => []Ep0TypeOK
  BY Ep0Inductive, InvIsType, PTL

-----------------------------------------------------------------------------
(* Reception.                                                               *)

(* STAT_RX leaves NAK and VALID only in a bus reset, which the handlers do  *)
(* not see; what a write to it goes by is no older than the last packet.    *)
RxInv ==
    /\ isr_reset => todo = <<>> /\ ep0r.stat_rx = DISABLED
    /\ ~isr_reset => ep0r.stat_rx \in {NAK, VALID}
    /\ At("write rx") =>
          val.stat_rx \in {NAK, VALID} /\ ep0r.stat_rx \in {NAK, val.stat_rx}

LEMMA RxFirmware == ~ResetAnywhere /\ Ep0Inv /\ RxInv /\ Firmware => RxInv'
  <1> SUFFICES ASSUME ~ResetAnywhere, Ep0Inv, RxInv, Firmware PROVE RxInv'
    OBVIOUS
  <1>t. TodoOK /\ RegisterOK
    BY DEF Ep0Inv
  <1>p. /\ \A s \in Status : Piece(SetTx(s))
        /\ Piece(<<>>) /\ Piece(SetRx(VALID)) /\ Piece(Chunk) /\ Piece(RxAcknowledge)
        /\ Piece(<<<<"zlp">>>>)
    BY Pieces DEF Names
  <1>f. VALID \in Status /\ NAK \in Status /\ 0 \in Status
        /\ STALL \in Status /\ DISABLED \in Status
    BY Fields DEF DISABLED
  <1>r. ep0r \in Register /\ ep0r.stat_rx \in Status /\ val.stat_rx \in Status
        /\ val.ctr_rx \in BOOLEAN /\ val.ctr_tx \in BOOLEAN /\ val.stat_tx \in Status
    BY <1>t DEF RegisterOK, Register
  (* A step that leaves STAT_RX alone and does not come to a write of it.   *)
  <1>k. ASSUME todo # <<>>, UNCHANGED isr_reset, ep0r'.stat_rx = ep0r.stat_rx,
               ~At("write rx")'
        PROVE  RxInv'
    BY <1>k DEF RxInv
  <1>1. CASE usb_poll
    <2>1. ~At("write rx")'
      <3>1. Piece(todo')
        BY <1>1, HandlersPiece DEF usb_poll
      <3>2. todo' \in Seq(Ops)
        BY <3>1 DEF Piece
      <3>3. todo' # <<>> => Head(todo') = todo'[1]
        BY <3>2
      <3> QED BY <3>1, <3>3 DEF Piece, At
    <2> QED BY <1>1, <2>1 DEF usb_poll, regVars, RxInv
  <1>2. CASE usb_reset
    <2>1. todo' = <<>> /\ ~isr_reset' /\ ep0r.stat_rx = DISABLED
      BY <1>2 DEF usb_reset, RxInv
    <2>2. ep0r'.stat_rx = VALID
      BY <1>2, <1>f, <1>r, <2>1, WrittenType, XorFacts DEF usb_reset
    <2> QED BY <2>1, <2>2 DEF RxInv, At
  <1>3. CASE ReadEp0r
    <2>1. todo # <<>> /\ val' = ep0r /\ ep0r' = ep0r /\ isr_reset' = isr_reset
      BY <1>3 DEF ReadEp0r, At, regVars
    <2> QED BY <2>1 DEF RxInv
  <1>4. CASE ep_set_tx_status
    <2>1. Head(todo)[2] \in Status
      BY <1>4, <1>t, Continues DEF ep_set_tx_status, Sound
    <2>2. Xor(val.stat_tx, Head(todo)[2]) \in Status /\ RxUntouched \in Status
      BY <1>f, <1>r, <2>1, XorFacts DEF RxUntouched
    <2>3. ep0r'.stat_rx = ep0r.stat_rx
      <3>1. ep0r'.stat_rx = Xor(ep0r.stat_rx, RxUntouched)
        <4>1. ep0r' = Written(ep0r, val.ctr_rx, val.ctr_tx,
                              RxUntouched, Xor(val.stat_tx, Head(todo)[2]))
          BY <1>4 DEF ep_set_tx_status
        <4> QED BY <1>r, <4>1, WrittenRx
      <3> QED BY <3>1, <1>r, XorFacts
    <2>4. ~At("write rx")' /\ todo # <<>>
      BY <1>4, <1>t, <1>p, ThenPiece DEF ep_set_tx_status, At
    <2> QED BY <1>4, <1>k, <2>3, <2>4 DEF ep_set_tx_status
  <1>5. CASE ep_set_rx_status
    <2>1. Head(todo)[2] = VALID
      <3>1. Sound(Head(todo)) /\ Head(todo)[1] = "write rx"
        BY <1>5, <1>t, Continues DEF ep_set_rx_status
      <3> QED BY <3>1 DEF Sound
    <2>2. Xor(val.stat_rx, VALID) \in Status
      BY <1>f, <1>r, XorFacts
    <2>3. ep0r'.stat_rx = Xor(ep0r.stat_rx, Xor(val.stat_rx, VALID))
      <3>1. ep0r' = Written(ep0r, val.ctr_rx, val.ctr_tx, Xor(val.stat_rx, VALID), 0)
        BY <1>5, <2>1 DEF ep_set_rx_status
      <3> QED BY <1>r, <3>1, WrittenRx
    <2>4. val.stat_rx \in {NAK, VALID} /\ ep0r.stat_rx \in {NAK, val.stat_rx}
      BY <1>5 DEF ep_set_rx_status, RxInv
    <2>5. ep0r'.stat_rx \in {NAK, VALID}
      BY <2>3, <2>4, XorFacts
    <2>6. ~At("write rx")' /\ todo # <<>>
      BY <1>5, <1>t, <1>p, ThenPiece DEF ep_set_rx_status, At
    <2>7. isr_reset' = isr_reset
      BY <1>5 DEF ep_set_rx_status
    <2> QED BY <2>5, <2>6, <2>7 DEF RxInv
  <1>6. CASE ep0_tx_chunk
    <2>1. ~At("write rx")' /\ todo # <<>>
      BY <1>6, <1>t, <1>p, ThenPiece DEF ep0_tx_chunk, At
    <2> QED BY <1>6, <1>k, <2>1 DEF ep0_tx_chunk
  <1>7. CASE ep0_send
    <2>1. ~At("write rx")' /\ todo # <<>>
      BY <1>7, <1>t, <1>p, PieceConcat, ThenPiece DEF ep0_send, At
    <2> QED BY <1>7, <1>k, <2>1 DEF ep0_send, regVars
  <1>8. CASE ep0_send_zlp
    <2>1. ~At("write rx")' /\ todo # <<>>
      BY <1>8, <1>t, <1>p, <1>f, PieceConcat, ThenPiece DEF ep0_send_zlp, At
    <2> QED BY <1>8, <1>k, <2>1 DEF ep0_send_zlp
  <1>9. CASE ep0_stall
    <2>1. ~At("write rx")' /\ todo # <<>>
      BY <1>9, <1>t, <1>p, <1>f, PieceConcat, ThenPiece DEF ep0_stall, At
    <2> QED BY <1>9, <1>k, <2>1 DEF ep0_stall, regVars
  <1>10. CASE handle_setup
    <2>1. rx_packet.request \in Requests /\ rx_packet.tag \in {0, 1} /\ MemoryOK
      BY DEF PacketsOK, Ep0Inv
    <2>2. ~At("write rx")' /\ todo # <<>>
      BY <1>10, <1>t, <2>1, DispatchType DEF handle_setup, At
    <2>3. ep0r'.stat_rx = ep0r.stat_rx
      <3>1. ep0r' = Written(ep0r, FALSE, TRUE, 0, 0)
        BY <1>10 DEF handle_setup
      <3>2. ep0r'.stat_rx = Xor(ep0r.stat_rx, 0)
        BY <1>r, <3>1, ClearedRx
      <3> QED BY <1>r, <3>2, XorFacts
    <2> QED BY <1>10, <1>k, <2>2, <2>3 DEF handle_setup
  <1>11. CASE FlashOperation
    <2>1. ~At("write rx")' /\ todo # <<>>
      BY <1>11, <1>t, <1>p, ThenPiece DEF FlashOperation, At
    <2> QED BY <1>11, <1>k, <2>1 DEF FlashOperation, regVars
  <1>12. CASE handle_ep0_out
    <2>1. \E ops : Piece(ops) /\ Then(ops)
      BY <1>12, <1>p, PieceConcat DEF handle_ep0_out
    <2>2. ~At("write rx")' /\ todo # <<>>
      BY <1>12, <1>t, <2>1, ThenPiece DEF handle_ep0_out, At
    <2> QED BY <1>12, <1>k, <2>2 DEF handle_ep0_out, regVars
  <1>13. CASE ClearCtrRx
    <2>1. ~At("write rx")' /\ todo # <<>>
      BY <1>13, <1>t, <1>p, ThenPiece DEF ClearCtrRx, At
    <2>2. ep0r'.stat_rx = ep0r.stat_rx
      <3>1. ep0r' = Written(ep0r, FALSE, TRUE, 0, 0)
        BY <1>13 DEF ClearCtrRx
      <3>2. ep0r'.stat_rx = Xor(ep0r.stat_rx, 0)
        BY <1>r, <3>1, ClearedRx
      <3> QED BY <1>r, <3>2, XorFacts
    <2> QED BY <1>13, <1>k, <2>1, <2>2 DEF ClearCtrRx
  <1>14. CASE handle_ep0_in
    <2>1. \E ops : Piece(ops) /\ Then(ops)
      BY <1>14, <1>p, <1>f DEF handle_ep0_in
    <2>2. ~At("write rx")' /\ todo # <<>>
      BY <1>14, <1>t, <2>1, ThenPiece DEF handle_ep0_in, At
    <2>3. ep0r'.stat_rx = ep0r.stat_rx
      <3>1. ep0r' = Written(ep0r, TRUE, FALSE, 0, 0)
        BY <1>14 DEF handle_ep0_in
      <3>2. ep0r'.stat_rx = Xor(ep0r.stat_rx, 0)
        BY <1>r, <3>1, ClearedRx
      <3> QED BY <1>r, <3>2, XorFacts
    <2> QED BY <1>14, <1>k, <2>2, <2>3 DEF handle_ep0_in
  <1> QED BY <1>1, <1>2, <1>3, <1>4, <1>5, <1>6, <1>7, <1>8, <1>9, <1>10, <1>11, <1>12,
             <1>13, <1>14 DEF Firmware

LEMMA RxBus == ~ResetAnywhere /\ Ep0Inv /\ RxInv /\ Bus => RxInv'
  <1> SUFFICES ASSUME ~ResetAnywhere, Ep0Inv, RxInv, Bus PROVE RxInv'
    OBVIOUS
  <1>r. RegisterOK /\ ep0r \in Register
    BY DEF RegisterOK, Ep0Inv
  (* A packet leaves STAT_RX at NAK; anything else leaves it alone.         *)
  <1>k. ASSUME ~isr_reset, UNCHANGED <<isr_reset, todo, val>>,
               ep0r'.stat_rx \in {NAK, ep0r.stat_rx}
        PROVE  RxInv'
    <2>1. At("write rx")' <=> At("write rx")
      BY <1>k DEF At
    <2> QED BY <1>k, <2>1 DEF RxInv
  <1>1. CASE SendSetup
    <2>1. ep0r'.stat_rx = NAK
      BY <1>1, <1>r, ReceivedType DEF SendSetup
    <2> QED BY <1>1, <1>k, <2>1 DEF SendSetup, Answers
  <1>2. CASE SendData
    <2>1. ep0r'.stat_rx = NAK
      BY <1>2, <1>r, ReceivedType DEF SendData
    <2> QED BY <1>2, <1>k, <2>1 DEF SendData, Answers
  <1>3. CASE SendStatus
    <2>1. ep0r'.stat_rx = NAK
      BY <1>3, <1>r, ReceivedType DEF SendStatus
    <2> QED BY <1>3, <1>k, <2>1 DEF SendStatus, Answers
  <1>4. CASE TakePacket
    <2>1. ep0r'.stat_rx = ep0r.stat_rx
      BY <1>4, <1>r DEF TakePacket, Register
    <2> QED BY <1>4, <1>k, <2>1 DEF TakePacket, Answers
  <1>5. CASE TakeStall
    BY <1>5, <1>k DEF TakeStall, Answers, regVars
  <1>6. CASE BusReset
    <2>1. todo = <<>> /\ todo' = todo /\ isr_reset'
      BY <1>6 DEF BusReset, Attentive
    <2>2. ep0r'.stat_rx = DISABLED
      BY <1>6, <1>r DEF BusReset, Register
    <2> QED BY <2>1, <2>2 DEF RxInv, At
  <1> QED BY <1>1, <1>2, <1>3, <1>4, <1>5, <1>6 DEF Bus, HostGoesOn

(* When no bus reset falls inside a handler, EP0 is never deaf, however the *)
(* host's packets fall between the accesses to EP0R.                        *)
THEOREM NeverDeafUnlessResetInHandler ==
    ASSUME ~ResetAnywhere
    PROVE  Ep0Spec => []NeverDeaf
  <1>1. Ep0Init => RxInv
    BY Fields DEF Ep0Init, RxInv, At
  <1>2. Ep0Inv /\ RxInv /\ [Ep0Next]_ep0Vars => RxInv'
    <2> SUFFICES ASSUME Ep0Inv, RxInv, [Ep0Next]_ep0Vars PROVE RxInv'
      OBVIOUS
    <2>1. CASE Ep0Next
      BY <2>1, RxFirmware, RxBus DEF Ep0Next, Bus
    <2>2. CASE UNCHANGED ep0Vars
      BY <2>2 DEF RxInv, At, ep0Vars, regVars
    <2> QED BY <2>1, <2>2
  <1>3. RxInv => NeverDeaf
    BY Fields DEF RxInv, NeverDeaf
  <1> QED BY <1>1, <1>2, <1>3, Ep0Inductive, PTL DEF Ep0Spec
=============================================================================
