---------------------------- MODULE Ep0TimelyProofs ----------------------------
(* What EP0 promises while the bus waits for the main loop (Timely): the    *)
(* reader of a control transfer is served as ControlRead says, and the      *)
(* device is at the address the host gave it.                               *)
EXTENDS Ep0Proofs

-----------------------------------------------------------------------------
(* What the rest of the handlers still does to what EP0 sends: at most one  *)
(* thing, and after it only what concerns reception.                        *)

Begins(q, k) == q # <<>> /\ Head(q)[1] = k
Quiet(q) == \A i \in 1 .. Len(q) : q[i][1] \in {"read", "write rx", "clear rx"}
KeepsRx(q) == \A i \in 1 .. Len(q) : q[i][1] # "clear rx"

Only(q, k) == Begins(q, k) /\ Tail(q) = <<>>
Ends(q, k) == Begins(q, k) /\ Quiet(Tail(q))
Writing(q, s) == Ends(q, "write tx") /\ Head(q)[2] = s
Setting(q, s) == Begins(q, "read") /\ Writing(Tail(q), s)
Chunking(q) == Begins(q, "chunk") /\ Setting(Tail(q), VALID)
Sending(q, t, n) == Ends(q, "send") /\ Head(q)[2] = t /\ Head(q)[3] = n
Flashing(q, t, n) == Begins(q, "flash") /\ Sending(Tail(q), t, n)

Shape(q) ==
    \/ Quiet(q)
    \/ Only(q, "setup") \/ Only(q, "out") \/ Only(q, "in")
    \/ Ends(q, "zlp") \/ Ends(q, "stall") \/ Ends(q, "send")
    \/ Setting(q, STALL) \/ Setting(q, VALID)
    \/ Writing(q, STALL) \/ Writing(q, VALID)
    \/ Chunking(q)
    \/ Begins(q, "flash") /\ KeepsRx(q) /\ Ends(Tail(q), "send")

LEMMA Cons ==
    ASSUME NEW S, NEW a \in S, NEW q \in Seq(S)
    PROVE  /\ <<a>> \o q \in Seq(S) /\ <<a>> \o q # <<>>
           /\ Head(<<a>> \o q) = a /\ Tail(<<a>> \o q) = q
  <1> DEFINE r == <<a>> \o q
  <1>1. <<a>> \in Seq(S) /\ Len(<<a>>) = 1 /\ <<a>>[1] = a
    OBVIOUS
  <1>2. Len(q) \in Nat
    OBVIOUS
  <1>3. /\ r \in Seq(S) /\ Len(r) = 1 + Len(q)
        /\ \A i \in 1 .. 1 + Len(q) : r[i] = IF i <= 1 THEN a ELSE q[i - 1]
    BY <1>1, ConcatProperties
  <1> HIDE DEF r
  <1>4. r # <<>> /\ Head(r) = r[1] /\ r[1] = a
    BY <1>2, <1>3
  <1>5. /\ Tail(r) \in Seq(S) /\ Len(Tail(r)) = Len(q)
        /\ \A i \in 1 .. Len(q) : Tail(r)[i] = r[i + 1]
    BY <1>2, <1>3, <1>4, HeadTailProperties
  <1>6. ASSUME NEW i \in 1 .. Len(q) PROVE r[i + 1] = q[i]
    <2>1. i + 1 \in 1 .. 1 + Len(q) /\ ~(i + 1 <= 1) /\ (i + 1) - 1 = i
      BY <1>2
    <2> QED BY <1>3, <2>1
  <1>7. Tail(r) = q
    BY <1>5, <1>6, SeqEqual
  <1> QED BY <1>3, <1>4, <1>7 DEF r

LEMMA Pair ==
    ASSUME NEW S, NEW a \in S, NEW b \in S
    PROVE  <<a, b>> = <<a>> \o <<b>>
  <1> DEFINE p == <<a>>
             q == <<b>>
             r == <<a, b>>
  <1>1. p \in Seq(S) /\ Len(p) = 1 /\ p[1] = a /\ q \in Seq(S) /\ Len(q) = 1 /\ q[1] = b
    OBVIOUS
  <1>2. r \in Seq(S) /\ Len(r) = 2 /\ r[1] = a /\ r[2] = b
    OBVIOUS
  <1> HIDE DEF p, q, r
  <1>3. /\ p \o q \in Seq(S) /\ Len(p \o q) = 2
        /\ (p \o q)[1] = a /\ (p \o q)[2] = b
    BY <1>1, ConcatProperties
  <1>4. \A i \in 1 .. 2 : i = 1 \/ i = 2
    OBVIOUS
  <1>5. \A i \in 1 .. Len(r) : r[i] = (p \o q)[i]
    BY <1>2, <1>3, <1>4
  <1>6. r = p \o q
    BY <1>2, <1>3, <1>5, SeqEqual
  <1> QED BY <1>6 DEF p, q, r

LEMMA One == \A a \in Ops : <<a>> \in Seq(Ops)
  BY Tuples, Zenon

LEMMA Two == \A a, b \in Ops : <<a, b>> \in Seq(Ops) /\ <<a, b>> = <<a>> \o <<b>>
  BY Tuples, Pair, Zenon

LEMMA Joined == \A p, q \in Seq(Ops) : p \o q \in Seq(Ops)
  BY ConcatProperties, Zenon

LEMMA Associative ==
    ASSUME NEW p \in Seq(Ops), NEW q \in Seq(Ops), NEW r \in Seq(Ops)
    PROVE  (p \o q) \o r = p \o (q \o r)
  BY ConcatAssociative

LEMMA First ==
    ASSUME NEW a \in Ops, NEW q \in Seq(Ops)
    PROVE  /\ <<a>> \o q \in Seq(Ops) /\ <<a>> \o q # <<>>
           /\ Head(<<a>> \o q) = a /\ Tail(<<a>> \o q) = q
  BY Cons, Zenon

LEMMA FirstOfTwo ==
    ASSUME NEW a \in Ops, NEW b \in Ops, NEW q \in Seq(Ops)
    PROVE  /\ <<a, b>> \o q # <<>> /\ Head(<<a, b>> \o q) = a
           /\ <<a, b>> \o q = <<a>> \o (<<b>> \o q)
           /\ Tail(<<a, b>> \o q) = <<b>> \o q
  <1>1. <<a>> \in Seq(Ops) /\ <<b>> \in Seq(Ops) /\ <<a, b>> = <<a>> \o <<b>>
    BY One, Two, Zenon
  <1>2. (<<a>> \o <<b>>) \o q = <<a>> \o (<<b>> \o q)
    BY <1>1, Associative
  <1>3. <<a, b>> \o q = <<a>> \o (<<b>> \o q)
    BY <1>1, <1>2, Zenon
  <1>4. <<b>> \o q \in Seq(Ops)
    BY First
  <1> QED BY <1>3, <1>4, First

LEMMA AllOfConcat ==
    ASSUME NEW p \in Seq(Ops), NEW q \in Seq(Ops)
    PROVE  /\ p \o q \in Seq(Ops)
           /\ Quiet(p) /\ Quiet(q) => Quiet(p \o q)
           /\ KeepsRx(p) /\ KeepsRx(q) => KeepsRx(p \o q)
  <1> DEFINE r == p \o q
             m == Len(p)
             n == Len(q)
  <1>1. m \in Nat /\ n \in Nat
    OBVIOUS
  <1>2. /\ r \in Seq(Ops) /\ Len(r) = m + n
        /\ \A i \in 1 .. m + n : r[i] = IF i <= m THEN p[i] ELSE q[i - m]
    BY ConcatProperties
  <1> HIDE DEF r, m, n
  <1>3. \A i \in 1 .. m + n :
           (i \in 1 .. m /\ r[i] = p[i]) \/ (i - m \in 1 .. n /\ r[i] = q[i - m])
    BY <1>1, <1>2
  <1>4. Quiet(p) /\ Quiet(q) => Quiet(r)
    BY <1>2, <1>3 DEF Quiet, m, n
  <1>5. KeepsRx(p) /\ KeepsRx(q) => KeepsRx(r)
    BY <1>2, <1>3 DEF KeepsRx, m, n
  <1> QED BY <1>2, <1>4, <1>5 DEF r

LEMMA AllOfTail ==
    ASSUME NEW q \in Seq(Ops), q # <<>>
    PROVE  /\ Tail(q) \in Seq(Ops)
           /\ Quiet(q) => Quiet(Tail(q)) /\ Head(q)[1] \in {"read", "write rx", "clear rx"}
           /\ KeepsRx(q) => KeepsRx(Tail(q)) /\ Head(q)[1] # "clear rx"
  <1> DEFINE n == Len(q)
             t == Tail(q)
  <1>1. /\ n \in Nat /\ n > 0 /\ Head(q) = q[1]
        /\ t \in Seq(Ops) /\ Len(t) = n - 1
        /\ \A i \in 1 .. Len(t) : t[i] = q[i + 1]
    BY HeadTailProperties
  <1> HIDE DEF n, t
  <1>2. 1 \in 1 .. n /\ \A i \in 1 .. Len(t) : i + 1 \in 1 .. n
    BY <1>1
  <1>3. Quiet(q) => Quiet(t) /\ Head(q)[1] \in {"read", "write rx", "clear rx"}
    BY <1>1, <1>2 DEF Quiet, n
  <1>4. KeepsRx(q) => KeepsRx(t) /\ Head(q)[1] # "clear rx"
    BY <1>1, <1>2 DEF KeepsRx, n
  <1> QED BY <1>1, <1>3, <1>4 DEF t

LEMMA NoIndex == ~ \E i \in 1 .. 0 : TRUE
  OBVIOUS

LEMMA AllOfNone == Quiet(<<>>) /\ KeepsRx(<<>>) /\ <<>> \in Seq(Ops)
  BY NoIndex DEF Quiet, KeepsRx

LEMMA AllOfCons ==
    ASSUME NEW a \in Ops, NEW q \in Seq(Ops)
    PROVE  /\ Quiet(q) /\ a[1] \in {"read", "write rx", "clear rx"} => Quiet(<<a>> \o q)
           /\ KeepsRx(q) /\ a[1] # "clear rx" => KeepsRx(<<a>> \o q)
  <1> DEFINE p == <<a>>
  <1>1. p \in Seq(Ops) /\ Len(p) = 1 /\ p[1] = a
    OBVIOUS
  <1> HIDE DEF p
  <1>2. \A i \in 1 .. 1 : i = 1
    OBVIOUS
  <1>3. a[1] \in {"read", "write rx", "clear rx"} => Quiet(p)
    BY <1>1, <1>2 DEF Quiet
  <1>4. a[1] # "clear rx" => KeepsRx(p)
    BY <1>1, <1>2 DEF KeepsRx
  <1>5. /\ Quiet(q) /\ a[1] \in {"read", "write rx", "clear rx"} => Quiet(p \o q)
        /\ KeepsRx(q) /\ a[1] # "clear rx" => KeepsRx(p \o q)
    BY <1>1, <1>3, <1>4, AllOfConcat
  <1> QED BY <1>5 DEF p

(* How a handler goes on, by the pieces the code is made of.                *)
LEMMA ResumeRx ==
    ASSUME NEW q \in Seq(Ops)
    PROVE  /\ SetRx(VALID) \in Seq(Ops) /\ RxAcknowledge \in Seq(Ops)
           /\ SetRx(VALID) \o q \in Seq(Ops) /\ RxAcknowledge \o q \in Seq(Ops)
           /\ Quiet(q) => Quiet(SetRx(VALID) \o q) /\ Quiet(RxAcknowledge \o q)
           /\ KeepsRx(q) => KeepsRx(SetRx(VALID) \o q)
  <1> DEFINE rd == <<"read">>
             wr == <<"write rx", VALID>>
             cl == <<"clear rx">>
             w == SetRx(VALID)
             a == RxAcknowledge
  <1>1. rd \in Ops /\ rd[1] = "read" /\ cl \in Ops /\ cl[1] = "clear rx"
    BY Singles DEF Names
  <1>2. wr \in Ops /\ wr[1] = "write rx"
    BY Writes
  <1>3. w = <<rd, wr>> /\ a = <<cl>> \o w
    BY DEF SetRx, RxAcknowledge
  <1> HIDE DEF rd, wr, cl, w, a
  <1>4. w \in Seq(Ops) /\ w \o q = <<rd>> \o (<<wr>> \o q) /\ <<wr>> \o q \in Seq(Ops)
    <2>1. w \in Seq(Ops)
      BY <1>1, <1>2, <1>3, Two, Zenon
    <2>2. w \o q = <<rd>> \o (<<wr>> \o q)
      BY <1>1, <1>2, <1>3, FirstOfTwo
    <2>3. <<wr>> \o q \in Seq(Ops)
      BY <1>2, First
    <2> QED BY <2>1, <2>2, <2>3
  <1>5. <<cl>> \in Seq(Ops) /\ a \in Seq(Ops) /\ w \o q \in Seq(Ops)
    BY <1>1, <1>3, <1>4, One, Joined, Zenon
  <1>6. a \o q = <<cl>> \o (w \o q)
    BY <1>3, <1>4, <1>5, Associative
  <1>7. a \o q \in Seq(Ops)
    BY <1>5, Joined
  <1>8. ASSUME Quiet(q) PROVE Quiet(w \o q) /\ Quiet(a \o q)
    <2>1. Quiet(<<wr>> \o q)
      BY <1>2, <1>8, AllOfCons
    <2>2. Quiet(w \o q)
      BY <1>1, <1>4, <2>1, AllOfCons
    <2> QED BY <1>1, <1>5, <1>6, <2>2, AllOfCons
  <1>9. ASSUME KeepsRx(q) PROVE KeepsRx(w \o q)
    <2>1. KeepsRx(<<wr>> \o q)
      BY <1>2, <1>9, AllOfCons
    <2> QED BY <1>1, <1>4, <2>1, AllOfCons
  <1> QED BY <1>4, <1>5, <1>7, <1>8, <1>9 DEF w, a

LEMMA ResumeTx ==
    ASSUME NEW q \in Seq(Ops), Quiet(q), NEW s \in Status
    PROVE  /\ SetTx(s) \in Seq(Ops) /\ SetTx(s) \o q \in Seq(Ops)
           /\ Setting(SetTx(s) \o q, s)
           /\ KeepsRx(q) => KeepsRx(SetTx(s) \o q)
  <1> DEFINE rd == <<"read">>
             wt == <<"write tx", s>>
             w == SetTx(s)
  <1>1. rd \in Ops /\ rd[1] = "read" /\ rd[1] # "clear rx"
    BY Singles DEF Names
  <1>2. wt \in Ops /\ wt[1] = "write tx" /\ wt[1] # "clear rx" /\ wt[2] = s
    BY Writes
  <1>3. w = <<rd, wt>>
    BY DEF SetTx
  <1> HIDE DEF rd, wt, w
  <1>4. w \in Seq(Ops) /\ <<wt>> \o q \in Seq(Ops)
    BY <1>1, <1>2, <1>3, Two, First
  <1>5. /\ w \o q # <<>> /\ Head(w \o q) = rd /\ Tail(w \o q) = <<wt>> \o q
        /\ w \o q = <<rd>> \o (<<wt>> \o q)
    BY <1>1, <1>2, <1>3, FirstOfTwo
  <1>6. <<wt>> \o q # <<>> /\ Head(<<wt>> \o q) = wt /\ Tail(<<wt>> \o q) = q
    BY <1>2, First
  <1>7. Setting(w \o q, s)
    BY <1>1, <1>2, <1>5, <1>6, Zenon DEF Setting, Writing, Ends, Begins
  <1>8. KeepsRx(q) => KeepsRx(w \o q)
    BY <1>1, <1>2, <1>4, <1>5, AllOfCons
  <1>9. w \o q \in Seq(Ops)
    BY <1>4, Joined
  <1> QED BY <1>4, <1>7, <1>8, <1>9 DEF w

LEMMA ResumeChunk ==
    ASSUME NEW q \in Seq(Ops), Quiet(q)
    PROVE  /\ Chunk \in Seq(Ops) /\ Chunking(Chunk \o q)
           /\ KeepsRx(q) => KeepsRx(Chunk \o q)
  <1> DEFINE ch == <<"chunk">>
             w == SetTx(VALID)
             c == Chunk
  <1>1. ch \in Ops /\ ch[1] = "chunk" /\ ch[1] # "clear rx"
    BY Singles DEF Names
  <1>2. c = <<ch>> \o w
    BY DEF Chunk
  <1>3. VALID \in Status
    BY Fields
  <1>4. /\ w \in Seq(Ops) /\ w \o q \in Seq(Ops)
        /\ Setting(w \o q, VALID)
        /\ KeepsRx(q) => KeepsRx(w \o q)
    BY <1>3, ResumeTx
  <1> HIDE DEF ch, w, c
  <1>5. <<ch>> \in Seq(Ops) /\ c \in Seq(Ops)
    BY <1>1, <1>2, <1>4, One, Joined, Zenon
  <1>6. c \o q = <<ch>> \o (w \o q)
    BY <1>2, <1>4, <1>5, Associative
  <1>7. c \o q # <<>> /\ Head(c \o q) = ch /\ Tail(c \o q) = w \o q
    BY <1>1, <1>4, <1>6, First
  <1>8. Chunking(c \o q)
    BY <1>1, <1>4, <1>7 DEF Chunking, Begins
  <1>9. KeepsRx(q) => KeepsRx(c \o q)
    BY <1>1, <1>4, <1>6, AllOfCons
  <1> QED BY <1>5, <1>8, <1>9 DEF c

LEMMA ResumeTxRx ==
    ASSUME NEW q \in Seq(Ops), Quiet(q), NEW s \in Status
    PROVE  /\ Setting((SetTx(s) \o SetRx(VALID)) \o q, s)
           /\ Chunking((Chunk \o SetRx(VALID)) \o q)
           /\ KeepsRx(q) => /\ KeepsRx((SetTx(s) \o SetRx(VALID)) \o q)
                            /\ KeepsRx((Chunk \o SetRx(VALID)) \o q)
  <1> DEFINE w == SetRx(VALID)
             r == w \o q
             x == SetTx(s)
             c == Chunk
  <1>1. r \in Seq(Ops) /\ Quiet(r) /\ (KeepsRx(q) => KeepsRx(r)) /\ w \in Seq(Ops)
    BY ResumeRx
  <1> HIDE DEF r
  <1>2. /\ x \in Seq(Ops) /\ Setting(x \o r, s)
        /\ KeepsRx(r) => KeepsRx(x \o r)
    BY <1>1, ResumeTx
  <1>3. /\ c \in Seq(Ops) /\ Chunking(c \o r)
        /\ KeepsRx(r) => KeepsRx(c \o r)
    BY <1>1, ResumeChunk
  <1> HIDE DEF w, x, c
  <1>4. (x \o w) \o q = x \o r /\ (c \o w) \o q = c \o r
    <2>1. (x \o w) \o q = x \o (w \o q)
      BY <1>1, <1>2, Associative
    <2>2. (c \o w) \o q = c \o (w \o q)
      BY <1>1, <1>3, Associative
    <2> QED BY <2>1, <2>2 DEF r
  <1>5. /\ Setting((x \o w) \o q, s) /\ Chunking((c \o w) \o q)
        /\ KeepsRx(q) => KeepsRx((x \o w) \o q) /\ KeepsRx((c \o w) \o q)
    BY <1>1, <1>2, <1>3, <1>4, Zenon
  <1> QED BY <1>5 DEF w, x, c

LEMMA ResumeOne ==
    ASSUME NEW q \in Seq(Ops), Quiet(q), NEW k \in {"zlp", "stall"}
    PROVE  Ends(<<<<k>>>> \o q, k) /\ (KeepsRx(q) => KeepsRx(<<<<k>>>> \o q))
  <1> DEFINE op == <<k>>
  <1>1. k \in Names \ {"send", "write rx", "write tx"} /\ k # "clear rx"
    BY DEF Names
  <1>2. op \in Ops /\ op[1] = k
    BY <1>1, Singles
  <1> HIDE DEF op
  <1>3. <<op>> \o q # <<>> /\ Head(<<op>> \o q) = op /\ Tail(<<op>> \o q) = q
    BY <1>2, First
  <1>4. KeepsRx(q) => KeepsRx(<<op>> \o q)
    BY <1>1, <1>2, AllOfCons
  <1>5. Ends(<<op>> \o q, k)
    BY <1>2, <1>3, Zenon DEF Ends, Begins
  <1> QED BY <1>4, <1>5 DEF op

LEMMA ResumeLast ==
    ASSUME NEW q \in Seq(Ops), Quiet(q)
    PROVE  Ends((<<<<"zlp">>>> \o RxAcknowledge) \o q, "zlp")
  <1> DEFINE z == <<"zlp">>
             a == RxAcknowledge
             r == a \o q
  <1>1. z \in Ops
    BY Singles DEF Names
  <1>2. a \in Seq(Ops) /\ r \in Seq(Ops) /\ Quiet(r)
    BY ResumeRx
  <1> HIDE DEF r
  <1>3. Ends(<<z>> \o r, "zlp")
    BY <1>2, ResumeOne
  <1> HIDE DEF z, a
  <1>4. (<<z>> \o a) \o q = <<z>> \o r
    BY <1>1, <1>2, One, Associative DEF r
  <1>5. Ends((<<z>> \o a) \o q, "zlp")
    BY <1>3, <1>4, Zenon
  <1> QED BY <1>5 DEF z, a

LEMMA ResumeSend ==
    ASSUME NEW q \in Seq(Ops), Quiet(q), NEW t \in {0, 1}, NEW n \in Nat
    PROVE  /\ Sending(<<<<"send", t, n>>>> \o q, t, n)
           /\ Flashing(<<<<"flash">>, <<"send", t, n>>>> \o q, t, n)
           /\ KeepsRx(q) => /\ KeepsRx(<<<<"send", t, n>>>> \o q)
                            /\ KeepsRx(<<<<"flash">>, <<"send", t, n>>>> \o q)
  <1> DEFINE fl == <<"flash">>
             sd == <<"send", t, n>>
  <1>1. fl \in Ops /\ fl[1] = "flash" /\ fl[1] # "clear rx"
    BY Singles DEF Names
  <1>2. sd \in Ops
    BY Sends
  <1>3. sd[1] = "send" /\ sd[1] # "clear rx" /\ sd[2] = t /\ sd[3] = n
    OBVIOUS
  <1> HIDE DEF fl, sd
  <1>4. /\ <<sd>> \o q \in Seq(Ops) /\ <<sd>> \o q # <<>>
        /\ Head(<<sd>> \o q) = sd /\ Tail(<<sd>> \o q) = q
    BY <1>2, First
  <1>5. Sending(<<sd>> \o q, t, n)
    BY <1>3, <1>4, Zenon DEF Sending, Ends, Begins
  <1>6. /\ <<fl, sd>> \o q # <<>> /\ Head(<<fl, sd>> \o q) = fl
        /\ Tail(<<fl, sd>> \o q) = <<sd>> \o q
        /\ <<fl, sd>> \o q = <<fl>> \o (<<sd>> \o q)
    BY <1>1, <1>2, FirstOfTwo
  <1>7. Flashing(<<fl, sd>> \o q, t, n)
    BY <1>1, <1>5, <1>6, Zenon DEF Flashing, Begins
  <1>8. KeepsRx(q) => KeepsRx(<<sd>> \o q) /\ KeepsRx(<<fl, sd>> \o q)
    BY <1>1, <1>2, <1>3, <1>4, <1>6, AllOfCons
  <1> QED BY <1>5, <1>7, <1>8 DEF fl, sd

-----------------------------------------------------------------------------
(* What a write to EP0R, and a packet, does to its other fields.            *)

LEMMA XorBack == \A a, s \in Status : Xor(a, Xor(a, s)) = s
  <1> USE DEF Xor, Status, DISABLED, VALID
  <1>1. \A a \in Status : a \in {0, 1, 2, 3}
    OBVIOUS
  <1>2. \A a, s \in {0, 1, 2, 3} : Xor(a, Xor(a, s)) = s
    OBVIOUS
  <1> QED BY <1>1, <1>2

LEMMA WrittenFields ==
    ASSUME NEW r \in Register, NEW c \in BOOLEAN, NEW d \in BOOLEAN, NEW rx, NEW tx
    PROVE  /\ Written(r, c, d, rx, tx).ctr_rx = (r.ctr_rx /\ c)
           /\ Written(r, c, d, rx, tx).ctr_tx = (r.ctr_tx /\ d)
           /\ Written(r, c, d, rx, tx).setup = r.setup
           /\ Written(r, c, d, rx, tx).stat_rx = Xor(r.stat_rx, rx)
           /\ Written(r, c, d, rx, tx).stat_tx = Xor(r.stat_tx, tx)
  BY DEF Written, Register

Same(r, w) == w.ctr_rx = r.ctr_rx /\ w.ctr_tx = r.ctr_tx /\ w.setup = r.setup

LEMMA WroteTx ==
    ASSUME NEW r \in Register, NEW s \in Status, NEW w,
           w = Written(r, r.ctr_rx, r.ctr_tx, RxUntouched, Xor(r.stat_tx, s))
    PROVE  Same(r, w) /\ w.stat_rx = r.stat_rx /\ w.stat_tx = s
  <1>1. /\ r.ctr_rx \in BOOLEAN /\ r.ctr_tx \in BOOLEAN
        /\ r.stat_rx \in Status /\ r.stat_tx \in Status
    BY DEF Register
  <1>2. /\ w.ctr_rx = (r.ctr_rx /\ r.ctr_rx) /\ w.ctr_tx = (r.ctr_tx /\ r.ctr_tx)
        /\ w.setup = r.setup /\ w.stat_rx = Xor(r.stat_rx, RxUntouched)
        /\ w.stat_tx = Xor(r.stat_tx, Xor(r.stat_tx, s))
    BY <1>1, WrittenFields
  <1>3. w.stat_rx = r.stat_rx /\ w.stat_tx = s
    BY <1>1, <1>2, XorFacts, XorBack
  <1> QED BY <1>1, <1>2, <1>3 DEF Same

LEMMA WroteRx ==
    ASSUME NEW r \in Register, NEW s \in Status, NEW w,
           w = Written(r, r.ctr_rx, r.ctr_tx, Xor(r.stat_rx, s), 0)
    PROVE  Same(r, w) /\ w.stat_rx = s /\ w.stat_tx = r.stat_tx
  <1>1. /\ r.ctr_rx \in BOOLEAN /\ r.ctr_tx \in BOOLEAN
        /\ r.stat_rx \in Status /\ r.stat_tx \in Status
    BY DEF Register
  <1>2. /\ w.ctr_rx = (r.ctr_rx /\ r.ctr_rx) /\ w.ctr_tx = (r.ctr_tx /\ r.ctr_tx)
        /\ w.setup = r.setup /\ w.stat_rx = Xor(r.stat_rx, Xor(r.stat_rx, s))
        /\ w.stat_tx = Xor(r.stat_tx, 0)
    BY <1>1, WrittenFields
  <1>3. w.stat_rx = s /\ w.stat_tx = r.stat_tx
    BY <1>1, <1>2, XorFacts, XorBack
  <1> QED BY <1>1, <1>2, <1>3 DEF Same

LEMMA Cleared ==
    ASSUME NEW r \in Register
    PROVE  /\ ~Written(r, FALSE, TRUE, 0, 0).ctr_rx
           /\ Written(r, FALSE, TRUE, 0, 0).setup = r.setup
           /\ Written(r, FALSE, TRUE, 0, 0).ctr_tx = r.ctr_tx
           /\ Written(r, FALSE, TRUE, 0, 0).stat_tx = r.stat_tx
           /\ Written(r, FALSE, TRUE, 0, 0).stat_rx = r.stat_rx
           /\ Written(r, TRUE, FALSE, 0, 0).ctr_rx = r.ctr_rx
           /\ Written(r, TRUE, FALSE, 0, 0).setup = r.setup
           /\ ~Written(r, TRUE, FALSE, 0, 0).ctr_tx
           /\ Written(r, TRUE, FALSE, 0, 0).stat_tx = r.stat_tx
  <1>1. /\ r.ctr_rx \in BOOLEAN /\ r.ctr_tx \in BOOLEAN
        /\ r.stat_rx \in Status /\ r.stat_tx \in Status
    BY DEF Register
  <1>2. Xor(r.stat_rx, 0) = r.stat_rx /\ Xor(r.stat_tx, 0) = r.stat_tx
    BY <1>1, XorFacts
  <1>3. \A c, d \in BOOLEAN :
           /\ Written(r, c, d, 0, 0).ctr_rx = (r.ctr_rx /\ c)
           /\ Written(r, c, d, 0, 0).ctr_tx = (r.ctr_tx /\ d)
           /\ Written(r, c, d, 0, 0).setup = r.setup
           /\ Written(r, c, d, 0, 0).stat_rx = r.stat_rx
           /\ Written(r, c, d, 0, 0).stat_tx = r.stat_tx
    <2> SUFFICES ASSUME NEW c \in BOOLEAN, NEW d \in BOOLEAN
                 PROVE  /\ Written(r, c, d, 0, 0).ctr_rx = (r.ctr_rx /\ c)
                        /\ Written(r, c, d, 0, 0).ctr_tx = (r.ctr_tx /\ d)
                        /\ Written(r, c, d, 0, 0).setup = r.setup
                        /\ Written(r, c, d, 0, 0).stat_rx = r.stat_rx
                        /\ Written(r, c, d, 0, 0).stat_tx = r.stat_tx
      OBVIOUS
    <2> QED BY <1>2, WrittenFields
  <1> QED BY <1>1, <1>3, Zenon

LEMMA ReceivedFields ==
    ASSUME RegisterOK, NEW s \in BOOLEAN
    PROVE  /\ Received(s).ctr_rx /\ Received(s).ctr_tx = ep0r.ctr_tx
           /\ Received(s).setup = s
           /\ Received(s).stat_rx = NAK
           /\ Received(s).stat_tx = IF s THEN NAK ELSE ep0r.stat_tx
  BY DEF RegisterOK, Register, Received

-----------------------------------------------------------------------------
(* The reply, cut into what the host has, what is loaded and what is left.  *)

Reply == Bytes(tag, AtMost(request.reply, request.wLength))

Remains == taken \o ep0_tx_left = Reply
Loaded ==
    /\ (taken \o tx_packet) \o ep0_tx_left = Reply
    /\ ep0_tx_left # <<>> => Len(tx_packet) = EP0_MAX_SIZE

LEMMA ReplyType ==
    ASSUME HostOK
    PROVE  /\ Reply \in Seq(Byte)
           /\ Len(Reply) <= request.wLength /\ request.wLength \in Nat
  <1>1. request.reply \in Nat /\ request.wLength \in Nat /\ tag \in {0, 1}
    BY RequestFields DEF HostOK
  <1> DEFINE n == AtMost(request.reply, request.wLength)
  <1>2. n \in Nat /\ n <= request.wLength
    BY <1>1 DEF AtMost
  <1>3. Reply = Bytes(tag, n)
    BY DEF Reply
  <1> HIDE DEF n
  <1>4. Bytes(tag, n) \in Seq(Byte)
    BY <1>1, <1>2, BytesType
  <1>5. Len(Bytes(tag, n)) = n
    BY <1>2 DEF Bytes
  <1> QED BY <1>1, <1>2, <1>3, <1>4, <1>5

LEMMA Split ==
    ASSUME NEW q \in Seq(Byte), NEW m \in Nat, m <= Len(q)
    PROVE  SubSeq(q, 1, m) \o SubSeq(q, m + 1, Len(q)) = q
  <1>1. 1 \in 1 .. Len(q) + 1 /\ m \in 1 - 1 .. Len(q) /\ Len(q) \in m .. Len(q)
    OBVIOUS
  <1>2. SubSeq(q, 1, m) \o SubSeq(q, m + 1, Len(q)) = SubSeq(q, 1, Len(q))
    BY <1>1, ConcatAdjacentSubSeq
  <1> QED BY <1>2, SubSeqFull

LEMMA BytesAssociative ==
    ASSUME NEW p \in Seq(Byte), NEW q \in Seq(Byte), NEW r \in Seq(Byte)
    PROVE  (p \o q) \o r = p \o (q \o r)
  BY ConcatAssociative

(* The packet the host takes brings it to where the reply has come.         *)
LEMMA TakenPart ==
    ASSUME NEW p \in Seq(Byte), NEW x \in Seq(Byte), NEW q \in Seq(Byte), NEW m \in Nat,
           Len(x) <= m, q # <<>> => Len(x) = m
    PROVE  LET w == (p \o x) \o q
               upto == AtMost(Len(p) + m, Len(w))
           IN  /\ p \o x = SubSeq(w, 1, upto) /\ upto = Len(p \o x)
               /\ upto = Len(p) + m <=> ~(Len(x) < m)
  <1> DEFINE y == p \o x
             w == y \o q
             upto == AtMost(Len(p) + m, Len(w))
  <1>1. y \in Seq(Byte) /\ Len(y) = Len(p) + Len(x)
    BY ConcatProperties
  <1>2. w \in Seq(Byte) /\ Len(w) = Len(y) + Len(q)
    <2> HIDE DEF y
    <2> QED BY <1>1, ConcatProperties
  <1>3. Len(p) \in Nat /\ Len(x) \in Nat /\ Len(q) \in Nat /\ (Len(q) # 0 => Len(x) = m)
    OBVIOUS
  <1>4. upto = Len(y) /\ (upto = Len(p) + m <=> ~(Len(x) < m))
    <2> HIDE DEF y, w
    <2> DEFINE a == Len(p)
               b == Len(x)
               c == Len(q)
    <2>1. a \in Nat /\ b \in Nat /\ c \in Nat /\ b <= m /\ (c # 0 => b = m)
      BY <1>3
    <2>2. Len(y) = a + b /\ Len(w) = (a + b) + c
      BY <1>1, <1>2
    <2> HIDE DEF a, b, c
    <2>3. AtMost(a + m, (a + b) + c) = a + b /\ (a + b = a + m <=> ~(b < m))
      BY <2>1 DEF AtMost
    <2> QED BY <2>2, <2>3 DEF a, b
  <1>5. SubSeq(w, 1, Len(y)) = y
    <2> HIDE DEF y
    <2> QED BY <1>1, SubSeqOfConcat1, SubSeqFull
  <1> QED BY <1>4, <1>5

-----------------------------------------------------------------------------
(* The invariant.                                                           *)

(* A SETUP that usb_poll has not handled yet.                               *)
New == ep0r.ctr_rx /\ ep0r.setup
Calm == ep0r.stat_tx = NAK /\ ep0r.stat_rx = NAK
NoneOwed == state = "other" /\ expected = 0

(* Of every state, one with a bus reset outstanding too.                    *)
Underway ==
    /\ Shape(todo)
    /\ ~(ep0r.ctr_rx /\ ep0r.ctr_tx)
    /\ New => KeepsRx(todo)
    /\ stage # "data out" => left = 0
    /\ stage = "data out" => request.kind = "write"
    /\ isr_reset => stage = "done" /\ ~ep0r.setup

(* A handler runs for the flag it was started by and writes EP0R from what  *)
(* it still is; a flash operation leaves EP0 deaf to all but a SETUP.       *)
Caught ==
    /\ At("setup") => New
    /\ At("out") => ep0r.ctr_rx /\ ~ep0r.setup
    /\ At("in") => ep0r.ctr_tx
    /\ At("write tx") => val = ep0r
    /\ At("write rx") => val = ep0r
    /\ At("flash") => Calm /\ ~ep0r.ctr_tx /\ NoneOwed
    /\ ep0r.ctr_rx /\ ~ep0r.setup =>
          \/ stage \in {"data out", "done"}
          \/ stage = "status in" /\ request.kind = "write"

(* The SETUP that waits is the host's last one.  Where the handler of the   *)
(* one before it, interrupted in its flash operation, loads its reply after *)
(* that SETUP, no download is left that could make another stale.           *)
Waits ==
    New => /\ rx_packet.request = request /\ rx_packet.tag = tag
           /\ stage = FirstStage(request) /\ taken = <<>>
           /\ left = IF request.kind = "write" THEN request.wLength ELSE 0
           /\ NoneOwed \/ (Calm /\ (todo = <<>> \/ At("setup")))

(* The download under way lacks what the host has still to send.            *)
Unseen == IF ep0r.ctr_rx /\ (todo = <<>> \/ At("out")) THEN 1 ELSE 0
Lacks ==
    /\ state = "DNLOAD_SYNC" /\ expected > 0 /\ expected = left + Unseen
    /\ Unseen = 1 => rx_packet.data
    /\ ep0r.ctr_rx => todo = <<>> \/ At("out") \/ At("clear rx")

Refusing ==
    /\ ~ep0r.ctr_tx
    /\ \/ Ends(todo, "stall") \/ Setting(todo, STALL) \/ Writing(todo, STALL)
       \/ Quiet(todo) /\ ep0r.stat_tx = STALL

Replying ==
    \/ /\ ~ep0r.ctr_tx
       /\ Sending(todo, tag, request.reply) \/ Flashing(todo, tag, request.reply)
       /\ taken = <<>> /\ ep0_req_len = request.wLength
    \/ ~ep0r.ctr_tx /\ Chunking(todo) /\ Remains
    \/ ~ep0r.ctr_tx /\ Setting(todo, VALID) /\ Loaded
    \/ ~ep0r.ctr_tx /\ Writing(todo, VALID) /\ Loaded
    \/ ~ep0r.ctr_tx /\ Quiet(todo) /\ ep0r.stat_tx = VALID /\ Loaded
    \/ ~ep0r.ctr_tx /\ Quiet(todo) /\ ep0r.stat_tx = NAK
    \/ ep0r.ctr_tx /\ (todo = <<>> \/ Only(todo, "in")) /\ ep0r.stat_tx = NAK /\ Remains

(* Before and in its status stage the host is sent nothing.                 *)
Finishing ==
    /\ ~ep0r.ctr_tx
    /\ \/ Ends(todo, "send") /\ ep0_req_len = 0
       \/ Begins(todo, "flash") /\ ep0_req_len = 0
       \/ Chunking(todo) /\ ep0_tx_left = <<>>
       \/ Ends(todo, "zlp") \/ Ends(todo, "stall")
       \/ Setting(todo, STALL) \/ Writing(todo, STALL)
       \/ Setting(todo, VALID) /\ tx_packet = <<>>
       \/ Writing(todo, VALID) /\ tx_packet = <<>>
       \/ /\ Quiet(todo) \/ Only(todo, "out")
          /\ ep0r.stat_tx = VALID => tx_packet = <<>> \/ Lacks

Served ==
    ~New => /\ stage = "data in" => IF request.kind = "refuse" THEN Refusing ELSE Replying
            /\ stage \in {"data out", "status in"} => Finishing

ReplyInv == Underway /\ (~isr_reset => Caught /\ Waits /\ Served)

-----------------------------------------------------------------------------
(* Steps of the firmware.                                                   *)

(* What may follow any step but usb_poll, handle_setup and a reading.       *)
Moves(q) ==
    \/ Quiet(q) \/ Chunking(q)
    \/ Setting(q, STALL) \/ Setting(q, VALID)
    \/ Ends(q, "zlp") \/ Ends(q, "stall") \/ Ends(q, "send")

LEMMA QuietBegins ==
    ASSUME NEW q \in Seq(Ops), Quiet(q), NEW k, Begins(q, k)
    PROVE  k \in {"read", "write rx", "clear rx"}
  BY AllOfTail DEF Begins

LEMMA MovesBegins ==
    ASSUME NEW q \in Seq(Ops), Moves(q)
    PROVE  /\ Shape(q)
           /\ ~Begins(q, "setup") /\ ~Begins(q, "out") /\ ~Begins(q, "in")
           /\ ~Begins(q, "write tx") /\ ~Begins(q, "flash")
  <1>1. CASE Quiet(q)
    <2>1. q # <<>> => Head(q)[1] \in {"read", "write rx", "clear rx"}
      BY <1>1, AllOfTail
    <2>2. \A k : q = <<>> \/ k # Head(q)[1] => ~Begins(q, k)
      BY DEF Begins
    <2>3. Shape(q)
      BY <1>1 DEF Shape
    <2> QED BY <2>1, <2>2, <2>3
  <1>2. CASE ~Quiet(q)
    <2>1. Shape(q)
      BY <1>2, Zenon DEF Moves, Shape
    <2>2. \E k \in {"chunk", "read", "zlp", "stall", "send"} : Begins(q, k)
      BY <1>2, Zenon DEF Moves, Ends, Setting, Chunking
    <2>3. \A k : k # Head(q)[1] => ~Begins(q, k)
      BY DEF Begins
    <2>4. Head(q)[1] \in {"chunk", "read", "zlp", "stall", "send"}
      BY <2>2 DEF Begins
    <2> QED BY <2>1, <2>3, <2>4
  <1> QED BY <1>1, <1>2

(* Which of the shapes a handler may have, by where it is.                  *)
LEMMA Where ==
    ASSUME TodoOK, NEW k, At(k)
    PROVE  /\ todo \in Seq(Ops) /\ todo # <<>> /\ Head(todo)[1] = k
           /\ k \notin {"read", "write rx", "clear rx"} => ~Quiet(todo)
           /\ k # "read" => \A s : ~Setting(todo, s)
           /\ k # "write tx" => \A s : ~Writing(todo, s)
           /\ k # "chunk" => ~Chunking(todo)
           /\ k # "send" => \A t, n : ~Sending(todo, t, n)
           /\ k # "flash" => \A t, n : ~Flashing(todo, t, n)
           /\ \A j : k # j => ~Begins(todo, j) /\ ~Ends(todo, j) /\ ~Only(todo, j)
  <1>1. todo \in Seq(Ops) /\ todo # <<>> /\ Head(todo)[1] = k /\ Begins(todo, k)
    BY DEF At, Begins, TodoOK
  <1>2. \A j : Begins(todo, j) => k = j
    BY <1>1 DEF Begins
  <1>3. Quiet(todo) => k \in {"read", "write rx", "clear rx"}
    BY <1>1, QuietBegins
  <1> QED
    BY <1>1, <1>2, <1>3, Zenon
    DEF Begins, Ends, Only, Setting, Writing, Chunking, Sending, Flashing

Lowered ==
    /\ ep0r'.ctr_rx => ep0r.ctr_rx
    /\ ep0r'.ctr_tx => ep0r.ctr_tx
    /\ ep0r'.setup = ep0r.setup

HostStill == UNCHANGED <<stage, request, tag, taken, left, assigned, rx_packet, isr_reset>>

LEMMA FrameStep ==
    ASSUME TodoOK, ReplyInv, HostStill, Lowered,
           NEW k, At(k), k # "read", k # "setup", NEW ops, Piece(ops), Then(ops),
           Moves(todo'),
           New => (KeepsRx(todo) => KeepsRx(todo')) /\ UNCHANGED <<state, expected>>,
           ~isr_reset => Served'
    PROVE  ReplyInv'
  <1>1. TodoOK' /\ ~At("write rx")'
    BY ThenPiece
  <1>2. /\ Shape(todo')
        /\ ~At("setup")' /\ ~At("out")' /\ ~At("in")' /\ ~At("write tx")' /\ ~At("flash")'
    <2>1. todo' \in Seq(Ops)
      BY <1>1 DEF TodoOK
    <2> QED BY <2>1, MovesBegins DEF At, Begins
  <1>3. New' => New
    BY DEF Lowered, New
  <1>4. Underway'
    BY <1>2, <1>3 DEF ReplyInv, Underway, Lowered, HostStill
  <1>5. ASSUME ~isr_reset PROVE Caught'
    BY <1>1, <1>2, <1>5 DEF ReplyInv, Caught, Lowered, HostStill
  <1>6. ASSUME ~isr_reset PROVE Waits'
    <2>1. todo # <<>> /\ ~At("setup")
      BY DEF At
    <2>2. New' => New /\ NoneOwed /\ UNCHANGED <<state, expected>>
      BY <1>3, <1>6, <2>1 DEF ReplyInv, Waits
    <2> QED BY <1>6, <2>2 DEF ReplyInv, Waits, NoneOwed, HostStill
  <1> QED BY <1>4, <1>5, <1>6 DEF HostStill, ReplyInv

LEMMA ServedStep ==
    ASSUME Served, HostStill, New => New',
           request.kind = "refuse" /\ Refusing => Refusing',
           Replying => Replying', Finishing => Finishing'
    PROVE  Served'
  BY DEF Served, HostStill

LEMMA Drops ==
    ASSUME TodoOK, NEW k, At(k), Then(<<>>)
    PROVE  /\ todo \in Seq(Ops) /\ Tail(todo) \in Seq(Ops) /\ todo' = Tail(todo)
           /\ KeepsRx(todo) => KeepsRx(todo') /\ k # "clear rx"
           /\ Quiet(todo) => Quiet(todo')
           /\ Head(todo)[1] = k
  <1>1. todo \in Seq(Ops) /\ todo # <<>> /\ Head(todo)[1] = k
    BY DEF TodoOK, At
  <1>2. todo' = <<>> \o Tail(todo) /\ Tail(todo) \in Seq(Ops)
    BY <1>1, AllOfTail DEF Then
  <1>3. todo' = Tail(todo)
    BY <1>2, ConcatEmptySeq
  <1> QED BY <1>1, <1>2, <1>3, AllOfTail

LEMMA ChunkReply == Ep0Inv /\ ReplyInv /\ ep0_tx_chunk => ReplyInv'
  <1> SUFFICES ASSUME Ep0Inv, ReplyInv, ep0_tx_chunk PROVE ReplyInv'
    OBVIOUS
  <1>1. TodoOK /\ At("chunk") /\ Then(<<>>) /\ HostStill
    BY DEF Ep0Inv, ep0_tx_chunk, hostVars, HostStill
  <1>2. UNCHANGED <<ep0r, state, expected, isr_reset>>
    BY DEF ep0_tx_chunk, engineVars
  <1>3. /\ todo \in Seq(Ops) /\ todo' = Tail(todo)
        /\ KeepsRx(todo) => KeepsRx(todo')
    BY <1>1, Drops
  <1>0. /\ ~Quiet(todo) /\ todo # <<>>
        /\ \A s : ~Setting(todo, s) /\ ~Writing(todo, s)
        /\ \A t, n : ~Sending(todo, t, n) /\ ~Flashing(todo, t, n)
        /\ \A j : j # "chunk" => ~Begins(todo, j) /\ ~Ends(todo, j) /\ ~Only(todo, j)
    <2>1. /\ "chunk" \notin {"read", "write rx", "clear rx"}
          /\ "chunk" # "read" /\ "chunk" # "write tx" /\ "chunk" # "send" /\ "chunk" # "flash"
      OBVIOUS
    <2> QED BY <1>1, <2>1, Where, Zenon
  <1>4. Chunking(todo)
    BY <1>0 DEF ReplyInv, Underway, Shape
  <1>5. Setting(todo', VALID)
    BY <1>3, <1>4 DEF Chunking
  <1>6. Lowered /\ New' = New
    BY <1>2 DEF Lowered, New
  <1> DEFINE q == ep0_tx_left
             m == AtMost(FullChunk, Len(ep0_tx_left))
  <1>7. /\ q \in Seq(Byte) /\ m \in Nat /\ m <= Len(q)
        /\ Len(q) \in Nat /\ EP0_MAX_SIZE \in Nat /\ (m # Len(q) => m = EP0_MAX_SIZE)
    <2>1. q \in Seq(Byte) /\ Len(q) \in Nat /\ EP0_MAX_SIZE \in Nat
      BY Ep0Assumption DEF Ep0Inv, MemoryOK
    <2> QED BY <2>1 DEF AtMost, FullChunk
  <1>8. tx_packet' = SubSeq(q, 1, m) /\ ep0_tx_left' = SubSeq(q, m + 1, Len(q))
    BY DEF ep0_tx_chunk
  <1>9. ASSUME Remains PROVE Loaded'
    <2>1. SubSeq(q, 1, m) \in Seq(Byte) /\ SubSeq(q, m + 1, Len(q)) \in Seq(Byte)
          /\ Len(SubSeq(q, 1, m)) = m
      BY <1>7, SubSeqType
    <2>2. SubSeq(q, 1, m) \o SubSeq(q, m + 1, Len(q)) = q
      BY <1>7, Split
    <2>3. taken \in Seq(Byte)
      BY DEF Ep0Inv, HostOK
    <2>4. (taken \o SubSeq(q, 1, m)) \o SubSeq(q, m + 1, Len(q)) = taken \o q
      <3> DEFINE a == SubSeq(q, 1, m)
                 b == SubSeq(q, m + 1, Len(q))
      <3>1. a \in Seq(Byte) /\ b \in Seq(Byte) /\ a \o b = q
        BY <2>1, <2>2
      <3> HIDE DEF a, b
      <3>2. (taken \o a) \o b = taken \o (a \o b)
        BY <2>3, <3>1, BytesAssociative
      <3>3. (taken \o a) \o b = taken \o q
        BY <3>1, <3>2
      <3> QED BY <3>3 DEF a, b
    <2>5. SubSeq(q, m + 1, Len(q)) # <<>> => m # Len(q)
      BY <1>7, SubSeqEmpty
    <2>6. taken' = taken /\ Reply' = Reply
      BY <1>1 DEF HostStill, Reply
    <2> HIDE DEF m, q
    <2> QED BY <1>7, <1>8, <1>9, <2>1, <2>4, <2>5, <2>6 DEF Remains, Loaded, q
  <1>10. ep0_tx_left = <<>> => tx_packet' = <<>>
    <2>1. ep0_tx_left = <<>> => m < 1
      BY <1>7
    <2> QED BY <1>7, <1>8, <2>1, SubSeqEmpty
  <1>11. ~Refusing
    BY <1>0 DEF Refusing
  <1>12. Replying => Replying'
    <2>1. Replying => ~ep0r.ctr_tx /\ Remains
      BY <1>0 DEF Replying
    <2> QED BY <1>2, <1>5, <1>9, <2>1 DEF Replying
  <1>13. Finishing => Finishing'
    <2>1. Finishing => ~ep0r.ctr_tx /\ ep0_tx_left = <<>>
      BY <1>0 DEF Finishing
    <2> QED BY <1>2, <1>5, <1>10, <2>1 DEF Finishing
  <1>14. ~isr_reset => Served'
    BY <1>1, <1>6, <1>11, <1>12, <1>13, ServedStep DEF ReplyInv
  <1>15. Piece(<<>>) /\ Moves(todo')
    BY <1>5, Pieces DEF Moves
  <1> QED BY <1>1, <1>2, <1>3, <1>6, <1>14, <1>15, FrameStep

LEMMA WritingBegins ==
    ASSUME NEW q, NEW s, Writing(q, s)
    PROVE  ~Begins(q, "setup") /\ ~Begins(q, "out") /\ ~Begins(q, "in") /\ ~Begins(q, "flash")
  BY DEF Writing, Ends, Begins

LEMMA ReadReply == Ep0Inv /\ ReplyInv /\ ReadEp0r => ReplyInv'
  <1> SUFFICES ASSUME Ep0Inv, ReplyInv, ReadEp0r PROVE ReplyInv'
    OBVIOUS
  <1>1. TodoOK /\ At("read") /\ Then(<<>>) /\ HostStill
    BY DEF Ep0Inv, ReadEp0r, hostVars, regVars, HostStill
  <1>2. /\ val' = ep0r /\ ep0r' = ep0r
        /\ UNCHANGED <<memVars, hostVars, tx_packet, state, expected, ep0_tx_left, ep0_req_len>>
    BY DEF ReadEp0r, regVars, memVars, engineVars, txVars
  <1>3. /\ todo \in Seq(Ops) /\ todo' = Tail(todo) /\ todo # <<>>
        /\ KeepsRx(todo) => KeepsRx(todo')
        /\ Quiet(todo) => Quiet(todo')
    BY <1>1, Drops DEF At
  <1>4. /\ ~Chunking(todo) /\ todo # <<>>
        /\ \A s : ~Writing(todo, s)
        /\ \A t, n : ~Sending(todo, t, n) /\ ~Flashing(todo, t, n)
        /\ \A j : j # "read" => ~Begins(todo, j) /\ ~Ends(todo, j) /\ ~Only(todo, j)
    <2>1. "read" # "chunk" /\ "read" # "write tx" /\ "read" # "send" /\ "read" # "flash"
      OBVIOUS
    <2> QED BY <1>1, <2>1, Where, Zenon
  <1>5. \A s : Setting(todo, s) => Writing(todo', s)
    BY <1>3 DEF Setting
  <1>6. Quiet(todo') \/ Writing(todo', STALL) \/ Writing(todo', VALID)
    BY <1>3, <1>4, <1>5 DEF ReplyInv, Underway, Shape
  <1>7. ~At("setup")' /\ ~At("out")' /\ ~At("in")' /\ ~At("flash")'
    <2>1. todo' \in Seq(Ops)
      BY <1>3, AllOfTail
    <2>2. Quiet(todo') => Moves(todo')
      BY DEF Moves
    <2> QED BY <1>6, <2>1, <2>2, MovesBegins, WritingBegins DEF At, Begins
  <1>8. Underway'
    <2>1. Shape(todo')
      BY <1>6 DEF Shape
    <2> QED BY <1>1, <1>2, <1>3, <2>1 DEF ReplyInv, Underway, HostStill, New
  <1>9. ASSUME ~isr_reset PROVE Caught'
    BY <1>1, <1>2, <1>7, <1>9 DEF ReplyInv, Caught, HostStill
  <1>10. ASSUME ~isr_reset PROVE Waits'
    <2>1. ~At("setup")
      BY <1>4 DEF At, Begins
    <2>2. New' => New /\ NoneOwed /\ UNCHANGED <<state, expected>>
      BY <1>2, <1>3, <1>10, <2>1 DEF ReplyInv, Waits, New
    <2> QED BY <1>1, <1>10, <2>2 DEF ReplyInv, Waits, NoneOwed, HostStill
  <1>11. UNCHANGED <<Reply, tx_packet, ep0_tx_left, taken>>
    BY <1>1, <1>2 DEF HostStill, Reply
  <1>12. UNCHANGED <<Remains, Loaded>>
    BY <1>11 DEF Remains, Loaded
  <1>13. Refusing => Refusing'
    BY <1>2, <1>3, <1>4, <1>5 DEF Refusing
  <1>14. Replying => Replying'
    BY <1>2, <1>3, <1>4, <1>5, <1>12 DEF Replying
  <1>15. Finishing => Finishing'
    <2>1. Quiet(todo) /\ Lacks => Lacks'
      <3>1. ~At("out") /\ ~At("clear rx")
        BY <1>4 DEF At, Begins
      <3>2. Lacks => ~ep0r.ctr_rx /\ Unseen = 0
        BY <1>3, <3>1 DEF Lacks, Unseen
      <3>3. Lacks => Unseen' = 0 /\ ~ep0r'.ctr_rx
        BY <1>2, <3>2 DEF Unseen
      <3> QED BY <1>1, <1>2, <3>2, <3>3 DEF Lacks, HostStill
    <2> QED BY <1>2, <1>3, <1>4, <1>5, <1>11, <2>1 DEF Finishing
  <1>16. ~isr_reset => Served'
    <2>1. New' = New
      BY <1>2 DEF New
    <2> QED BY <1>1, <1>13, <1>14, <1>15, <2>1, ServedStep DEF ReplyInv
  <1> QED BY <1>1, <1>8, <1>9, <1>10, <1>16 DEF ReplyInv, HostStill

LEMMA WriteTxReply == Ep0Inv /\ ReplyInv /\ ep_set_tx_status => ReplyInv'
  <1> SUFFICES ASSUME Ep0Inv, ReplyInv, ep_set_tx_status PROVE ReplyInv'
    OBVIOUS
  <1>1. TodoOK /\ At("write tx") /\ Then(<<>>) /\ HostStill
    BY DEF Ep0Inv, ep_set_tx_status, hostVars, HostStill
  <1>2. UNCHANGED <<tx_packet, state, expected, ep0_tx_left, ep0_req_len, taken, isr_reset>>
    BY DEF ep_set_tx_status, memVars, engineVars, txVars, hostVars
  <1>3. /\ todo \in Seq(Ops) /\ todo' = Tail(todo)
        /\ KeepsRx(todo) => KeepsRx(todo')
    BY <1>1, Drops
  <1>4. /\ ~Quiet(todo) /\ ~Chunking(todo) /\ todo # <<>>
        /\ \A s : ~Setting(todo, s)
        /\ \A t, n : ~Sending(todo, t, n) /\ ~Flashing(todo, t, n)
        /\ \A j : j # "write tx" => ~Begins(todo, j) /\ ~Ends(todo, j) /\ ~Only(todo, j)
    <2>1. /\ "write tx" \notin {"read", "write rx", "clear rx"}
          /\ "write tx" # "chunk" /\ "write tx" # "read"
          /\ "write tx" # "send" /\ "write tx" # "flash"
      OBVIOUS
    <2> QED BY <1>1, <2>1, Where, Zenon
  <1>5. Writing(todo, STALL) \/ Writing(todo, VALID)
    BY <1>4 DEF ReplyInv, Underway, Shape
  <1>6. Quiet(todo')
    BY <1>3, <1>5 DEF Writing, Ends
  <1> DEFINE s == Head(todo)[2]
  <1>7. s \in Status /\ \A v : Writing(todo, v) => s = v
    BY <1>5, Fields DEF Writing
  <1>8. /\ ep0r \in Register /\ val.ctr_rx \in BOOLEAN /\ val.ctr_tx \in BOOLEAN
        /\ ep0r' = Written(ep0r, val.ctr_rx, val.ctr_tx, RxUntouched, Xor(val.stat_tx, s))
    BY DEF ep_set_tx_status, Ep0Inv, RegisterOK, Register
  <1> HIDE DEF s
  <1>9. Lowered
    <2>1. /\ ep0r'.ctr_rx = (ep0r.ctr_rx /\ val.ctr_rx)
          /\ ep0r'.ctr_tx = (ep0r.ctr_tx /\ val.ctr_tx)
          /\ ep0r'.setup = ep0r.setup
      BY <1>8, WrittenFields
    <2> QED BY <2>1 DEF Lowered
  <1>10. ASSUME ~isr_reset PROVE Same(ep0r, ep0r') /\ ep0r'.stat_tx = s
    <2>1. val = ep0r
      BY <1>1, <1>10 DEF ReplyInv, Caught
    <2> QED BY <1>7, <1>8, <2>1, WroteTx
  <1>11. UNCHANGED <<Reply, Remains, Loaded>>
    BY <1>1, <1>2 DEF HostStill, Reply, Remains, Loaded
  <1>12. ASSUME ~isr_reset PROVE Served'
    <2>1. Refusing => Refusing'
      BY <1>4, <1>6, <1>7, <1>10, <1>12 DEF Refusing, Same
    <2>2. Replying => Replying'
      BY <1>4, <1>6, <1>7, <1>10, <1>11, <1>12 DEF Replying, Same
    <2>3. Finishing => Finishing'
      <3>1. STALL # VALID
        BY Fields
      <3> QED BY <1>2, <1>4, <1>6, <1>7, <1>10, <1>12, <3>1 DEF Finishing, Same
    <2>4. New' = New
      BY <1>10, <1>12 DEF New, Same
    <2> QED BY <1>1, <1>12, <2>1, <2>2, <2>3, <2>4, ServedStep DEF ReplyInv
  <1>13. Piece(<<>>) /\ Moves(todo')
    BY <1>6, Pieces DEF Moves
  <1> QED BY <1>1, <1>2, <1>3, <1>9, <1>12, <1>13, FrameStep

LEMMA WriteRxReply == Ep0Inv /\ ReplyInv /\ ep_set_rx_status => ReplyInv'
  <1> SUFFICES ASSUME Ep0Inv, ReplyInv, ep_set_rx_status PROVE ReplyInv'
    OBVIOUS
  <1>1. TodoOK /\ At("write rx") /\ Then(<<>>) /\ HostStill
    BY DEF Ep0Inv, ep_set_rx_status, hostVars, HostStill
  <1>2. UNCHANGED <<tx_packet, state, expected, ep0_tx_left, ep0_req_len, taken, isr_reset>>
    BY DEF ep_set_rx_status, memVars, engineVars, txVars, hostVars
  <1>3. /\ todo \in Seq(Ops) /\ todo' = Tail(todo)
        /\ KeepsRx(todo) => KeepsRx(todo')
        /\ Quiet(todo) => Quiet(todo')
    BY <1>1, Drops
  <1>4. /\ ~Chunking(todo) /\ todo # <<>>
        /\ \A s : ~Setting(todo, s) /\ ~Writing(todo, s)
        /\ \A t, n : ~Sending(todo, t, n) /\ ~Flashing(todo, t, n)
        /\ \A j : j # "write rx" => ~Begins(todo, j) /\ ~Ends(todo, j) /\ ~Only(todo, j)
    <2>1. /\ "write rx" # "chunk" /\ "write rx" # "read" /\ "write rx" # "write tx"
          /\ "write rx" # "send" /\ "write rx" # "flash"
      OBVIOUS
    <2> QED BY <1>1, <2>1, Where, Zenon
  <1>5. Quiet(todo) /\ Quiet(todo')
    BY <1>3, <1>4 DEF ReplyInv, Underway, Shape
  <1>6. Head(todo)[2] = VALID /\ VALID \in Status
    <2>1. Sound(Head(todo)) /\ Head(todo)[1] = "write rx"
      BY <1>1, Continues
    <2> QED BY <2>1, Fields DEF Sound
  <1>7. /\ ep0r \in Register /\ val.ctr_rx \in BOOLEAN /\ val.ctr_tx \in BOOLEAN
        /\ ep0r' = Written(ep0r, val.ctr_rx, val.ctr_tx, Xor(val.stat_rx, VALID), 0)
    BY <1>6 DEF ep_set_rx_status, Ep0Inv, RegisterOK, Register
  <1>8. Lowered
    <2>1. /\ ep0r'.ctr_rx = (ep0r.ctr_rx /\ val.ctr_rx)
          /\ ep0r'.ctr_tx = (ep0r.ctr_tx /\ val.ctr_tx)
          /\ ep0r'.setup = ep0r.setup
      BY <1>7, WrittenFields
    <2> QED BY <2>1 DEF Lowered
  <1>9. ASSUME ~isr_reset PROVE Same(ep0r, ep0r') /\ ep0r'.stat_tx = ep0r.stat_tx
    <2>1. val = ep0r
      BY <1>1, <1>9 DEF ReplyInv, Caught
    <2> QED BY <1>6, <1>7, <2>1, WroteRx
  <1>10. UNCHANGED <<Reply, Remains, Loaded>>
    BY <1>1, <1>2 DEF HostStill, Reply, Remains, Loaded
  <1>11. ASSUME ~isr_reset PROVE Served'
    <2>1. Refusing => Refusing'
      BY <1>4, <1>5, <1>9, <1>11 DEF Refusing, Same
    <2>2. Replying => Replying'
      BY <1>4, <1>5, <1>9, <1>10, <1>11 DEF Replying, Same
    <2>3. Finishing => Finishing'
      <3>1. ~At("out") /\ ~At("clear rx")
        BY <1>4 DEF At, Begins
      <3>2. Lacks => ~ep0r.ctr_rx /\ Unseen = 0
        BY <1>4, <3>1 DEF Lacks, Unseen
      <3>3. Lacks => Unseen' = 0 /\ ~ep0r'.ctr_rx
        BY <1>9, <1>11, <3>2 DEF Unseen, Same
      <3>4. Lacks => Lacks'
        BY <1>1, <1>2, <3>2, <3>3 DEF Lacks, HostStill
      <3> QED BY <1>2, <1>4, <1>5, <1>9, <1>11, <3>4 DEF Finishing, Same
    <2>4. New' = New
      BY <1>9, <1>11 DEF New, Same
    <2> QED BY <1>1, <1>11, <2>1, <2>2, <2>3, <2>4, ServedStep DEF ReplyInv
  <1>12. Piece(<<>>) /\ Moves(todo')
    BY <1>5, Pieces DEF Moves
  <1> QED BY <1>1, <1>2, <1>3, <1>8, <1>11, <1>12, FrameStep

LEMMA ClearReply == Ep0Inv /\ ReplyInv /\ ClearCtrRx => ReplyInv'
  <1> SUFFICES ASSUME Ep0Inv, ReplyInv, ClearCtrRx PROVE ReplyInv'
    OBVIOUS
  <1>1. TodoOK /\ At("clear rx") /\ Then(<<>>) /\ HostStill
    BY DEF Ep0Inv, ClearCtrRx, hostVars, HostStill
  <1>2. UNCHANGED <<tx_packet, state, expected, ep0_tx_left, ep0_req_len, taken, isr_reset>>
    BY DEF ClearCtrRx, memVars, engineVars, txVars, hostVars
  <1>3. /\ todo \in Seq(Ops) /\ todo' = Tail(todo) /\ ~KeepsRx(todo)
        /\ Quiet(todo) => Quiet(todo')
    <2>1. todo \in Seq(Ops) /\ todo # <<>> /\ Head(todo)[1] = "clear rx"
      BY <1>1, Drops DEF At
    <2>2. ~KeepsRx(todo)
      BY <2>1, AllOfTail
    <2> QED BY <1>1, <2>2, Drops
  <1>4. /\ ~Chunking(todo) /\ todo # <<>>
        /\ \A s : ~Setting(todo, s) /\ ~Writing(todo, s)
        /\ \A t, n : ~Sending(todo, t, n) /\ ~Flashing(todo, t, n)
        /\ \A j : j # "clear rx" => ~Begins(todo, j) /\ ~Ends(todo, j) /\ ~Only(todo, j)
    <2>1. /\ "clear rx" # "chunk" /\ "clear rx" # "read" /\ "clear rx" # "write tx"
          /\ "clear rx" # "send" /\ "clear rx" # "flash"
      OBVIOUS
    <2> QED BY <1>1, <2>1, Where, Zenon
  <1>5. Quiet(todo) /\ Quiet(todo')
    BY <1>3, <1>4 DEF ReplyInv, Underway, Shape
  <1>6. /\ ~ep0r'.ctr_rx /\ ep0r'.ctr_tx = ep0r.ctr_tx /\ ep0r'.setup = ep0r.setup
        /\ ep0r'.stat_tx = ep0r.stat_tx
    <2>1. ep0r \in Register /\ ep0r' = Written(ep0r, FALSE, TRUE, 0, 0)
      BY DEF ClearCtrRx, Ep0Inv, RegisterOK
    <2> QED BY <2>1, Cleared
  <1>7. Lowered /\ ~New
    BY <1>3, <1>6 DEF Lowered, ReplyInv, Underway
  <1>8. UNCHANGED <<Reply, Remains, Loaded>>
    BY <1>1, <1>2 DEF HostStill, Reply, Remains, Loaded
  <1>9. ASSUME ~isr_reset PROVE Served'
    <2>1. Refusing => Refusing'
      BY <1>4, <1>5, <1>6 DEF Refusing
    <2>2. Replying => Replying'
      BY <1>4, <1>5, <1>6, <1>8 DEF Replying
    <2>3. Finishing => Finishing'
      <3>1. Unseen = 0
        BY <1>4 DEF Unseen, At, Begins
      <3>2. Unseen' = 0
        BY <1>6 DEF Unseen
      <3>3. Lacks => Lacks'
        BY <1>1, <1>2, <1>6, <3>1, <3>2 DEF Lacks, HostStill
      <3> QED BY <1>2, <1>4, <1>5, <1>6, <3>3 DEF Finishing
    <2> QED BY <1>1, <1>7, <1>9, <2>1, <2>2, <2>3, ServedStep DEF ReplyInv
  <1>10. Piece(<<>>) /\ Moves(todo')
    BY <1>5, Pieces DEF Moves
  <1> QED BY <1>1, <1>2, <1>7, <1>9, <1>10, FrameStep

LEMMA SendReply == Ep0Inv /\ ReplyInv /\ ep0_send => ReplyInv'
  <1> SUFFICES ASSUME Ep0Inv, ReplyInv, ep0_send PROVE ReplyInv'
    OBVIOUS
  <1>1. TodoOK /\ At("send") /\ Then(Chunk \o SetRx(VALID)) /\ HostStill
    BY DEF Ep0Inv, ep0_send, hostVars, regVars, HostStill
  <1>2. UNCHANGED <<ep0r, tx_packet, state, expected, ep0_req_len, taken, isr_reset>>
    BY DEF ep0_send, regVars, engineVars, hostVars
  <1>3. /\ ~Quiet(todo) /\ ~Chunking(todo) /\ todo # <<>> /\ todo \in Seq(Ops)
        /\ \A s : ~Setting(todo, s) /\ ~Writing(todo, s)
        /\ \A t, n : ~Flashing(todo, t, n)
        /\ \A j : j # "send" => ~Begins(todo, j) /\ ~Ends(todo, j) /\ ~Only(todo, j)
    <2>1. /\ "send" \notin {"read", "write rx", "clear rx"}
          /\ "send" # "chunk" /\ "send" # "read" /\ "send" # "write tx" /\ "send" # "flash"
      OBVIOUS
    <2> QED BY <1>1, <2>1, Where, Zenon
  <1>4. Ends(todo, "send")
    BY <1>3 DEF ReplyInv, Underway, Shape
  <1>5. Tail(todo) \in Seq(Ops) /\ Quiet(Tail(todo)) /\ (KeepsRx(todo) => KeepsRx(Tail(todo)))
    BY <1>3, <1>4, AllOfTail DEF Ends
  <1>6. Chunking(todo') /\ (KeepsRx(todo) => KeepsRx(todo'))
    <2>1. VALID \in Status
      BY Fields
    <2> QED BY <1>1, <1>5, <2>1, ResumeTxRx DEF Then
  <1>7. Lowered /\ New' = New
    BY <1>2 DEF Lowered, New
  <1> DEFINE t == Head(todo)[2]
             n == Head(todo)[3]
  <1>8. t \in {0, 1} /\ n \in Nat /\ ep0_tx_left' = Bytes(t, AtMost(n, ep0_req_len))
    <2>1. Sound(Head(todo)) /\ Head(todo)[1] = "send"
      BY <1>1, Continues
    <2>2. t \in {0, 1} /\ n \in Nat
      BY <2>1 DEF Sound
    <2> QED BY <2>2 DEF ep0_send, CutToAsked
  <1>9. Replying => Replying'
    <2>1. Replying => /\ ~ep0r.ctr_tx /\ taken = <<>> /\ ep0_req_len = request.wLength
                      /\ Sending(todo, tag, request.reply)
      BY <1>3 DEF Replying
    <2>2. Sending(todo, tag, request.reply) => t = tag /\ n = request.reply
      BY DEF Sending
    <2>3. Replying => ep0_tx_left' = Reply
      BY <1>8, <2>1, <2>2 DEF Reply
    <2>4. Reply \in Seq(Byte) /\ Reply' = Reply /\ taken' = taken
      BY <1>1, ReplyType DEF HostStill, Reply, Ep0Inv
    <2>5. Replying => Remains'
      BY <2>1, <2>3, <2>4, ConcatEmptySeq DEF Remains
    <2> QED BY <1>2, <1>6, <2>1, <2>5 DEF Replying
  <1>10. Finishing => Finishing'
    <2>1. Finishing => ~ep0r.ctr_tx /\ ep0_req_len = 0
      BY <1>3 DEF Finishing
    <2>2. AtMost(n, 0) = 0
      BY <1>8 DEF AtMost
    <2>3. Bytes(t, 0) = <<>>
      BY DEF Bytes
    <2> HIDE DEF t, n
    <2>4. Finishing => ep0_tx_left' = <<>>
      BY <1>8, <2>1, <2>2, <2>3
    <2> QED BY <1>2, <1>6, <2>1, <2>4 DEF Finishing
  <1>11. ~Refusing
    BY <1>3 DEF Refusing
  <1>12. ~isr_reset => Served'
    BY <1>1, <1>7, <1>9, <1>10, <1>11, ServedStep DEF ReplyInv
  <1>13. Piece(Chunk \o SetRx(VALID)) /\ Moves(todo')
    BY <1>6, Pieces, PieceConcat DEF Moves
  <1> QED BY <1>1, <1>2, <1>6, <1>7, <1>12, <1>13, FrameStep

LEMMA ZlpReply == Ep0Inv /\ ReplyInv /\ ep0_send_zlp => ReplyInv'
  <1> SUFFICES ASSUME Ep0Inv, ReplyInv, ep0_send_zlp PROVE ReplyInv'
    OBVIOUS
  <1>1. TodoOK /\ At("zlp") /\ Then(SetTx(VALID) \o SetRx(VALID)) /\ HostStill
    BY DEF Ep0Inv, ep0_send_zlp, hostVars, HostStill
  <1>2. tx_packet' = <<>> /\ UNCHANGED <<ep0r, state, expected, isr_reset>>
    BY DEF ep0_send_zlp, engineVars
  <1>3. /\ ~Quiet(todo) /\ ~Chunking(todo) /\ todo # <<>> /\ todo \in Seq(Ops)
        /\ \A s : ~Setting(todo, s) /\ ~Writing(todo, s)
        /\ \A t, n : ~Sending(todo, t, n) /\ ~Flashing(todo, t, n)
        /\ \A j : j # "zlp" => ~Begins(todo, j) /\ ~Ends(todo, j) /\ ~Only(todo, j)
    <2>1. /\ "zlp" \notin {"read", "write rx", "clear rx"} /\ "zlp" # "send"
          /\ "zlp" # "chunk" /\ "zlp" # "read" /\ "zlp" # "write tx" /\ "zlp" # "flash"
      OBVIOUS
    <2> QED BY <1>1, <2>1, Where, Zenon
  <1>4. Ends(todo, "zlp")
    BY <1>3 DEF ReplyInv, Underway, Shape
  <1>5. Tail(todo) \in Seq(Ops) /\ Quiet(Tail(todo)) /\ (KeepsRx(todo) => KeepsRx(Tail(todo)))
    BY <1>3, <1>4, AllOfTail DEF Ends
  <1>6. VALID \in Status
    BY Fields
  <1>7. Setting(todo', VALID) /\ (KeepsRx(todo) => KeepsRx(todo'))
    BY <1>1, <1>5, <1>6, ResumeTxRx DEF Then
  <1>8. Lowered /\ New' = New
    BY <1>2 DEF Lowered, New
  <1>9. ~Refusing /\ ~Replying
    BY <1>3 DEF Refusing, Replying
  <1>10. Finishing => Finishing'
    BY <1>2, <1>7 DEF Finishing
  <1>11. ~isr_reset => Served'
    BY <1>1, <1>8, <1>9, <1>10, ServedStep DEF ReplyInv
  <1>12. Piece(SetTx(VALID) \o SetRx(VALID)) /\ Moves(todo')
    BY <1>6, <1>7, Pieces, PieceConcat DEF Moves
  <1> QED BY <1>1, <1>2, <1>7, <1>8, <1>11, <1>12, FrameStep

LEMMA StallReply == Ep0Inv /\ ReplyInv /\ ep0_stall => ReplyInv'
  <1> SUFFICES ASSUME Ep0Inv, ReplyInv, ep0_stall PROVE ReplyInv'
    OBVIOUS
  <1>1. TodoOK /\ At("stall") /\ Then(SetTx(STALL) \o SetRx(VALID)) /\ HostStill
    BY DEF Ep0Inv, ep0_stall, hostVars, regVars, HostStill
  <1>2. UNCHANGED <<ep0r, state, expected, isr_reset>>
    BY DEF ep0_stall, regVars, engineVars
  <1>3. /\ ~Quiet(todo) /\ ~Chunking(todo) /\ todo # <<>> /\ todo \in Seq(Ops)
        /\ \A s : ~Setting(todo, s) /\ ~Writing(todo, s)
        /\ \A t, n : ~Sending(todo, t, n) /\ ~Flashing(todo, t, n)
        /\ \A j : j # "stall" => ~Begins(todo, j) /\ ~Ends(todo, j) /\ ~Only(todo, j)
    <2>1. /\ "stall" \notin {"read", "write rx", "clear rx"} /\ "stall" # "send"
          /\ "stall" # "chunk" /\ "stall" # "read" /\ "stall" # "write tx" /\ "stall" # "flash"
      OBVIOUS
    <2> QED BY <1>1, <2>1, Where, Zenon
  <1>4. Ends(todo, "stall")
    BY <1>3 DEF ReplyInv, Underway, Shape
  <1>5. Tail(todo) \in Seq(Ops) /\ Quiet(Tail(todo)) /\ (KeepsRx(todo) => KeepsRx(Tail(todo)))
    BY <1>3, <1>4, AllOfTail DEF Ends
  <1>6. STALL \in Status
    BY Fields
  <1>7. Setting(todo', STALL) /\ (KeepsRx(todo) => KeepsRx(todo'))
    BY <1>1, <1>5, <1>6, ResumeTxRx DEF Then
  <1>8. Lowered /\ New' = New
    BY <1>2 DEF Lowered, New
  <1>9. ~Replying
    BY <1>3 DEF Replying
  <1>10. (Refusing => Refusing') /\ (Finishing => Finishing')
    BY <1>2, <1>7 DEF Refusing, Finishing
  <1>11. ~isr_reset => Served'
    BY <1>1, <1>8, <1>9, <1>10, ServedStep DEF ReplyInv
  <1>12. Piece(SetTx(STALL) \o SetRx(VALID)) /\ Moves(todo')
    BY <1>6, <1>7, Pieces, PieceConcat DEF Moves
  <1> QED BY <1>1, <1>2, <1>7, <1>8, <1>11, <1>12, FrameStep

LEMMA FlashReply == Ep0Inv /\ ReplyInv /\ FlashOperation => ReplyInv'
  <1> SUFFICES ASSUME Ep0Inv, ReplyInv, FlashOperation PROVE ReplyInv'
    OBVIOUS
  <1>1. TodoOK /\ At("flash") /\ Then(<<>>) /\ HostStill
    BY DEF Ep0Inv, FlashOperation, hostVars, regVars, HostStill
  <1>2. UNCHANGED <<ep0r, state, expected, ep0_req_len, taken, isr_reset>>
    BY DEF FlashOperation, regVars, memVars, txVars, engineVars, hostVars
  <1>3. /\ todo \in Seq(Ops) /\ todo' = Tail(todo)
        /\ KeepsRx(todo) => KeepsRx(todo')
    BY <1>1, Drops
  <1>4. /\ ~Quiet(todo) /\ ~Chunking(todo) /\ todo # <<>>
        /\ \A s : ~Setting(todo, s) /\ ~Writing(todo, s)
        /\ \A t, n : ~Sending(todo, t, n)
        /\ \A j : j # "flash" => ~Begins(todo, j) /\ ~Ends(todo, j) /\ ~Only(todo, j)
    <2>1. /\ "flash" \notin {"read", "write rx", "clear rx"} /\ "flash" # "send"
          /\ "flash" # "chunk" /\ "flash" # "read" /\ "flash" # "write tx"
      OBVIOUS
    <2> QED BY <1>1, <2>1, Where, Zenon
  <1>5. Ends(todo', "send")
    BY <1>3, <1>4 DEF ReplyInv, Underway, Shape
  <1>6. \A t, n : Flashing(todo, t, n) => Sending(todo', t, n)
    BY <1>3 DEF Flashing
  <1>7. Lowered /\ New' = New
    BY <1>2 DEF Lowered, New
  <1>8. ~Refusing
    BY <1>4 DEF Refusing
  <1>9. Replying => Replying'
    BY <1>1, <1>2, <1>4, <1>6 DEF Replying, HostStill
  <1>10. Finishing => Finishing'
    BY <1>2, <1>4, <1>5 DEF Finishing
  <1>11. ~isr_reset => Served'
    BY <1>1, <1>7, <1>8, <1>9, <1>10, ServedStep DEF ReplyInv
  <1>12. Piece(<<>>) /\ Moves(todo')
    BY <1>5, Pieces DEF Moves
  <1> QED BY <1>1, <1>2, <1>3, <1>7, <1>11, <1>12, FrameStep

LEMMA OutReply == Ep0Inv /\ ReplyInv /\ handle_ep0_out => ReplyInv'
  <1> SUFFICES ASSUME Ep0Inv, ReplyInv, handle_ep0_out PROVE ReplyInv'
    OBVIOUS
  <1> DEFINE appended == state = "DNLOAD_SYNC" /\ rx_packet.data
             finish == <<<<"zlp">>>> \o RxAcknowledge
  <1>0. PICK ops : /\ Then(ops)
                   /\ ops = finish \/ (ops = RxAcknowledge /\ ~(appended /\ expected = 1))
    BY DEF handle_ep0_out
  <1>1. TodoOK /\ At("out") /\ Then(ops) /\ HostStill
    BY <1>0 DEF Ep0Inv, handle_ep0_out, hostVars, regVars, HostStill
  <1>2. /\ UNCHANGED <<ep0r, tx_packet, taken, left, isr_reset, state>>
        /\ expected' = IF appended /\ expected > 0 THEN expected - 1 ELSE expected
    BY DEF handle_ep0_out, regVars, hostVars
  <1>3. /\ ~Quiet(todo) /\ ~Chunking(todo) /\ todo # <<>> /\ todo \in Seq(Ops)
        /\ \A s : ~Setting(todo, s) /\ ~Writing(todo, s)
        /\ \A t, n : ~Sending(todo, t, n) /\ ~Flashing(todo, t, n)
        /\ \A j : j # "out" => ~Begins(todo, j) /\ ~Ends(todo, j) /\ ~Only(todo, j)
    <2>1. /\ "out" \notin {"read", "write rx", "clear rx"} /\ "out" # "send"
          /\ "out" # "chunk" /\ "out" # "read" /\ "out" # "write tx" /\ "out" # "flash"
      OBVIOUS
    <2> QED BY <1>1, <2>1, Where, Zenon
  <1>4. Only(todo, "out")
    BY <1>3 DEF ReplyInv, Underway, Shape
  <1>5. Tail(todo) = <<>> /\ <<>> \in Seq(Ops) /\ Quiet(<<>>)
    BY <1>4, AllOfNone DEF Only
  <1>6. ops = finish => Ends(todo', "zlp")
    BY <1>1, <1>5, ResumeLast DEF Then
  <1>7. ops = RxAcknowledge => Quiet(todo') /\ At("clear rx")' /\ todo' # <<>> /\ ~At("out")'
    <2>1. RxAcknowledge \in Seq(Ops)
      BY <1>5, ResumeRx
    <2>2. ops = RxAcknowledge => todo' = RxAcknowledge
      <3>1. RxAcknowledge \o <<>> = RxAcknowledge
        BY <2>1, ConcatEmptySeq
      <3> QED BY <1>1, <1>5, <3>1 DEF Then
    <2>3. Quiet(RxAcknowledge)
      <3>1. RxAcknowledge \o <<>> = RxAcknowledge
        BY <2>1, ConcatEmptySeq
      <3> QED BY <1>5, <3>1, ResumeRx
    <2>4. RxAcknowledge # <<>> /\ Head(RxAcknowledge) = <<"clear rx">>
      <3>1. SetRx(VALID) \in Seq(Ops) /\ <<"clear rx">> \in Ops
        BY <1>5, ResumeRx, Singles DEF Names
      <3> QED BY <3>1, First DEF RxAcknowledge
    <2>5. <<"clear rx">>[1] = "clear rx" /\ "clear rx" # "out"
      OBVIOUS
    <2> QED BY <2>2, <2>3, <2>4, <2>5, Zenon DEF At
  <1>8. Moves(todo')
    BY <1>0, <1>6, <1>7 DEF Moves
  <1>9. Lowered /\ New' = New
    BY <1>2 DEF Lowered, New
  <1>10. ~Refusing /\ ~Replying
    BY <1>3 DEF Refusing, Replying
  <1>11. ASSUME ~isr_reset PROVE Finishing => Finishing'
    <2>1. ep0r.ctr_rx
      BY <1>1, <1>11 DEF ReplyInv, Caught
    <2>2. Unseen = 1
      BY <1>1, <2>1 DEF Unseen
    <2>3. ops = RxAcknowledge => Unseen' = 0
      BY <1>7 DEF Unseen
    <2>4. ASSUME ops = RxAcknowledge, ~(appended /\ expected = 1), Lacks PROVE Lacks'
      <3>1. appended /\ expected \in Nat /\ left \in Nat /\ expected = left + 1
        BY <2>2, <2>4 DEF Lacks, Ep0Inv, MemoryOK, HostOK
      <3>2. expected # 1 /\ expected' = expected - 1
        <4>1. expected > 0
          BY <2>4 DEF Lacks
        <4> HIDE DEF appended
        <4> QED BY <1>2, <2>4, <3>1, <4>1
      <3>3. expected' > 0 /\ expected' = left + 0
        <4> HIDE DEF appended
        <4> QED BY <3>1, <3>2
      <3>4. rx_packet' = rx_packet /\ left' = left /\ state' = state
        BY <1>1, <1>2 DEF HostStill
      <3>5. expected' = left' + Unseen' /\ (Unseen' = 1 => rx_packet'.data)
        <4>1. rx_packet.data
          BY <3>1
        <4> HIDE DEF appended
        <4> QED BY <2>3, <2>4, <3>3, <3>4, <4>1
      <3>6. At("clear rx")'
        BY <1>7, <2>4
      <3>7. state' = "DNLOAD_SYNC"
        BY <2>4, <3>4 DEF Lacks
      <3> HIDE DEF appended
      <3> QED BY <3>3, <3>5, <3>6, <3>7 DEF Lacks
    <2>5. Finishing => ~ep0r.ctr_tx /\ (ep0r.stat_tx = VALID => tx_packet = <<>> \/ Lacks)
      BY <1>3 DEF Finishing
    <2> HIDE DEF appended, finish
    <2> QED BY <1>0, <1>2, <1>6, <1>7, <2>4, <2>5 DEF Finishing
  <1>12. ~isr_reset => Served'
    BY <1>1, <1>9, <1>10, <1>11, ServedStep DEF ReplyInv
  <1>13. Piece(ops)
    <2>1. Piece(<<<<"zlp">>>>) /\ Piece(RxAcknowledge)
      BY Pieces DEF Names
    <2>2. Piece(finish)
      BY <2>1, PieceConcat
    <2> QED BY <1>0, <2>1, <2>2
  <1>14. ASSUME New PROVE FALSE
    <2>1. ~isr_reset
      BY <1>14 DEF New, ReplyInv, Underway
    <2> QED BY <1>1, <1>14, <2>1 DEF New, ReplyInv, Caught
  <1> HIDE DEF appended, finish
  <1> QED BY <1>1, <1>8, <1>9, <1>12, <1>13, <1>14, FrameStep

LEMMA InReply == Ep0Inv /\ ReplyInv /\ handle_ep0_in => ReplyInv'
  <1> SUFFICES ASSUME Ep0Inv, ReplyInv, handle_ep0_in PROVE ReplyInv'
    OBVIOUS
  <1>1. TodoOK /\ At("in") /\ HostStill
    BY DEF Ep0Inv, handle_ep0_in, hostVars, HostStill
  <1>2. UNCHANGED <<ep0_tx_left, state, expected, isr_reset>>
    BY DEF handle_ep0_in, engineVars
  <1>3. /\ ~Quiet(todo) /\ ~Chunking(todo) /\ todo # <<>> /\ todo \in Seq(Ops)
        /\ \A s : ~Setting(todo, s) /\ ~Writing(todo, s)
        /\ \A t, n : ~Sending(todo, t, n) /\ ~Flashing(todo, t, n)
        /\ \A j : j # "in" => ~Begins(todo, j) /\ ~Ends(todo, j) /\ ~Only(todo, j)
    <2>1. /\ "in" \notin {"read", "write rx", "clear rx"} /\ "in" # "send"
          /\ "in" # "chunk" /\ "in" # "read" /\ "in" # "write tx" /\ "in" # "flash"
      OBVIOUS
    <2> QED BY <1>1, <2>1, Where, Zenon
  <1>4. Only(todo, "in")
    BY <1>3 DEF ReplyInv, Underway, Shape
  <1>5. Tail(todo) = <<>> /\ <<>> \in Seq(Ops) /\ Quiet(<<>>) /\ VALID \in Status
    BY <1>4, AllOfNone, Fields DEF Only
  <1>6. /\ ep0r'.ctr_rx = ep0r.ctr_rx /\ ~ep0r'.ctr_tx /\ ep0r'.setup = ep0r.setup
        /\ ep0r'.stat_tx = ep0r.stat_tx
    <2>1. ep0r \in Register /\ ep0r' = Written(ep0r, TRUE, FALSE, 0, 0)
      BY DEF handle_ep0_in, Ep0Inv, RegisterOK
    <2> QED BY <2>1, Cleared
  <1>7. Lowered /\ New' = New
    BY <1>6 DEF Lowered, New
  <1>8. ~New
    <2>1. isr_reset \/ ep0r.ctr_tx
      BY <1>1 DEF ReplyInv, Caught
    <2> QED BY <2>1 DEF ReplyInv, Underway, New
  <1>9. PICK ops : /\ Then(ops)
                   /\ \/ ep0_tx_left # <<>> /\ ops = Chunk
                      \/ ep0_tx_left = <<>> /\ ops = SetTx(VALID) /\ tx_packet' = <<>>
                      \/ ops = <<>>
    BY DEF handle_ep0_in
  <1>10. /\ ops = Chunk => Chunking(todo')
         /\ ops = SetTx(VALID) => Setting(todo', VALID)
         /\ ops = <<>> => todo' = <<>>
    <2>1. todo' = ops \o <<>>
      BY <1>5, <1>9 DEF Then
    <2>2. Chunking(Chunk \o <<>>) /\ Setting(SetTx(VALID) \o <<>>, VALID)
      BY <1>5, ResumeChunk, ResumeTx
    <2>3. <<>> \o <<>> = <<>>
      BY <1>5, ConcatEmptySeq
    <2> QED BY <2>1, <2>2, <2>3, Zenon
  <1>11. Piece(ops) /\ Moves(todo')
    BY <1>5, <1>9, <1>10, Pieces DEF Moves
  <1>12. ~Refusing /\ ~Finishing
    BY <1>3 DEF Refusing, Finishing
  <1>13. Replying => Replying'
    <2>1. Replying => ep0r.stat_tx = NAK /\ Remains
      BY <1>3 DEF Replying
    <2>2. Reply' = Reply /\ taken' = taken /\ taken \in Seq(Byte) /\ ep0_tx_left' = ep0_tx_left
      BY <1>1, <1>2 DEF HostStill, Reply, Ep0Inv, HostOK
    <2>3. Remains => Remains'
      BY <2>2 DEF Remains
    <2>4. Remains /\ ep0_tx_left = <<>> /\ tx_packet' = <<>> => Loaded'
      <3>1. taken \o <<>> = taken
        BY <2>2, ConcatEmptySeq
      <3> QED BY <2>2, <3>1 DEF Remains, Loaded
    <2>5. Quiet(<<>>)
      BY <1>5
    <2> QED BY <1>6, <1>9, <1>10, <2>1, <2>3, <2>4, <2>5 DEF Replying
  <1>14. ~isr_reset => Served'
    BY <1>1, <1>7, <1>12, <1>13, ServedStep DEF ReplyInv
  <1>15. "in" # "read" /\ "in" # "setup"
    OBVIOUS
  <1> QED BY <1>1, <1>7, <1>8, <1>9, <1>11, <1>14, <1>15, FrameStep

(* How a request is answered, by its kind.                                  *)
LEMMA Answered ==
    ASSUME TodoOK, Only(todo, "setup"), NEW r \in Requests, NEW t \in {0, 1}, Dispatch(r, t)
    PROVE  \/ /\ r.kind \in {"read", "status"}
              /\ Sending(todo', t, r.reply)
           \/ /\ r.kind = "status" /\ state = "DNBUSY" /\ DropDownload
              /\ Flashing(todo', t, r.reply) /\ KeepsRx(todo')
           \/ r.kind \in {"none", "address"} /\ Ends(todo', "zlp")
           \/ r.kind \in {"refuse", "write"} /\ Ends(todo', "stall")
           \/ /\ r.kind = "write" /\ Quiet(todo') /\ Begins(todo', "read")
              /\ state' = "DNLOAD_SYNC" /\ expected' = r.wLength
  <1>1. /\ Tail(todo) = <<>> /\ <<>> \in Seq(Ops) /\ Quiet(<<>>) /\ KeepsRx(<<>>)
        /\ r.reply \in Nat
    BY AllOfNone, RequestFields DEF Only
  <1> DEFINE n == r.reply
             sending == <<<<"send", t, n>>>>
             flashing == <<<<"flash">>, <<"send", t, n>>>>
             zlp == <<<<"zlp">>>>
             stall == <<<<"stall">>>>
  <1>2. /\ Sending(sending \o <<>>, t, n)
        /\ Flashing(flashing \o <<>>, t, n) /\ KeepsRx(flashing \o <<>>)
    BY <1>1, ResumeSend
  <1>3. Ends(zlp \o <<>>, "zlp") /\ Ends(stall \o <<>>, "stall")
    <2>1. "zlp" \in {"zlp", "stall"} /\ "stall" \in {"zlp", "stall"}
      OBVIOUS
    <2> QED BY <1>1, <2>1, ResumeOne, Zenon
  <1>4. Quiet(SetRx(VALID) \o <<>>) /\ Begins(SetRx(VALID) \o <<>>, "read")
    <2>1. Quiet(SetRx(VALID) \o <<>>)
      BY <1>1, ResumeRx
    <2> DEFINE a == <<"read">>
               b == <<"write rx", VALID>>
    <2>2. a \in Ops /\ a[1] = "read" /\ b \in Ops
      BY Singles, Writes DEF Names
    <2>3. SetRx(VALID) = <<a, b>>
      BY DEF SetRx
    <2> HIDE DEF a, b
    <2>4. Begins(<<a, b>> \o <<>>, "read")
      BY <1>1, <2>2, FirstOfTwo DEF Begins
    <2> QED BY <2>1, <2>3, <2>4
  <1>5. \A ops : Then(ops) => todo' = ops \o <<>>
    BY <1>1 DEF Then
  <1>6. /\ Then(sending) => Sending(todo', t, n)
        /\ Then(flashing) => Flashing(todo', t, n) /\ KeepsRx(todo')
        /\ Then(zlp) => Ends(todo', "zlp")
        /\ Then(stall) => Ends(todo', "stall")
        /\ Then(SetRx(VALID)) => Quiet(todo') /\ Begins(todo', "read")
    <2> HIDE DEF sending, flashing, zlp, stall
    <2> QED BY <1>2, <1>3, <1>4, <1>5, Zenon
  <1>7. \/ r.kind = "read" /\ Then(sending)
        \/ r.kind = "status" /\ Then(sending)
        \/ r.kind = "status" /\ state = "DNBUSY" /\ DropDownload /\ Then(flashing)
        \/ r.kind = "none" /\ Then(zlp)
        \/ r.kind = "address" /\ Then(zlp)
        \/ (r.kind = "refuse" \/ r.kind = "write") /\ Then(stall)
        \/ /\ r.kind = "write" /\ Then(SetRx(VALID))
           /\ state' = "DNLOAD_SYNC" /\ expected' = r.wLength
    BY DEF Dispatch
  <1> HIDE DEF sending, flashing, zlp, stall
  <1> QED BY <1>6, <1>7 DEF n

LEMMA SetupReply == Ep0Inv /\ ReplyInv /\ handle_setup => ReplyInv'
  <1> SUFFICES ASSUME Ep0Inv, ReplyInv, handle_setup PROVE ReplyInv'
    OBVIOUS
  <1>1. TodoOK /\ At("setup") /\ HostStill
    BY DEF Ep0Inv, handle_setup, hostVars, HostStill
  <1> DEFINE r == rx_packet.request
             t == rx_packet.tag
  <1>2. r \in Requests /\ t \in {0, 1} /\ Dispatch(r, t) /\ ep0_req_len' = r.wLength
    BY DEF handle_setup, Ep0Inv, PacketsOK
  <1> HIDE DEF r, t
  <1>3. Only(todo, "setup")
    <2>1. /\ ~Quiet(todo) /\ ~Chunking(todo)
          /\ \A s : ~Setting(todo, s) /\ ~Writing(todo, s)
          /\ \A j : j # "setup" => ~Begins(todo, j) /\ ~Ends(todo, j) /\ ~Only(todo, j)
      <3>1. /\ "setup" \notin {"read", "write rx", "clear rx"}
            /\ "setup" # "chunk" /\ "setup" # "read" /\ "setup" # "write tx"
        OBVIOUS
      <3> QED BY <1>1, <3>1, Where, Zenon
    <2> QED BY <2>1 DEF ReplyInv, Underway, Shape
  <1>4. \/ r.kind \in {"read", "status"} /\ Sending(todo', t, r.reply)
        \/ /\ r.kind = "status" /\ state = "DNBUSY" /\ DropDownload
           /\ Flashing(todo', t, r.reply) /\ KeepsRx(todo')
        \/ r.kind \in {"none", "address"} /\ Ends(todo', "zlp")
        \/ r.kind \in {"refuse", "write"} /\ Ends(todo', "stall")
        \/ /\ r.kind = "write" /\ Quiet(todo') /\ Begins(todo', "read")
           /\ state' = "DNLOAD_SYNC" /\ expected' = r.wLength
    BY <1>1, <1>2, <1>3, Answered
  <1>5. /\ ~ep0r'.ctr_rx /\ ep0r'.ctr_tx = ep0r.ctr_tx /\ ep0r'.setup = ep0r.setup
        /\ ep0r'.stat_tx = ep0r.stat_tx /\ ep0r'.stat_rx = ep0r.stat_rx
    <2>1. ep0r \in Register /\ ep0r' = Written(ep0r, FALSE, TRUE, 0, 0)
      BY DEF handle_setup, Ep0Inv, RegisterOK
    <2> QED BY <2>1, Cleared
  <1>6. ~New'
    BY <1>5 DEF New
  <1>7. Shape(todo')
    BY <1>4 DEF Shape, Sending, Flashing
  <1>8. Underway'
    BY <1>1, <1>5, <1>6, <1>7 DEF ReplyInv, Underway, HostStill
  <1>9. \A k \in {"setup", "out", "in", "write tx", "write rx"} : ~At(k)'
    <2>1. \E k \in {"send", "flash", "zlp", "stall", "read"} : Begins(todo', k)
      BY <1>4, Zenon DEF Sending, Flashing, Ends
    <2> QED BY <2>1 DEF Begins, At
  <1>10. ASSUME ~isr_reset
         PROVE  /\ New /\ ~ep0r.ctr_tx /\ r = request /\ t = tag /\ Waits
    BY <1>1, <1>10 DEF ReplyInv, Underway, Caught, Waits, New, r, t
  <1>11. ASSUME ~isr_reset PROVE Caught'
    <2>1. At("flash")' => Calm /\ NoneOwed'
      <3>1. At("flash")' => state = "DNBUSY" /\ DropDownload
        <4>1. At("flash")' => Begins(todo', "flash")
          BY DEF At, Begins
        <4>2. \/ ~Begins(todo', "flash")
              \/ \A k \in {"send", "zlp", "stall", "read"} : ~Begins(todo', k)
          BY DEF Begins
        <4> QED BY <1>4, <4>1, <4>2 DEF Sending, Ends
      <3>2. state = "DNBUSY" => Calm
        <4>1. "DNBUSY" # "other"
          OBVIOUS
        <4> QED BY <1>10, <1>11, <4>1 DEF Waits, NoneOwed
      <3> QED BY <3>1, <3>2 DEF NoneOwed, DropDownload
    <2>2. Calm => Calm'
      BY <1>5 DEF Calm
    <2> QED BY <1>5, <1>9, <1>10, <1>11, <2>1, <2>2 DEF Caught
  <1>12. ASSUME ~isr_reset PROVE Served'
    <2>1. /\ stage' = FirstStage(request) /\ taken' = <<>> /\ request' = request /\ tag' = tag
          /\ left' = IF request.kind = "write" THEN request.wLength ELSE 0
          /\ ep0_req_len' = request.wLength /\ request.wLength \in Nat
          /\ request.kind = "write" => request.wLength > 0
      BY <1>1, <1>2, <1>10, <1>12, RequestFields DEF Waits, HostStill
    <2>2. ~ep0r'.ctr_tx /\ ~ep0r'.ctr_rx
      BY <1>5, <1>10, <1>12
    <2>3. ASSUME stage' = "data in"
          PROVE  IF request.kind = "refuse" THEN Refusing' ELSE Replying'
      <3>1. request.kind \in {"read", "status", "refuse"}
        BY <2>1, <2>3 DEF FirstStage
      <3>2. request.kind = "refuse" => Ends(todo', "stall")
        BY <1>4, <1>10, <1>12
      <3>3. request.kind # "refuse" =>
                Sending(todo', tag, request.reply) \/ Flashing(todo', tag, request.reply)
        BY <1>4, <1>10, <1>12, <3>1
      <3> QED BY <2>1, <2>2, <3>2, <3>3 DEF Refusing, Replying
    <2>4. ASSUME stage' = "data out" \/ stage' = "status in" PROVE Finishing'
      <3>1. CASE request.kind \in {"read", "status"}
        <4>1. request.wLength = 0
          <5>1. request.wLength > 0 => FirstStage(request) = "data in"
            BY <3>1 DEF FirstStage
          <5>2. "data in" # "data out" /\ "data in" # "status in"
            OBVIOUS
          <5>3. ~(request.wLength > 0)
            BY <2>1, <2>4, <5>1, <5>2
          <5> QED BY <2>1, <5>3
        <4>2. Ends(todo', "send") \/ Begins(todo', "flash")
          BY <1>4, <1>10, <1>12, <3>1 DEF Sending, Flashing
        <4> QED BY <2>1, <2>2, <4>1, <4>2 DEF Finishing
      <3>2. CASE Ends(todo', "zlp") \/ Ends(todo', "stall")
        BY <2>2, <3>2 DEF Finishing
      <3>3. CASE /\ request.kind = "write" /\ Quiet(todo')
                 /\ state' = "DNLOAD_SYNC" /\ expected' = request.wLength
        <4>1. Unseen' = 0
          BY <2>2 DEF Unseen
        <4>2. left' = request.wLength /\ left' \in Nat /\ left' > 0
          BY <2>1, <3>3
        <4>3. expected' > 0 /\ expected' = left' + 0
          BY <3>3, <4>2
        <4>4. expected' = left' + Unseen' /\ Unseen' # 1
          BY <4>1, <4>3
        <4>5. Lacks'
          BY <2>2, <3>3, <4>3, <4>4 DEF Lacks
        <4> QED BY <2>2, <3>3, <4>5 DEF Finishing
      <3> QED BY <1>4, <1>10, <1>12, <3>1, <3>2, <3>3
    <2> QED BY <2>1, <2>3, <2>4 DEF Served
  <1>13. ~isr_reset => Waits'
    BY <1>6 DEF Waits
  <1> QED BY <1>1, <1>8, <1>11, <1>12, <1>13 DEF HostStill, ReplyInv

LEMMA PollReply == Ep0Inv /\ ReplyInv /\ usb_poll => ReplyInv'
  <1> SUFFICES ASSUME Ep0Inv, ReplyInv, usb_poll PROVE ReplyInv'
    OBVIOUS
  <1>1. /\ todo = <<>> /\ ~isr_reset /\ (ep0r.ctr_rx \/ ep0r.ctr_tx)
        /\ UNCHANGED <<regVars, memVars, hostVars>>
    BY DEF usb_poll
  <1>2. UNCHANGED <<ep0r, isr_reset, tx_packet, rx_packet, ep0_tx_left, state, expected,
                    stage, request, tag, taken, left>>
    BY <1>1 DEF regVars, memVars, txVars, engineVars, hostVars
  <1>3. Underway /\ Caught /\ Waits /\ Served
    BY <1>1 DEF ReplyInv
  <1>4. ~(ep0r.ctr_rx /\ ep0r.ctr_tx)
    BY <1>3 DEF Underway
  <1> DEFINE k == IF ep0r.ctr_tx THEN "in" ELSE IF ep0r.setup THEN "setup" ELSE "out"
             op == <<k>>
  <1>5. op \in Ops /\ op[1] = k /\ k # "clear rx"
    BY Singles DEF Names
  <1>6. todo' = <<op>>
    <2>1. todo' = Handlers
      BY DEF usb_poll
    <2>2. <<op>> \in Seq(Ops)
      BY <1>5, One, Zenon
    <2>3. <<>> \o <<op>> = <<op>> /\ <<op>> \o <<>> = <<op>>
      BY <2>2, ConcatEmptySeq
    <2> HIDE DEF op
    <2>4. Handlers = <<>> \o <<op>> \/ Handlers = <<op>> \o <<>>
      BY <1>1, <1>4 DEF Handlers, op
    <2> QED BY <2>1, <2>3, <2>4
  <1> HIDE DEF op
  <1>7. todo' # <<>> /\ Head(todo')[1] = k /\ Tail(todo') = <<>> /\ KeepsRx(todo')
    <2>1. <<op>> \o <<>> = <<op>>
      BY <1>5, One, ConcatEmptySeq
    <2> QED BY <1>5, <1>6, <2>1, First, AllOfCons, AllOfNone
  <1>8. Only(todo', k) /\ \A j : At(j)' => j = k
    BY <1>7 DEF Only, Begins, At
  <1>9. /\ k \in {"in", "setup", "out"}
        /\ k = "in" => ep0r.ctr_tx /\ ~New
        /\ k = "setup" => New
        /\ k = "out" => ep0r.ctr_rx /\ ~ep0r.setup /\ ~ep0r.ctr_tx /\ ~New
        /\ New' = New
    BY <1>1, <1>2, <1>4 DEF New
  <1> HIDE DEF k
  <1>10. Underway'
    <2>1. Shape(todo')
      BY <1>8, <1>9 DEF Shape
    <2> QED BY <1>2, <1>3, <1>7, <2>1 DEF Underway, New
  <1>11. Caught'
    <2>1. \A j \in {"write tx", "write rx", "flash"} : ~At(j)'
      BY <1>8, <1>9
    <2>2. /\ At("setup")' => New'
          /\ At("out")' => ep0r.ctr_rx /\ ~ep0r.setup
          /\ At("in")' => ep0r.ctr_tx
      BY <1>8, <1>9
    <2> QED BY <1>2, <1>3, <2>1, <2>2 DEF Caught
  <1>12. Waits'
    <2>1. New => At("setup")'
      BY <1>7, <1>9 DEF At
    <2> QED BY <1>2, <1>3, <1>9, <2>1 DEF Waits, NoneOwed, Calm
  <1>13. \A j : ~Begins(todo, j)
    BY <1>1 DEF Begins
  <1>14. /\ \A j : ~Ends(todo, j) /\ ~Only(todo, j)
         /\ \A s : ~Setting(todo, s) /\ ~Writing(todo, s)
         /\ \A t, n : ~Sending(todo, t, n) /\ ~Flashing(todo, t, n)
         /\ ~Chunking(todo)
    BY <1>13, Zenon DEF Ends, Only, Setting, Writing, Sending, Flashing, Chunking
  <1>15. ASSUME ~New, stage = "data in"
         PROVE  IF request.kind = "refuse" THEN Refusing' ELSE Replying'
    <2>1. ep0r.ctr_tx
      <3>1. ep0r.ctr_rx => ~ep0r.setup
        BY <1>15 DEF New
      <3>2. "data in" # "data out" /\ "data in" # "done" /\ "data in" # "status in"
        OBVIOUS
      <3> QED BY <1>1, <1>3, <1>15, <3>1, <3>2 DEF Caught
    <2>2. ~Refusing
      BY <2>1 DEF Refusing
    <2>3. request.kind # "refuse" /\ Replying
      BY <1>3, <1>15, <2>2 DEF Served
    <2>4. ep0r.stat_tx = NAK /\ Remains
      BY <1>14, <2>1, <2>3 DEF Replying
    <2>5. Remains'
      BY <1>2, <2>4 DEF Remains, Reply
    <2>6. Only(todo', "in")
      BY <1>8, <1>9, <2>1 DEF k
    <2> QED BY <1>2, <2>1, <2>3, <2>4, <2>5, <2>6 DEF Replying
  <1>16. ASSUME ~New, stage \in {"data out", "status in"} PROVE Finishing'
    <2>1. Finishing
      BY <1>3, <1>16 DEF Served
    <2>2. ~ep0r.ctr_tx /\ (ep0r.stat_tx = VALID => tx_packet = <<>> \/ Lacks)
      BY <1>14, <2>1, <1>13 DEF Finishing
    <2>3. Only(todo', "out") /\ At("out")'
      <3>1. k = "out"
        BY <1>1, <1>16, <2>2 DEF k, New
      <3> QED BY <1>7, <1>8, <3>1 DEF At
    <2>4. Unseen' = Unseen
      BY <1>1, <1>2, <2>3 DEF Unseen
    <2>5. Lacks => Lacks'
      BY <1>2, <2>3, <2>4 DEF Lacks
    <2> QED BY <1>2, <2>2, <2>3, <2>5 DEF Finishing
  <1>17. Served'
    BY <1>2, <1>9, <1>15, <1>16 DEF Served
  <1> QED BY <1>10, <1>11, <1>12, <1>17 DEF ReplyInv

LEMMA ResetReply == Ep0Inv /\ ReplyInv /\ usb_reset => ReplyInv'
  <1> SUFFICES ASSUME Ep0Inv, ReplyInv, usb_reset PROVE ReplyInv'
    OBVIOUS
  <1>1. /\ todo = <<>> /\ isr_reset
        /\ UNCHANGED <<todo, stage, request, left>>
        /\ ep0r' = Written(ep0r, TRUE, TRUE, VALID, NAK)
    BY DEF usb_reset, hostVars
  <1>2. stage = "done" /\ ~ep0r.setup /\ Underway
    BY <1>1 DEF ReplyInv, Underway
  <1>3. /\ ep0r'.setup = ep0r.setup
        /\ ep0r'.ctr_rx => ep0r.ctr_rx
        /\ ep0r'.ctr_tx => ep0r.ctr_tx
    <2>1. ep0r \in Register /\ TRUE \in BOOLEAN
      BY DEF Ep0Inv, RegisterOK
    <2>2. \A c \in BOOLEAN :
             /\ Written(ep0r, c, c, VALID, NAK).setup = ep0r.setup
             /\ Written(ep0r, c, c, VALID, NAK).ctr_rx => ep0r.ctr_rx
             /\ Written(ep0r, c, c, VALID, NAK).ctr_tx => ep0r.ctr_tx
      <3> SUFFICES ASSUME NEW c \in BOOLEAN
                   PROVE  /\ Written(ep0r, c, c, VALID, NAK).setup = ep0r.setup
                          /\ Written(ep0r, c, c, VALID, NAK).ctr_rx => ep0r.ctr_rx
                          /\ Written(ep0r, c, c, VALID, NAK).ctr_tx => ep0r.ctr_tx
        OBVIOUS
      <3>1. /\ Written(ep0r, c, c, VALID, NAK).setup = ep0r.setup
            /\ Written(ep0r, c, c, VALID, NAK).ctr_rx = (ep0r.ctr_rx /\ c)
            /\ Written(ep0r, c, c, VALID, NAK).ctr_tx = (ep0r.ctr_tx /\ c)
        BY <2>1, WrittenFields
      <3> QED BY <3>1
    <2> QED BY <1>1, <2>1, <2>2, Zenon
  <1>4. ~New'
    BY <1>2, <1>3 DEF New
  <1>5. \A k : ~At(k)'
    BY <1>1 DEF At
  <1>6. Underway'
    BY <1>1, <1>2, <1>3, <1>4 DEF Underway
  <1>7. Caught'
    BY <1>1, <1>2, <1>5 DEF Caught
  <1>8. Waits' /\ Served'
    <2>1. "done" \notin {"data in", "data out", "status in"}
      OBVIOUS
    <2> QED BY <1>1, <1>2, <1>4, <2>1 DEF Waits, Served
  <1> QED BY <1>6, <1>7, <1>8 DEF ReplyInv

LEMMA FirmwareReply == Ep0Inv /\ ReplyInv /\ Firmware => ReplyInv'
  BY PollReply, ResetReply, ReadReply, WriteTxReply, WriteRxReply, ChunkReply, SendReply,
     ZlpReply, StallReply, SetupReply, FlashReply, OutReply, ClearReply, InReply DEF Firmware

-----------------------------------------------------------------------------
(* Steps of the host and of the controller, which wait for the main loop.   *)

(* Timely, by a name of its own.                                            *)
Awaited == Timely

(* What is true when the host is answered.                                  *)
LEMMA WhenAnswered ==
    ASSUME Awaited, Ep0Inv, ReplyInv, Answers
    PROVE  /\ ~isr_reset /\ Underway /\ Caught /\ Waits /\ Served
           /\ ~ep0r.ctr_tx /\ KeepsRx(todo)
           /\ (todo = <<>> /\ ~ep0r.ctr_rx) \/ (At("flash") /\ Calm /\ NoneOwed)
           /\ \A k : k # "flash" => ~At(k)
  <1>1. ~isr_reset /\ Underway /\ Caught /\ Waits /\ Served
    BY DEF Answers, ReplyInv
  <1>2. CASE Attentive
    <2>1. todo = <<>> /\ ~ep0r.ctr_rx /\ ~ep0r.ctr_tx
      BY <1>2 DEF Attentive
    <2>2. KeepsRx(todo) /\ \A k : ~At(k)
      BY <2>1, AllOfNone DEF At
    <2> QED BY <1>1, <2>1, <2>2
  <1>3. CASE At("flash")
    <2>1. KeepsRx(todo)
      <3>1. /\ ~Quiet(todo) /\ ~Chunking(todo)
            /\ \A s : ~Setting(todo, s) /\ ~Writing(todo, s)
            /\ \A j : j # "flash" => ~Begins(todo, j) /\ ~Ends(todo, j) /\ ~Only(todo, j)
        <4>1. /\ "flash" \notin {"read", "write rx", "clear rx"}
              /\ "flash" # "chunk" /\ "flash" # "read" /\ "flash" # "write tx"
          OBVIOUS
        <4>2. TodoOK
          BY DEF Ep0Inv
        <4> QED BY <1>3, <4>1, <4>2, Where, Zenon
      <3> QED BY <1>1, <3>1 DEF Underway, Shape
    <2> QED BY <1>1, <1>3, <2>1 DEF Caught, At
  <1>4. Attentive \/ At("flash")
    BY DEF Answers, Awaited
  <1> QED BY <1>2, <1>3, <1>4

LEMMA SetupSent == Awaited /\ Ep0Inv /\ ReplyInv /\ SendSetup => ReplyInv'
  <1> SUFFICES ASSUME Awaited, Ep0Inv, ReplyInv, SendSetup PROVE ReplyInv'
    OBVIOUS
  <1>1. /\ ~isr_reset /\ Underway /\ Caught
        /\ ~ep0r.ctr_tx /\ KeepsRx(todo)
        /\ todo = <<>> \/ (At("flash") /\ NoneOwed)
        /\ \A k : k # "flash" => ~At(k)
    BY WhenAnswered DEF SendSetup
  <1>2. /\ UNCHANGED <<isr_reset, todo, val, state, expected>>
        /\ tag' = 1 - tag /\ taken' = <<>> /\ ep0r' = Received(TRUE)
    BY DEF SendSetup, memVars, engineVars
  <1>3. PICK r \in Requests :
           /\ request' = r
           /\ rx_packet' = [request |-> r, tag |-> 1 - tag, data |-> FALSE]
           /\ stage' = FirstStage(r)
           /\ left' = IF r.kind = "write" THEN r.wLength ELSE 0
    BY DEF SendSetup
  <1>4. ep0r'.ctr_rx /\ ep0r'.setup /\ ~ep0r'.ctr_tx /\ New' /\ Calm'
    <2>1. RegisterOK /\ TRUE \in BOOLEAN
      BY DEF Ep0Inv
    <2>2. \A s \in BOOLEAN : /\ Received(s).ctr_rx /\ Received(s).ctr_tx = ep0r.ctr_tx
                             /\ Received(s).setup = s
                             /\ Received(s).stat_rx = NAK
                             /\ s => Received(s).stat_tx = NAK
      BY <2>1, ReceivedFields
    <2>3. /\ ep0r'.ctr_rx /\ ep0r'.ctr_tx = ep0r.ctr_tx /\ ep0r'.setup
          /\ ep0r'.stat_rx = NAK /\ ep0r'.stat_tx = NAK
      BY <1>2, <2>1, <2>2, Zenon
    <2> QED BY <1>1, <2>3 DEF New, Calm
  <1>5. /\ rx_packet'.request = request' /\ rx_packet'.tag = tag'
    BY <1>2, <1>3
  <1>6. Underway'
    <2>1. stage' = "data out" <=> r.kind = "write"
      BY <1>3 DEF FirstStage
    <2> QED BY <1>1, <1>2, <1>3, <1>4, <2>1 DEF Underway
  <1>7. Caught'
    <2>1. \A k \in {"setup", "out", "in", "write tx", "write rx"} : ~At(k)'
      <3>1. \A k \in {"setup", "out", "in", "write tx", "write rx"} : ~At(k)
        BY <1>1
      <3> QED BY <1>2, <3>1 DEF At
    <2>2. At("flash")' => NoneOwed'
      BY <1>1, <1>2 DEF At, NoneOwed
    <2> QED BY <1>4, <2>1, <2>2 DEF Caught
  <1>8. Waits'
    <2>1. NoneOwed' \/ todo' = <<>>
      BY <1>1, <1>2 DEF NoneOwed
    <2> QED BY <1>2, <1>3, <1>4, <1>5, <2>1 DEF Waits
  <1>9. Served'
    BY <1>4 DEF Served
  <1> QED BY <1>6, <1>7, <1>8, <1>9 DEF ReplyInv

(* A packet is received, sent, or refused only with the rest handled.       *)
LEMMA Idle ==
    ASSUME Awaited, Ep0Inv, ReplyInv, Answers, ep0r.stat_rx = VALID \/ ep0r.stat_tx # NAK
    PROVE  /\ ~isr_reset /\ Underway /\ Caught /\ Waits /\ Served
           /\ todo = <<>> /\ ~ep0r.ctr_rx /\ ~ep0r.ctr_tx /\ ~New
           /\ \A k : ~At(k)
           /\ Quiet(todo)
           /\ \A j : ~Begins(todo, j) /\ ~Ends(todo, j) /\ ~Only(todo, j)
           /\ \A s : ~Setting(todo, s) /\ ~Writing(todo, s)
           /\ \A t, n : ~Sending(todo, t, n) /\ ~Flashing(todo, t, n)
           /\ ~Chunking(todo)
  <1>1. /\ ~isr_reset /\ Underway /\ Caught /\ Waits /\ Served /\ ~ep0r.ctr_tx
        /\ (todo = <<>> /\ ~ep0r.ctr_rx) \/ Calm
    BY WhenAnswered
  <1>2. ~Calm
    BY Fields DEF Calm
  <1>3. todo = <<>> /\ ~ep0r.ctr_rx
    BY <1>1, <1>2
  <1>4. Quiet(todo) /\ ~New /\ \A k : ~At(k)
    BY <1>3, AllOfNone DEF New, At
  <1>5. \A j : ~Begins(todo, j)
    BY <1>3 DEF Begins
  <1>6. /\ \A j : ~Ends(todo, j) /\ ~Only(todo, j)
        /\ \A s : ~Setting(todo, s) /\ ~Writing(todo, s)
        /\ \A t, n : ~Sending(todo, t, n) /\ ~Flashing(todo, t, n)
        /\ ~Chunking(todo)
    BY <1>5, Zenon DEF Ends, Only, Setting, Writing, Sending, Flashing, Chunking
  <1> QED BY <1>1, <1>3, <1>4, <1>5, <1>6

LEMMA DataSent == Awaited /\ Ep0Inv /\ ReplyInv /\ SendData => ReplyInv'
  <1> SUFFICES ASSUME Awaited, Ep0Inv, ReplyInv, SendData PROVE ReplyInv'
    OBVIOUS
  <1>1. /\ stage = "data out" /\ Answers /\ ep0r.stat_rx = VALID
        /\ left' = left - 1 /\ stage' = IF left = 1 THEN "status in" ELSE stage
        /\ ep0r' = Received(FALSE) /\ rx_packet' = [rx_packet EXCEPT !.data = TRUE]
        /\ UNCHANGED <<isr_reset, todo, tx_packet, state, expected, request>>
    BY DEF SendData, memVars, engineVars
  <1>2. /\ ~isr_reset /\ Underway /\ Caught /\ Waits /\ Served
        /\ todo = <<>> /\ ~ep0r.ctr_rx /\ ~ep0r.ctr_tx /\ ~New
        /\ \A k : ~At(k)
        /\ Quiet(todo)
        /\ \A j : ~Begins(todo, j) /\ ~Ends(todo, j) /\ ~Only(todo, j)
        /\ \A s : ~Setting(todo, s) /\ ~Writing(todo, s)
        /\ ~Chunking(todo)
    BY <1>1, Idle
  <1>3. ep0r'.ctr_rx /\ ~ep0r'.setup /\ ~ep0r'.ctr_tx /\ ep0r'.stat_tx = ep0r.stat_tx
    <2>1. RegisterOK /\ FALSE \in BOOLEAN
      BY DEF Ep0Inv
    <2>2. \A s \in BOOLEAN : /\ Received(s).ctr_rx /\ Received(s).ctr_tx = ep0r.ctr_tx
                             /\ Received(s).setup = s
                             /\ ~s => Received(s).stat_tx = ep0r.stat_tx
      BY <2>1, ReceivedFields
    <2> QED BY <1>1, <1>2, <2>1, <2>2, Zenon
  <1>4. ~New'
    BY <1>3 DEF New
  <1>5. left \in Nat /\ left > 0 /\ left' \in Nat /\ left = left' + 1
    <2>1. left \in Nat /\ left > 0
      BY <1>1 DEF Ep0Inv, HostOK
    <2>2. left' = left - 1
      BY <1>1
    <2> QED BY <2>1, <2>2
  <1>6. request.kind = "write"
    BY <1>1, <1>2 DEF Underway
  <1>7. Underway'
    <2>1. stage' # "data out" => left' = 0
      <3>1. stage' # "data out" => left = 1
        BY <1>1
      <3>2. left = 1 => left' = 0
        <4>1. \A m, n \in Nat : m = n + 1 /\ m = 1 => n = 0
          OBVIOUS
        <4> QED BY <1>5, <4>1
      <3> QED BY <3>1, <3>2
    <2> QED BY <1>1, <1>2, <1>3, <1>4, <1>6, <2>1 DEF Underway
  <1>8. Caught'
    <2>1. \A k : ~At(k)'
      BY <1>1, <1>2 DEF At
    <2> QED BY <1>1, <1>6, <2>1 DEF Caught
  <1>9. Finishing'
    <2>1. Finishing
      BY <1>1, <1>2 DEF Served
    <2>2. ep0r.stat_tx = VALID => tx_packet = <<>> \/ Lacks
      BY <1>2, <2>1 DEF Finishing
    <2>3. Unseen = 0 /\ Unseen' = 1
      BY <1>1, <1>2, <1>3 DEF Unseen
    <2>4. rx_packet'.data
      BY <1>1 DEF Ep0Inv, PacketsOK
    <2>5. Lacks => Lacks'
      <3>1. Lacks => expected' > 0 /\ expected' = left + 0
        BY <1>1, <2>3 DEF Lacks
      <3>2. Lacks => expected' > 0 /\ expected' = left' + Unseen'
        <4>1. left + 0 = left' + 1
          BY <1>5
        <4> QED BY <2>3, <3>1, <4>1
      <3>3. todo' = <<>> /\ state' = state
        BY <1>1, <1>2
      <3> QED BY <2>4, <3>2, <3>3 DEF Lacks
    <2> QED BY <1>1, <1>2, <1>3, <2>2, <2>5 DEF Finishing
  <1>10. Served'
    <2>1. stage' # "data in"
      BY <1>1
    <2> QED BY <1>9, <2>1 DEF Served
  <1> QED BY <1>4, <1>7, <1>8, <1>10 DEF ReplyInv, Waits

LEMMA StatusSent == Awaited /\ Ep0Inv /\ ReplyInv /\ SendStatus => ReplyInv'
  <1> SUFFICES ASSUME Awaited, Ep0Inv, ReplyInv, SendStatus PROVE ReplyInv'
    OBVIOUS
  <1>1. /\ stage = "status out" /\ Answers /\ ep0r.stat_rx = VALID /\ stage' = "done"
        /\ ep0r' = Received(FALSE)
        /\ UNCHANGED <<isr_reset, todo, left>>
    BY DEF SendStatus
  <1>2. /\ ~isr_reset /\ Underway /\ todo = <<>> /\ ~ep0r.ctr_tx /\ \A k : ~At(k)
    BY <1>1, Idle
  <1>3. ep0r'.ctr_rx /\ ~ep0r'.setup /\ ~ep0r'.ctr_tx
    <2>1. RegisterOK /\ FALSE \in BOOLEAN
      BY DEF Ep0Inv
    <2>2. \A s \in BOOLEAN : /\ Received(s).ctr_rx /\ Received(s).ctr_tx = ep0r.ctr_tx
                             /\ Received(s).setup = s
      BY <2>1, ReceivedFields
    <2> QED BY <1>1, <1>2, <2>1, <2>2, Zenon
  <1>4. ~New'
    BY <1>3 DEF New
  <1>5. Underway'
    BY <1>1, <1>2, <1>3, <1>4 DEF Underway
  <1>6. \A k : ~At(k)'
    BY <1>1, <1>2 DEF At
  <1>7. Caught' /\ Waits' /\ Served'
    <2>1. "done" \notin {"data in", "data out", "status in"}
      OBVIOUS
    <2> QED BY <1>1, <1>4, <1>6, <2>1 DEF Caught, Waits, Served
  <1> QED BY <1>5, <1>7 DEF ReplyInv

LEMMA PacketTaken == Awaited /\ Ep0Inv /\ ReplyInv /\ TakePacket => ReplyInv'
  <1> SUFFICES ASSUME Awaited, Ep0Inv, ReplyInv, TakePacket PROVE ReplyInv'
    OBVIOUS
  <1>1. /\ stage \in {"data in", "status in"} /\ Answers /\ ep0r.stat_tx = VALID
        /\ ep0r' = [ep0r EXCEPT !.ctr_tx = TRUE, !.stat_tx = NAK]
        /\ taken' = taken \o tx_packet
        /\ stage' \in {"data in", "status out", "done"}
        /\ stage' = "data in" => stage = "data in"
        /\ UNCHANGED <<isr_reset, todo, ep0_tx_left, request, tag, left>>
    BY DEF TakePacket, memVars, txVars
  <1>2. /\ ~isr_reset /\ Underway /\ Served
        /\ todo = <<>> /\ ~ep0r.ctr_rx /\ ~ep0r.ctr_tx /\ ~New
        /\ \A k : ~At(k)
        /\ \A s : ~Setting(todo, s) /\ ~Writing(todo, s)
        /\ \A j : ~Begins(todo, j) /\ ~Ends(todo, j) /\ ~Only(todo, j)
        /\ \A t, n : ~Sending(todo, t, n) /\ ~Flashing(todo, t, n)
        /\ ~Chunking(todo)
    BY <1>1, Fields, Idle
  <1>3. ep0r'.ctr_tx /\ ~ep0r'.ctr_rx /\ ep0r'.stat_tx = NAK
    BY <1>1, <1>2 DEF Ep0Inv, RegisterOK, Register
  <1>4. ~New'
    BY <1>3 DEF New
  <1>5. Underway'
    <2>1. stage # "data out" /\ stage' # "data out"
      BY <1>1
    <2> QED BY <1>1, <1>2, <1>3, <1>4, <2>1 DEF Underway
  <1>6. Caught'
    <2>1. \A k : ~At(k)'
      BY <1>1, <1>2 DEF At
    <2> QED BY <1>3, <2>1 DEF Caught
  <1>7. ASSUME stage' = "data in"
        PROVE  request'.kind # "refuse" /\ Replying'
    <2>1. IF request.kind = "refuse" THEN Refusing ELSE Replying
      BY <1>1, <1>2, <1>7 DEF Served
    <2>2. ~Refusing
      BY <1>1, <1>2, Fields DEF Refusing
    <2>3. request.kind # "refuse" /\ Replying
      BY <2>1, <2>2
    <2>4. Loaded
      BY <1>1, <1>2, <2>3, Fields DEF Replying
    <2>5. Remains'
      BY <1>1, <2>4 DEF Loaded, Remains, Reply
    <2>6. todo' = <<>>
      BY <1>1, <1>2
    <2> QED BY <1>1, <1>3, <2>3, <2>5, <2>6 DEF Replying
  <1>8. Served'
    <2>1. stage' \notin {"data out", "status in"}
      BY <1>1
    <2> QED BY <1>7, <2>1 DEF Served
  <1> QED BY <1>4, <1>5, <1>6, <1>8 DEF ReplyInv, Waits

LEMMA StallTaken == Awaited /\ Ep0Inv /\ ReplyInv /\ TakeStall => ReplyInv'
  <1> SUFFICES ASSUME Awaited, Ep0Inv, ReplyInv, TakeStall PROVE ReplyInv'
    OBVIOUS
  <1>1. /\ stage \in {"data in", "status in"} /\ Answers /\ ep0r.stat_tx = STALL
        /\ stage' = "done"
        /\ UNCHANGED <<ep0r, isr_reset, todo, left>>
    BY DEF TakeStall, regVars
  <1>2. /\ ~isr_reset /\ Underway /\ ~ep0r.ctr_rx /\ ~New /\ \A k : ~At(k)
    BY <1>1, Fields, Idle
  <1>3. ~New'
    BY <1>1, <1>2 DEF New
  <1>4. Underway'
    BY <1>1, <1>2, <1>3 DEF Underway
  <1>5. \A k : ~At(k)'
    BY <1>1, <1>2 DEF At
  <1>6. Caught' /\ Waits' /\ Served'
    <2>1. "done" \notin {"data in", "data out", "status in"}
      OBVIOUS
    <2> QED BY <1>1, <1>2, <1>3, <1>5, <2>1 DEF Caught, Waits, Served
  <1> QED BY <1>4, <1>6 DEF ReplyInv

LEMMA ResetSent == Ep0Inv /\ ReplyInv /\ BusReset => ReplyInv'
  <1> SUFFICES ASSUME Ep0Inv, ReplyInv, BusReset PROVE ReplyInv'
    OBVIOUS
  <1>1. /\ isr_reset' /\ stage' = "done" /\ left' = 0 /\ todo' = todo
        /\ ep0r' = [ep0r EXCEPT !.setup = FALSE, !.stat_rx = DISABLED, !.stat_tx = DISABLED]
    BY DEF BusReset
  <1>2. ~ep0r'.setup /\ ep0r'.ctr_rx = ep0r.ctr_rx /\ ep0r'.ctr_tx = ep0r.ctr_tx
    BY <1>1 DEF Ep0Inv, RegisterOK, Register
  <1>3. Underway'
    BY <1>1, <1>2 DEF ReplyInv, Underway, New
  <1> QED BY <1>1, <1>3 DEF ReplyInv

LEMMA BusReply == Awaited /\ Ep0Inv /\ ReplyInv /\ Bus => ReplyInv'
  BY SetupSent, DataSent, StatusSent, PacketTaken, StallTaken, ResetSent DEF Bus, HostGoesOn

LEMMA ReplyInductive == Awaited => (Ep0Spec => []ReplyInv)
  <1> SUFFICES ASSUME Awaited PROVE Ep0Spec => []ReplyInv
    OBVIOUS
  <1>1. Ep0Init => ReplyInv
    <2> SUFFICES ASSUME Ep0Init PROVE ReplyInv
      OBVIOUS
    <2>1. /\ todo = <<>> /\ ~isr_reset /\ stage = "done" /\ left = 0
          /\ ~ep0r.ctr_rx /\ ~ep0r.ctr_tx
      BY DEF Ep0Init
    <2>2. ~New /\ (\A k : ~At(k)) /\ Shape(todo)
      BY <2>1, AllOfNone DEF New, At, Shape
    <2>3. Underway /\ Caught /\ Waits
      BY <2>1, <2>2 DEF Underway, Caught, Waits
    <2>4. Served
      <3>1. "done" \notin {"data in", "data out", "status in"}
        OBVIOUS
      <3> QED BY <2>1, <3>1 DEF Served
    <2> QED BY <2>3, <2>4 DEF ReplyInv
  <1>2. Ep0Inv /\ ReplyInv /\ [Ep0Next]_ep0Vars => ReplyInv'
    <2> SUFFICES ASSUME Ep0Inv, ReplyInv, [Ep0Next]_ep0Vars PROVE ReplyInv'
      OBVIOUS
    <2>1. CASE Ep0Next
      BY <2>1, FirmwareReply, BusReply DEF Ep0Next, Bus
    <2>2. CASE UNCHANGED ep0Vars
      <3>1. UNCHANGED <<ep0r, val, isr_reset, todo, tx_packet, rx_packet, ep0_req_len,
                        ep0_tx_left, state, expected, stage, request, tag, taken, left>>
        BY <2>2 DEF ep0Vars, regVars, memVars, txVars, engineVars, hostVars
      <3>2. UNCHANGED <<Underway, Caught, Waits>>
        BY <3>1 DEF Underway, Caught, Waits, New, Calm, NoneOwed, At
      <3>3. UNCHANGED <<Remains, Loaded, Lacks>>
        BY <3>1 DEF Remains, Loaded, Lacks, Unseen, Reply, At
      <3>4. UNCHANGED Served
        BY <3>1, <3>3 DEF Served, Refusing, Replying, Finishing, New
      <3> QED BY <3>1, <3>2, <3>4 DEF ReplyInv
    <2> QED BY <2>1, <2>2
  <1> QED BY <1>1, <1>2, Ep0Inductive, PTL DEF Ep0Spec

-----------------------------------------------------------------------------
(* The refinement of ControlRead, step by step.                             *)

LEMMA AsksReader == SendSetup => Reader!Ask
  <1> SUFFICES ASSUME SendSetup PROVE Reader!Ask
    OBVIOUS
  <1>1. PICK r \in Requests : request' = r /\ stage' = FirstStage(r)
    BY DEF SendSetup
  <1>2. (stage' = "data in") <=> r.kind \in {"read", "status", "refuse"} /\ r.wLength > 0
    BY <1>1 DEF FirstStage
  <1>3. tag' = 1 - tag /\ taken' = <<>>
    BY DEF SendSetup
  <1> QED BY <1>1, <1>2, <1>3 DEF Reader!Ask, Reader!Reads

LEMMA ReplyIsWhole == Reader!Whole = Reply
  BY DEF Reader!Whole, Reader!Bytes, Reader!AtMost, Reply, Bytes, AtMost

LEMMA DeliversToReader ==
    ASSUME Awaited, Ep0Inv, ReplyInv, TakePacket
    PROVE  stage = "data in" => Reader!Deliver
  <1>0. SUFFICES ASSUME stage = "data in" PROVE Reader!Deliver
    OBVIOUS
  <1>1. /\ Answers /\ ep0r.stat_tx = VALID /\ taken' = taken \o tx_packet
        /\ UNCHANGED <<request, tag>>
        /\ stage' = IF Len(tx_packet) < EP0_MAX_SIZE \/ Len(taken') >= request.wLength
                    THEN "status out" ELSE stage
    BY <1>0 DEF TakePacket
  <1>2. /\ Served /\ ~New /\ ~ep0r.ctr_tx /\ todo = <<>>
        /\ \A s : ~Setting(todo, s) /\ ~Writing(todo, s)
        /\ \A j : ~Begins(todo, j) /\ ~Ends(todo, j) /\ ~Only(todo, j)
        /\ \A t, n : ~Sending(todo, t, n) /\ ~Flashing(todo, t, n)
        /\ ~Chunking(todo)
    BY <1>1, Fields, Idle
  <1>3. request.kind # "refuse" /\ Loaded
    <2>1. ~Refusing
      BY <1>1, <1>2, Fields DEF Refusing
    <2>2. request.kind # "refuse" /\ Replying
      BY <1>0, <1>2, <2>1 DEF Served
    <2> QED BY <1>1, <1>2, <2>2, Fields DEF Replying
  <1> DEFINE m == EP0_MAX_SIZE
             upto == AtMost(Len(taken) + m, Len(Reply))
  <1>4. /\ taken \in Seq(Byte) /\ tx_packet \in Seq(Byte) /\ ep0_tx_left \in Seq(Byte)
        /\ m \in Nat /\ Len(tx_packet) <= m /\ request.wLength \in Nat
    BY Ep0Assumption, RequestFields DEF Ep0Inv, HostOK, PacketsOK, MemoryOK
  <1>5. /\ taken \o tx_packet = SubSeq(Reply, 1, upto) /\ upto = Len(taken \o tx_packet)
        /\ upto = Len(taken) + m <=> ~(Len(tx_packet) < m)
    <2>1. /\ (taken \o tx_packet) \o ep0_tx_left = Reply
          /\ ep0_tx_left # <<>> => Len(tx_packet) = m
      BY <1>3 DEF Loaded
    <2> DEFINE w == (taken \o tx_packet) \o ep0_tx_left
               n == AtMost(Len(taken) + m, Len(w))
    <2>2. /\ taken \o tx_packet = SubSeq(w, 1, n) /\ n = Len(taken \o tx_packet)
          /\ n = Len(taken) + m <=> ~(Len(tx_packet) < m)
      <3> HIDE DEF m
      <3> QED BY <1>4, <2>1, TakenPart
    <2>3. w = Reply /\ n = upto
      BY <2>1
    <2> HIDE DEF m, w, n, upto
    <2> QED BY <2>2, <2>3
  <1>6. upto \in Nat
    <2>1. taken \o tx_packet \in Seq(Byte)
      BY <1>4, ConcatProperties
    <2>2. Len(taken \o tx_packet) \in Nat
      BY <2>1
    <2> HIDE DEF upto
    <2> QED BY <1>5, <2>2
  <1>7. (stage' = "data in") <=> upto = Len(taken) + m /\ upto < request.wLength
    <2>1. Len(taken') = upto
      BY <1>1, <1>5
    <2>2. "status out" # "data in"
      OBVIOUS
    <2> HIDE DEF upto
    <2>3. Len(taken') >= request.wLength <=> ~(upto < request.wLength)
      <3> DEFINE a == Len(taken')
                 b == request.wLength
      <3>1. a = upto /\ upto \in Nat /\ b \in Nat
        BY <1>4, <1>6, <2>1
      <3> HIDE DEF a, b
      <3>2. a >= b <=> ~(upto < b)
        BY <3>1
      <3> QED BY <3>2 DEF a, b
    <2> QED BY <1>0, <1>1, <1>5, <2>2, <2>3
  <1>8. upto = Reader!AtMost(Len(taken) + EP0_MAX_SIZE, Len(Reader!Whole))
    BY ReplyIsWhole DEF Reader!AtMost, AtMost
  <1>9. taken' = SubSeq(Reader!Whole, 1, upto)
    BY <1>1, <1>5, ReplyIsWhole
  <1> HIDE DEF upto
  <1> QED BY <1>0, <1>1, <1>3, <1>7, <1>8, <1>9 DEF Reader!Deliver

(* Nothing is sent to the host in a status stage.                           *)
LEMMA EmptyStatus ==
    ASSUME Awaited, Ep0Inv, ReplyInv, TakePacket
    PROVE  stage = "status in" => tx_packet = <<>> /\ taken' = taken
  <1>0. SUFFICES ASSUME stage = "status in" PROVE tx_packet = <<>> /\ taken' = taken
    OBVIOUS
  <1>1. Answers /\ ep0r.stat_tx = VALID /\ taken' = taken \o tx_packet
    BY DEF TakePacket
  <1>2. /\ Underway /\ Served /\ ~New /\ todo = <<>> /\ ~ep0r.ctr_rx
        /\ \A s : ~Setting(todo, s) /\ ~Writing(todo, s)
        /\ \A j : ~Begins(todo, j) /\ ~Ends(todo, j) /\ ~Only(todo, j)
        /\ ~Chunking(todo)
    BY <1>1, Fields, Idle
  <1>3. tx_packet = <<>> \/ Lacks
    BY <1>0, <1>1, <1>2 DEF Served, Finishing
  <1>4. ~Lacks
    <2>1. left = 0
      BY <1>0, <1>2 DEF Underway
    <2>2. Unseen = 0
      BY <1>2 DEF Unseen
    <2>3. Lacks => expected > 0 /\ expected = 0 + 0
      BY <2>1, <2>2 DEF Lacks
    <2>4. ~(0 > 0)
      OBVIOUS
    <2> QED BY <2>3, <2>4
  <1>5. taken \o <<>> = taken
    BY ConcatEmptySeq DEF Ep0Inv, HostOK
  <1> QED BY <1>1, <1>3, <1>4, <1>5

LEMMA RefusesReader ==
    ASSUME Awaited, Ep0Inv, ReplyInv, TakeStall, stage = "data in"
    PROVE  Reader!Refuse
  <1>1. /\ Answers /\ ep0r.stat_tx = STALL /\ stage' = "done"
        /\ UNCHANGED <<request, tag, taken>>
    BY DEF TakeStall
  <1>2. /\ Served /\ ~New /\ ~ep0r.ctr_tx
        /\ \A s : ~Setting(todo, s) /\ ~Writing(todo, s)
        /\ \A t, n : ~Sending(todo, t, n) /\ ~Flashing(todo, t, n)
        /\ ~Chunking(todo)
    BY <1>1, Fields, Idle
  <1>3. ~Replying
    BY <1>1, <1>2, Fields DEF Replying
  <1>4. request.kind = "refuse"
    BY <1>2, <1>3 DEF Served
  <1>5. stage' # "data in"
    BY <1>1
  <1> QED BY <1>1, <1>4, <1>5 DEF Reader!Refuse

LEMMA FirmwareUnread == Firmware => UNCHANGED hostVars
  BY DEF Firmware, usb_poll, usb_reset, ReadEp0r, ep_set_tx_status, ep_set_rx_status,
         ep0_tx_chunk, ep0_send, ep0_send_zlp, ep0_stall, handle_setup, FlashOperation,
         handle_ep0_out, ClearCtrRx, handle_ep0_in

LEMMA ReaderStep ==
    ASSUME Awaited, Ep0Inv, ReplyInv, [Ep0Next]_ep0Vars
    PROVE  [Reader!ControlNext]_(Reader!readVars)
  <1> USE DEF Reader!readVars
  <1>1. CASE SendSetup
    BY <1>1, AsksReader DEF Reader!ControlNext
  <1>2. CASE SendData \/ SendStatus
    <2>1. /\ UNCHANGED <<request, tag, taken>>
          /\ stage \in {"data out", "status out"}
          /\ stage' \in {"data out", "status in", "done"}
      BY <1>2 DEF SendData, SendStatus
    <2>2. stage # "data in" /\ stage' # "data in"
      BY <2>1
    <2> QED BY <2>1, <2>2
  <1>3. CASE TakePacket
    <2>1. CASE stage = "data in"
      BY <1>3, <2>1, DeliversToReader DEF Reader!ControlNext
    <2>2. CASE stage = "status in"
      <3>1. taken' = taken
        BY <1>3, <2>2, EmptyStatus
      <3>2. UNCHANGED <<request, tag>> /\ stage' = "done"
        BY <1>3, <2>2 DEF TakePacket
      <3>3. stage # "data in" /\ stage' # "data in"
        BY <2>2, <3>2
      <3> QED BY <3>1, <3>2, <3>3
    <2> QED BY <1>3, <2>1, <2>2 DEF TakePacket
  <1>4. CASE TakeStall
    <2>1. CASE stage = "data in"
      BY <1>4, <2>1, RefusesReader DEF Reader!ControlNext
    <2>2. CASE stage = "status in"
      <3>1. UNCHANGED <<request, tag, taken>> /\ stage' = "done"
        BY <1>4, <2>2 DEF TakeStall
      <3>2. stage # "data in" /\ stage' # "data in"
        BY <2>2, <3>1
      <3> QED BY <3>1, <3>2
    <2> QED BY <1>4, <2>1, <2>2 DEF TakeStall
  <1>5. CASE BusReset
    <2>1. tag' = 1 - tag /\ taken' = <<>> /\ UNCHANGED request /\ stage' # "data in"
      BY <1>5 DEF BusReset
    <2> QED BY <2>1 DEF Reader!ControlNext, Reader!Cut
  <1>6. CASE Firmware
    <2>1. UNCHANGED <<request, tag, taken, stage>>
      BY <1>6, FirmwareUnread DEF hostVars
    <2> QED BY <2>1
  <1>7. CASE UNCHANGED ep0Vars
    BY <1>7 DEF ep0Vars, hostVars
  <1> QED BY <1>1, <1>2, <1>3, <1>4, <1>5, <1>6, <1>7 DEF Ep0Next, HostGoesOn

(* While the bus waits for the main loop, EP0 implements ControlRead: the   *)
(* reader of a control transfer gets the reply to its own request, whole,   *)
(* in order, cut to the length it asked for and ended where it can tell,    *)
(* whatever transfer it or the bus cut short before (ep0_send,              *)
(* ep0_tx_chunk, handle_ep0_in; "Nothing is in flight across a bus reset",  *)
(* usb_reset).                                                              *)
THEOREM ReaderServed == ASSUME Timely PROVE Ep0Spec => ReplyWhole
  <1>1. Ep0Init => Reader!ControlInit
    <2>1. "done" # "data in"
      OBVIOUS
    <2> QED BY <2>1 DEF Ep0Init, Reader!ControlInit
  <1>2. Ep0Inv /\ ReplyInv /\ [Ep0Next]_ep0Vars => [Reader!ControlNext]_(Reader!readVars)
    BY ReaderStep DEF Awaited
  <1>3. Ep0Spec => []ReplyInv
    BY ReplyInductive DEF Awaited
  <1> QED BY <1>1, <1>2, <1>3, Ep0Inductive, PTL DEF Ep0Spec, ReplyWhole, Reader!ControlSpec

-----------------------------------------------------------------------------
(* The address.                                                             *)

(* A SET_ADDRESS is not given up, and 0 stands for no pending address.      *)
Addresses ==
    \A r \in Requests : r.kind = "address" => r \notin MayAbandon /\ r.address # 0

(* Between the SET_ADDRESS and its status stage.                            *)
Asked == ~New /\ stage = "status in" /\ request.kind = "address"

Assigning ==
    /\ ~ep0r.ctr_tx /\ daddr = assigned /\ pending_address = request.address
    /\ ep0_tx_left = <<>> /\ ~ep0_tx_need_zlp
    /\ \/ Ends(todo, "zlp") \/ Setting(todo, VALID) \/ Writing(todo, VALID)
       \/ Quiet(todo) /\ ep0r.stat_tx = VALID

(* Between the status stage and the handler that sees it.                   *)
Assigned ==
    /\ stage = "done" /\ assigned = pending_address
    /\ ep0_tx_left = <<>> /\ ~ep0_tx_need_zlp
    /\ ep0r.ctr_tx /\ (todo = <<>> \/ Only(todo, "in"))

AddressInv ==
    /\ ~isr_reset /\ pending_address = 0 => daddr = assigned
    /\ isr_reset => todo = <<>> /\ pending_address = 0 /\ assigned = 0
    /\ pending_address # 0 => Assigned \/ Asked
    /\ Asked => Assigning

LEMMA AddressStill ==
    ASSUME AddressInv, NEW k, At(k), k # "in", HostStill,
           UNCHANGED <<daddr, pending_address>>,
           ~isr_reset => New' = New,
           ~isr_reset /\ Assigning => Assigning'
    PROVE  AddressInv'
  <1>1. ~isr_reset
    BY DEF AddressInv, At
  <1>2. ~Assigned
    BY DEF Assigned, Only, Begins, At
  <1>3. UNCHANGED <<Asked, stage, request, assigned, isr_reset>>
    BY <1>1 DEF Asked, HostStill
  <1> QED BY <1>1, <1>2, <1>3 DEF AddressInv

LEMMA NotAssigning ==
    ASSUME TodoOK, NEW k, At(k), k \notin {"zlp", "read", "write tx", "write rx", "clear rx"}
    PROVE  ~Assigning
  <1>1. /\ k \notin {"read", "write rx", "clear rx"} /\ k # "read" /\ k # "write tx"
        /\ k # "zlp"
    OBVIOUS
  <1>2. /\ ~Quiet(todo) /\ ~Ends(todo, "zlp")
        /\ \A s : ~Setting(todo, s) /\ ~Writing(todo, s)
    BY <1>1, Where, Zenon
  <1> QED BY <1>2 DEF Assigning

(* The operations after which EP0 sends something else, or nothing.         *)
LEMMA OtherAddress ==
    ASSUME Ep0Inv, AddressInv,
           ep0_tx_chunk \/ ep0_send \/ ep0_stall \/ FlashOperation \/ handle_ep0_out
    PROVE  AddressInv'
  <1>1. HostStill /\ UNCHANGED <<ep0r, daddr, pending_address>>
    BY DEF ep0_tx_chunk, ep0_send, ep0_stall, FlashOperation, handle_ep0_out,
           regVars, memVars, hostVars, HostStill
  <1>2. PICK k \in {"chunk", "send", "stall", "flash", "out"} : At(k)
    BY DEF ep0_tx_chunk, ep0_send, ep0_stall, FlashOperation, handle_ep0_out
  <1>3. k \notin {"zlp", "read", "write tx", "write rx", "clear rx"} /\ k # "in"
    OBVIOUS
  <1>4. ~Assigning
    BY <1>2, <1>3, NotAssigning DEF Ep0Inv
  <1>5. New' = New
    BY <1>1 DEF New
  <1> QED BY <1>1, <1>2, <1>3, <1>4, <1>5, AddressStill

LEMMA ZlpAddress == Ep0Inv /\ AddressInv /\ ep0_send_zlp => AddressInv'
  <1> SUFFICES ASSUME Ep0Inv, AddressInv, ep0_send_zlp PROVE AddressInv'
    OBVIOUS
  <1>1. /\ TodoOK /\ At("zlp") /\ Then(SetTx(VALID) \o SetRx(VALID)) /\ HostStill
        /\ UNCHANGED <<ep0r, daddr, pending_address>>
        /\ ep0_tx_left' = <<>> /\ ~ep0_tx_need_zlp'
    BY DEF Ep0Inv, ep0_send_zlp, NothingInFlight, hostVars, HostStill
  <1>2. /\ ~Quiet(todo) /\ todo \in Seq(Ops) /\ todo # <<>>
        /\ \A s : ~Setting(todo, s) /\ ~Writing(todo, s)
    <2>1. /\ "zlp" \notin {"read", "write rx", "clear rx"}
          /\ "zlp" # "read" /\ "zlp" # "write tx"
      OBVIOUS
    <2> QED BY <1>1, <2>1, Where, Zenon
  <1>3. ASSUME Assigning PROVE Assigning'
    <2>1. Ends(todo, "zlp")
      BY <1>2, <1>3 DEF Assigning
    <2>2. Tail(todo) \in Seq(Ops) /\ Quiet(Tail(todo)) /\ VALID \in Status
      BY <1>2, <2>1, AllOfTail, Fields DEF Ends
    <2>3. Setting(todo', VALID)
      BY <1>1, <2>2, ResumeTxRx DEF Then
    <2> QED BY <1>1, <1>3, <2>3 DEF Assigning, HostStill
  <1>4. New' = New
    BY <1>1 DEF New
  <1>5. "zlp" # "in"
    OBVIOUS
  <1> QED BY <1>1, <1>3, <1>4, <1>5, AddressStill

LEMMA ReadAddress == Ep0Inv /\ AddressInv /\ ReadEp0r => AddressInv'
  <1> SUFFICES ASSUME Ep0Inv, AddressInv, ReadEp0r PROVE AddressInv'
    OBVIOUS
  <1>1. /\ TodoOK /\ At("read") /\ Then(<<>>) /\ HostStill
        /\ UNCHANGED <<ep0r, daddr, pending_address, ep0_tx_left, ep0_tx_need_zlp>>
    BY DEF Ep0Inv, ReadEp0r, regVars, memVars, txVars, hostVars, HostStill
  <1>2. todo' = Tail(todo) /\ (Quiet(todo) => Quiet(todo'))
    BY <1>1, Drops
  <1>3. ~Ends(todo, "zlp") /\ \A s : ~Writing(todo, s)
    <2>1. "read" # "write tx" /\ "read" # "zlp"
      OBVIOUS
    <2> QED BY <1>1, <2>1, Where, Zenon
  <1>4. Setting(todo, VALID) => Writing(todo', VALID)
    BY <1>2 DEF Setting
  <1>5. Assigning => Assigning'
    BY <1>1, <1>2, <1>3, <1>4 DEF Assigning, HostStill
  <1>6. New' = New
    BY <1>1 DEF New
  <1>7. "read" # "in"
    OBVIOUS
  <1> QED BY <1>1, <1>5, <1>6, <1>7, AddressStill

LEMMA WriteTxAddress == Ep0Inv /\ ReplyInv /\ AddressInv /\ ep_set_tx_status => AddressInv'
  <1> SUFFICES ASSUME Ep0Inv, ReplyInv, AddressInv, ep_set_tx_status PROVE AddressInv'
    OBVIOUS
  <1>1. /\ TodoOK /\ At("write tx") /\ Then(<<>>) /\ HostStill
        /\ UNCHANGED <<daddr, pending_address, ep0_tx_left, ep0_tx_need_zlp>>
    BY DEF Ep0Inv, ep_set_tx_status, memVars, txVars, hostVars, HostStill
  <1>2. todo' = Tail(todo)
    BY <1>1, Drops
  <1>3. ~Quiet(todo) /\ ~Ends(todo, "zlp") /\ \A s : ~Setting(todo, s)
    <2>1. /\ "write tx" \notin {"read", "write rx", "clear rx"}
          /\ "write tx" # "read" /\ "write tx" # "zlp"
      OBVIOUS
    <2> QED BY <1>1, <2>1, Where, Zenon
  <1> DEFINE s == Head(todo)[2]
  <1>4. s \in Status
    <2>1. Sound(Head(todo)) /\ Head(todo)[1] = "write tx"
      BY <1>1, Continues
    <2> QED BY <2>1 DEF Sound
  <1>5. ASSUME ~isr_reset PROVE Same(ep0r, ep0r') /\ ep0r'.stat_tx = s
    <2>1. ep0r \in Register /\ val = ep0r
      BY <1>1, <1>5 DEF ReplyInv, Caught, Ep0Inv, RegisterOK
    <2>2. ep0r' = Written(ep0r, ep0r.ctr_rx, ep0r.ctr_tx, RxUntouched, Xor(ep0r.stat_tx, s))
      BY <2>1 DEF ep_set_tx_status
    <2> HIDE DEF s
    <2> QED BY <1>4, <2>1, <2>2, WroteTx
  <1>6. ASSUME ~isr_reset, Assigning PROVE Assigning'
    <2>1. Writing(todo, VALID)
      BY <1>3, <1>6 DEF Assigning
    <2>2. Quiet(todo') /\ s = VALID
      BY <1>2, <2>1 DEF Writing, Ends
    <2> HIDE DEF s
    <2> QED BY <1>1, <1>5, <1>6, <2>2 DEF Assigning, HostStill, Same
  <1>7. ~isr_reset => New' = New
    BY <1>5 DEF New, Same
  <1>8. "write tx" # "in"
    OBVIOUS
  <1> QED BY <1>1, <1>6, <1>7, <1>8, AddressStill

(* What concerns reception only.                                            *)
LEMMA RxAddress ==
    ASSUME Ep0Inv, ReplyInv, AddressInv, ep_set_rx_status \/ ClearCtrRx
    PROVE  AddressInv'
  <1>1. /\ TodoOK /\ Then(<<>>) /\ HostStill
        /\ UNCHANGED <<daddr, pending_address, ep0_tx_left, ep0_tx_need_zlp>>
    BY DEF Ep0Inv, ep_set_rx_status, ClearCtrRx, memVars, txVars, hostVars, HostStill
  <1>2. PICK k \in {"write rx", "clear rx"} :
          At(k) /\ (k = "write rx" => ep_set_rx_status) /\ (k = "clear rx" => ClearCtrRx)
    BY DEF ep_set_rx_status, ClearCtrRx
  <1>3. Quiet(todo) => Quiet(todo')
    BY <1>1, <1>2, Drops
  <1>4. ~Ends(todo, "zlp") /\ \A s : ~Setting(todo, s) /\ ~Writing(todo, s)
    <2>1. k # "write tx" /\ k # "read" /\ k # "zlp"
      OBVIOUS
    <2> QED BY <1>1, <1>2, <2>1, Where, Zenon
  <1>5. ASSUME ~isr_reset
        PROVE  /\ ep0r'.ctr_tx = ep0r.ctr_tx /\ ep0r'.stat_tx = ep0r.stat_tx
               /\ New' = New
    <2>1. ep0r \in Register
      BY DEF Ep0Inv, RegisterOK
    <2>2. CASE k = "write rx"
      <3>1. Head(todo)[2] = VALID /\ VALID \in Status
        <4>1. Sound(Head(todo)) /\ Head(todo)[1] = "write rx"
          BY <1>1, <1>2, <2>2, Continues
        <4> QED BY <4>1, Fields DEF Sound
      <3>2. val = ep0r
        BY <1>2, <1>5, <2>2 DEF ReplyInv, Caught
      <3>3. ep0r' = Written(ep0r, ep0r.ctr_rx, ep0r.ctr_tx, Xor(ep0r.stat_rx, VALID), 0)
        BY <1>2, <2>2, <3>1, <3>2 DEF ep_set_rx_status
      <3>4. Same(ep0r, ep0r') /\ ep0r'.stat_tx = ep0r.stat_tx
        BY <2>1, <3>1, <3>3, WroteRx
      <3> QED BY <3>4 DEF New, Same
    <2>3. CASE k = "clear rx"
      <3>1. ~ep0r'.ctr_rx /\ ep0r'.ctr_tx = ep0r.ctr_tx /\ ep0r'.stat_tx = ep0r.stat_tx
        <4>1. ep0r' = Written(ep0r, FALSE, TRUE, 0, 0)
          BY <1>2, <2>3 DEF ClearCtrRx
        <4> QED BY <2>1, <4>1, Cleared
      <3>2. ~KeepsRx(todo)
        <4>1. todo \in Seq(Ops) /\ todo # <<>> /\ Head(todo)[1] = "clear rx"
          BY <1>1, <1>2, <2>3 DEF At, TodoOK
        <4> QED BY <4>1, AllOfTail
      <3>3. ~New
        BY <3>2 DEF ReplyInv, Underway
      <3> QED BY <3>1, <3>3 DEF New
    <2> QED BY <1>2, <2>2, <2>3
  <1>6. ~isr_reset /\ Assigning => Assigning'
    BY <1>1, <1>3, <1>4, <1>5 DEF Assigning, HostStill
  <1>7. k # "in"
    OBVIOUS
  <1> QED BY <1>1, <1>2, <1>5, <1>6, <1>7, AddressStill

LEMMA PollAddress == Ep0Inv /\ ReplyInv /\ AddressInv /\ usb_poll => AddressInv'
  <1> SUFFICES ASSUME Ep0Inv, ReplyInv, AddressInv, usb_poll PROVE AddressInv'
    OBVIOUS
  <1>1. todo = <<>> /\ ~isr_reset /\ (ep0r.ctr_rx \/ ep0r.ctr_tx) /\ todo' = Handlers
    BY DEF usb_poll
  <1>2. UNCHANGED <<ep0r, isr_reset, daddr, pending_address, ep0_tx_left, ep0_tx_need_zlp,
                    stage, request, assigned>>
    BY DEF usb_poll, regVars, memVars, txVars, hostVars
  <1>3. Caught /\ ~(ep0r.ctr_rx /\ ep0r.ctr_tx)
    BY <1>1 DEF ReplyInv, Underway
  <1>4. ~Asked
    <2> SUFFICES ASSUME Asked PROVE FALSE
      OBVIOUS
    <2>1. ~ep0r.ctr_tx
      BY DEF AddressInv, Assigning
    <2>2. ep0r.ctr_rx /\ ~ep0r.setup
      BY <1>1, <2>1 DEF Asked, New
    <2>3. "status in" \notin {"data out", "done"} /\ "address" # "write"
      OBVIOUS
    <2> QED BY <1>3, <2>2, <2>3 DEF Caught, Asked
  <1>5. UNCHANGED <<New, Asked>>
    BY <1>2 DEF New, Asked
  <1>6. Assigned => Assigned'
    <2>1. ep0r.ctr_tx => Only(todo', "in")
      <3> DEFINE op == <<"in">>
      <3>1. op \in Ops /\ op[1] = "in"
        BY Singles DEF Names
      <3>2. ep0r.ctr_tx => Handlers = <<>> \o <<op>>
        BY <1>3 DEF Handlers
      <3> HIDE DEF op
      <3>3. <<>> \o <<op>> = <<op>> /\ <<op>> \o <<>> = <<op>>
        <4>1. <<op>> \in Seq(Ops)
          BY <3>1, One, Zenon
        <4> QED BY <4>1, ConcatEmptySeq
      <3>4. <<op>> # <<>> /\ Head(<<op>>) = op /\ Tail(<<op>>) = <<>>
        BY <3>1, <3>3, First, AllOfNone
      <3>5. ep0r.ctr_tx => todo' = <<op>>
        BY <1>1, <3>2, <3>3
      <3> QED BY <3>1, <3>4, <3>5 DEF Only, Begins
    <2> QED BY <1>2, <2>1 DEF Assigned
  <1> QED BY <1>1, <1>2, <1>4, <1>5, <1>6 DEF AddressInv

LEMMA ResetAddress == Ep0Inv /\ ReplyInv /\ AddressInv /\ usb_reset => AddressInv'
  <1> SUFFICES ASSUME Ep0Inv, ReplyInv, AddressInv, usb_reset PROVE AddressInv'
    OBVIOUS
  <1>1. /\ isr_reset /\ ~isr_reset' /\ daddr' = 0
        /\ UNCHANGED <<pending_address, stage, assigned>>
    BY DEF usb_reset, hostVars
  <1>2. pending_address = 0 /\ assigned = 0 /\ stage = "done"
    BY <1>1 DEF AddressInv, ReplyInv, Underway
  <1>3. ~Asked'
    BY <1>1, <1>2 DEF Asked
  <1> QED BY <1>1, <1>2, <1>3 DEF AddressInv

LEMMA SetupAddress ==
    Addresses /\ Ep0Inv /\ ReplyInv /\ AddressInv /\ handle_setup => AddressInv'
  <1> SUFFICES ASSUME Addresses, Ep0Inv, ReplyInv, AddressInv, handle_setup
               PROVE  AddressInv'
    OBVIOUS
  <1>1. /\ TodoOK /\ At("setup") /\ HostStill /\ UNCHANGED daddr
        /\ ep0_tx_left' = <<>> /\ ~ep0_tx_need_zlp'
    BY DEF Ep0Inv, handle_setup, NothingInFlight, hostVars, HostStill
  <1>2. ~isr_reset
    BY <1>1 DEF AddressInv, At
  <1>3. New /\ ~ep0r.ctr_tx /\ rx_packet.request = request
    BY <1>1, <1>2 DEF ReplyInv, Underway, Caught, Waits, New
  <1>4. request \in Requests /\ rx_packet.tag \in {0, 1}
    BY DEF Ep0Inv, HostOK, PacketsOK
  <1>5. Dispatch(request, rx_packet.tag)
    BY <1>3 DEF handle_setup
  <1>6. pending_address = 0 /\ daddr = assigned
    <2>1. ~Assigned /\ ~Asked
      BY <1>3 DEF Assigned, Asked
    <2> QED BY <1>2, <2>1 DEF AddressInv
  <1>7. UNCHANGED <<stage, request, assigned, isr_reset>>
    BY <1>1 DEF HostStill
  <1>8. ~ep0r'.ctr_rx /\ ~ep0r'.ctr_tx
    <2>1. ep0r \in Register /\ ep0r' = Written(ep0r, FALSE, TRUE, 0, 0)
      BY DEF handle_setup, Ep0Inv, RegisterOK
    <2> QED BY <1>3, <2>1, Cleared
  <1>9. CASE request.kind = "address"
    <2>1. pending_address' = request.address /\ request.address # 0
      BY <1>4, <1>5, <1>9 DEF Dispatch, Addresses
    <2>2. stage = "status in"
      <3>1. FirstStage(request) = "status in"
        BY <1>9 DEF FirstStage
      <3> QED BY <1>2, <1>3, <3>1 DEF ReplyInv, Waits
    <2>3. Asked'
      BY <1>7, <1>8, <1>9, <2>2 DEF Asked, New
    <2>4. Ends(todo', "zlp")
      <3>1. Only(todo, "setup")
        <4>1. /\ ~Quiet(todo) /\ ~Chunking(todo)
              /\ \A s : ~Setting(todo, s) /\ ~Writing(todo, s)
              /\ \A j : j # "setup" => ~Begins(todo, j) /\ ~Ends(todo, j) /\ ~Only(todo, j)
          <5>1. /\ "setup" \notin {"read", "write rx", "clear rx"}
                /\ "setup" # "chunk" /\ "setup" # "read" /\ "setup" # "write tx"
            OBVIOUS
          <5> QED BY <1>1, <5>1, Where, Zenon
        <4> QED BY <4>1 DEF ReplyInv, Underway, Shape
      <3>2. "address" \notin {"read", "status", "refuse", "write"} /\ "address" # "status"
            /\ "address" # "write"
        OBVIOUS
      <3> QED BY <1>1, <1>4, <1>5, <1>9, <3>1, <3>2, Answered
    <2>5. Assigning'
      BY <1>1, <1>6, <1>7, <1>8, <2>1, <2>4 DEF Assigning
    <2> QED BY <1>2, <1>7, <2>1, <2>3, <2>5 DEF AddressInv
  <1>10. CASE request.kind # "address"
    <2>1. pending_address' = 0
      BY <1>5, <1>6, <1>10 DEF Dispatch
    <2>2. ~Asked'
      BY <1>7, <1>10 DEF Asked
    <2> QED BY <1>1, <1>2, <1>6, <1>7, <2>1, <2>2 DEF AddressInv
  <1> QED BY <1>9, <1>10

LEMMA InAddress == Ep0Inv /\ ReplyInv /\ AddressInv /\ handle_ep0_in => AddressInv'
  <1> SUFFICES ASSUME Ep0Inv, ReplyInv, AddressInv, handle_ep0_in PROVE AddressInv'
    OBVIOUS
  <1>1. TodoOK /\ At("in") /\ HostStill
    BY DEF Ep0Inv, handle_ep0_in, hostVars, HostStill
  <1>2. ~isr_reset
    BY <1>1 DEF AddressInv, At
  <1>3. ep0r.ctr_tx
    BY <1>1, <1>2 DEF ReplyInv, Caught
  <1>4. ~Asked
    BY <1>3 DEF AddressInv, Assigning
  <1>5. pending_address # 0 =>
            assigned = pending_address /\ ep0_tx_left = <<>> /\ ~ep0_tx_need_zlp
    BY <1>4 DEF AddressInv, Assigned
  <1>6. pending_address = 0 => daddr = assigned
    BY <1>2 DEF AddressInv
  <1>7. \/ UNCHANGED <<daddr, pending_address>> /\ (ep0_tx_left # <<>> \/ ep0_tx_need_zlp)
        \/ /\ daddr' = IF pending_address # 0 THEN pending_address ELSE daddr
           /\ pending_address' = 0
    BY DEF handle_ep0_in, NonePending
  <1>8. pending_address' = 0 /\ daddr' = assigned
    BY <1>5, <1>6, <1>7
  <1>9. ~Asked'
    <2>1. ep0r'.ctr_rx = ep0r.ctr_rx /\ ep0r'.setup = ep0r.setup
      <3>1. ep0r \in Register /\ ep0r' = Written(ep0r, TRUE, FALSE, 0, 0)
        BY DEF handle_ep0_in, Ep0Inv, RegisterOK
      <3> QED BY <3>1, Cleared
    <2> QED BY <1>1, <1>4, <2>1 DEF Asked, New, HostStill
  <1> QED BY <1>1, <1>2, <1>8, <1>9 DEF AddressInv, HostStill

LEMMA FirmwareAddress ==
    Addresses /\ Ep0Inv /\ ReplyInv /\ AddressInv /\ Firmware => AddressInv'
  BY PollAddress, ResetAddress, ReadAddress, WriteTxAddress, RxAddress, OtherAddress,
     ZlpAddress, SetupAddress, InAddress DEF Firmware

-----------------------------------------------------------------------------
(* The host and the address.                                                *)

(* Outside a SET_ADDRESS and the handler of its last packet none is pending.*)
LEMMA NonePendingElse ==
    ASSUME Addresses, Ep0Inv, AddressInv, ~ep0r.ctr_tx,
           stage # "status in" \/ request.kind # "address"
    PROVE  pending_address = 0
  BY DEF AddressInv, Assigned, Asked

LEMMA GivenUp ==
    ASSUME Addresses, Ep0Inv, AddressInv, ~ep0r.ctr_tx,
           stage = "done" \/ request \in MayAbandon
    PROVE  pending_address = 0
  <1>1. request \in Requests
    BY DEF Ep0Inv, HostOK
  <1>2. stage # "status in" \/ request.kind # "address"
    BY <1>1 DEF Addresses
  <1> QED BY <1>2, NonePendingElse

LEMMA BusAddress ==
    ASSUME Awaited, ~ResetAnywhere, Addresses, Ep0Inv, ReplyInv, AddressInv, Bus
    PROVE  AddressInv'
  <1>1. CASE SendSetup
    <2>1. /\ ~isr_reset /\ ~ep0r.ctr_tx
          /\ stage = "done" \/ request \in MayAbandon
          /\ UNCHANGED <<isr_reset, daddr, pending_address, assigned>>
          /\ ep0r' = Received(TRUE)
      BY <1>1, WhenAnswered DEF SendSetup, memVars
    <2>2. pending_address = 0 /\ daddr = assigned
      BY <2>1, GivenUp DEF AddressInv
    <2>3. New'
      <3>1. RegisterOK /\ TRUE \in BOOLEAN
        BY DEF Ep0Inv
      <3>2. \A s \in BOOLEAN : Received(s).ctr_rx /\ Received(s).setup = s
        BY <3>1, ReceivedFields
      <3>3. ep0r'.ctr_rx /\ ep0r'.setup
        BY <2>1, <3>1, <3>2, Zenon
      <3> QED BY <3>3 DEF New
    <2> QED BY <2>1, <2>2, <2>3 DEF AddressInv, Asked
  <1>2. CASE SendData \/ SendStatus
    <2>1. /\ Answers /\ ep0r.stat_rx = VALID
          /\ stage = "data out" \/ (stage = "status out" /\ stage' = "done")
          /\ UNCHANGED <<isr_reset, daddr, pending_address, assigned, request>>
      BY <1>2 DEF SendData, SendStatus, memVars
    <2>2. ~isr_reset /\ ~ep0r.ctr_tx /\ Underway
      BY <2>1, Idle
    <2>3. stage # "status in"
      BY <2>1
    <2>4. pending_address = 0 /\ daddr = assigned
      BY <2>2, <2>3, NonePendingElse DEF AddressInv
    <2>5. ~Asked'
      <3>1. stage = "data out" => request.kind # "address"
        BY <2>2 DEF Underway
      <3>2. stage # "data out" => stage' # "status in"
        BY <2>1
      <3> QED BY <2>1, <3>1, <3>2 DEF Asked
    <2> QED BY <2>1, <2>2, <2>4, <2>5 DEF AddressInv
  <1>3. CASE TakePacket
    <2>1. /\ Answers /\ ep0r.stat_tx = VALID
          /\ stage \in {"data in", "status in"}
          /\ UNCHANGED <<isr_reset, daddr, pending_address, request, todo, ep0_tx_left,
                         ep0_tx_need_zlp>>
          /\ stage' # "status in" /\ (stage = "status in" => stage' = "done")
          /\ assigned' = IF stage = "status in" /\ request.kind = "address"
                         THEN request.address ELSE assigned
      BY <1>3 DEF TakePacket, memVars, txVars
    <2>2. ~isr_reset /\ todo = <<>> /\ ~ep0r.ctr_rx /\ ~ep0r.ctr_tx /\ ~New
      BY <2>1, Fields, Idle
    <2>3. ~Asked'
      BY <2>1 DEF Asked
    <2>4. CASE stage = "status in" /\ request.kind = "address"
      <3>1. Asked /\ Assigning
        BY <2>2, <2>4 DEF Asked, AddressInv
      <3>2. request.address # 0
        BY <2>4 DEF Addresses, Ep0Inv, HostOK
      <3>3. ep0r'.ctr_tx
        BY <1>3 DEF TakePacket, Ep0Inv, RegisterOK, Register
      <3>4. pending_address' # 0 /\ Assigned'
        BY <2>1, <2>2, <2>4, <3>1, <3>2, <3>3 DEF Assigning, Assigned
      <3> QED BY <2>1, <2>2, <2>3, <3>4 DEF AddressInv
    <2>5. CASE stage # "status in" \/ request.kind # "address"
      <3>1. pending_address = 0 /\ daddr = assigned
        BY <2>2, <2>5, NonePendingElse DEF AddressInv
      <3> QED BY <2>1, <2>2, <2>3, <2>5, <3>1 DEF AddressInv
    <2> QED BY <2>4, <2>5
  <1>4. CASE TakeStall
    <2>1. /\ Answers /\ ep0r.stat_tx = STALL /\ stage' = "done"
          /\ UNCHANGED <<isr_reset, daddr, pending_address, assigned>>
      BY <1>4 DEF TakeStall, regVars, memVars
    <2>2. /\ ~isr_reset /\ ~ep0r.ctr_tx /\ ~New
          /\ \A j : ~Ends(todo, j)
          /\ \A s : ~Setting(todo, s) /\ ~Writing(todo, s)
      BY <2>1, Fields, Idle
    <2>3. ~Asked
      BY <2>1, <2>2, Fields DEF AddressInv, Assigning
    <2>4. pending_address = 0 /\ daddr = assigned
      BY <2>2, <2>3 DEF AddressInv, Assigned
    <2>5. ~Asked'
      BY <2>1 DEF Asked
    <2> QED BY <2>1, <2>2, <2>4, <2>5 DEF AddressInv
  <1>5. CASE BusReset
    <2>1. /\ Attentive /\ isr_reset' /\ stage' = "done" /\ assigned' = 0
          /\ stage = "done" \/ request \in MayAbandon
          /\ UNCHANGED <<todo, pending_address>>
      BY <1>5 DEF BusReset, memVars
    <2>2. todo = <<>> /\ ~ep0r.ctr_tx
      BY <2>1 DEF Attentive
    <2>3. pending_address = 0
      BY <2>1, <2>2, GivenUp
    <2>4. ~Asked'
      BY <2>1 DEF Asked
    <2> QED BY <2>1, <2>2, <2>3, <2>4 DEF AddressInv
  <1> QED BY <1>1, <1>2, <1>3, <1>4, <1>5 DEF Bus, HostGoesOn

(* While the bus waits for the main loop and is not reset while a handler   *)
(* runs, and as long as no host gives up a SET_ADDRESS or asks for address  *)
(* 0, a device that has caught up is at the address its host gave it:       *)
(* pending_address reaches USB_DADDR with the packet that ends the status   *)
(* stage and no other (handle_ep0_in), and usb_reset returns to address 0.  *)
THEOREM AddressAlwaysAgreed ==
    ASSUME Timely, ~ResetAnywhere, Addresses
    PROVE  Ep0Spec => []AddressAgreed
  <1>1. Ep0Init => AddressInv
    <2> SUFFICES ASSUME Ep0Init PROVE AddressInv
      OBVIOUS
    <2>1. ~isr_reset /\ daddr = assigned /\ pending_address = 0 /\ stage = "done"
      BY DEF Ep0Init
    <2>2. ~Asked
      BY <2>1 DEF Asked
    <2> QED BY <2>1, <2>2 DEF AddressInv
  <1>2. Ep0Inv /\ ReplyInv /\ AddressInv /\ [Ep0Next]_ep0Vars => AddressInv'
    <2> SUFFICES ASSUME Ep0Inv, ReplyInv, AddressInv, [Ep0Next]_ep0Vars PROVE AddressInv'
      OBVIOUS
    <2>1. CASE Ep0Next
      <3>1. Awaited
        BY DEF Awaited
      <3> QED BY <2>1, <3>1, FirmwareAddress, BusAddress DEF Ep0Next, Bus
    <2>2. CASE UNCHANGED ep0Vars
      <3>1. UNCHANGED <<ep0r, isr_reset, daddr, todo, pending_address, ep0_tx_left,
                        ep0_tx_need_zlp, stage, request, assigned>>
        BY <2>2 DEF ep0Vars, regVars, memVars, txVars, hostVars
      <3>2. UNCHANGED <<Asked, Assigned, Assigning>>
        BY <3>1 DEF Asked, Assigned, Assigning, New
      <3> QED BY <3>1, <3>2 DEF AddressInv
    <2> QED BY <2>1, <2>2
  <1>3. Ep0Inv /\ AddressInv => AddressAgreed
    <2> SUFFICES ASSUME AddressInv, Attentive, ~isr_reset PROVE daddr = assigned
      BY DEF AddressAgreed
    <2>1. ~Assigned
      BY DEF Attentive, Assigned
    <2> QED BY <2>1 DEF AddressInv, Assigning
  <1>4. Ep0Spec => []ReplyInv
    BY ReplyInductive DEF Awaited
  <1> QED BY <1>1, <1>2, <1>3, <1>4, Ep0Inductive, PTL DEF Ep0Spec

-----------------------------------------------------------------------------
(* What the reader may conclude.                                            *)

Facts == INSTANCE ControlReadProofs WITH open <- (stage = "data in")

LEMMA SameReader ==
    /\ Reader!ControlInit => Facts!ControlInit
    /\ [Reader!ControlNext]_(Reader!readVars) => [Facts!ControlNext]_(Facts!readVars)
  BY DEF Reader!ControlInit, Facts!ControlInit, Reader!ControlNext, Facts!ControlNext,
         Reader!Ask, Facts!Ask, Reader!Reads, Facts!Reads, Reader!Deliver, Facts!Deliver,
         Reader!Refuse, Facts!Refuse, Reader!Cut, Facts!Cut, Reader!Whole, Facts!Whole,
         Reader!AtMost, Facts!AtMost, Reader!Bytes, Facts!Bytes,
         Reader!readVars, Facts!readVars

(* A host past its data stage holds nothing or all it was to have.          *)
EndedWhole == stage # "data in" /\ taken # <<>> => taken = Reply

(* While the bus waits for the main loop, what a host holds once its data   *)
(* stage is over is the reply to its own request, from the first byte to    *)
(* the last one it asked for, or nothing: a part never passes for the       *)
(* whole, since a short packet comes last and only last (ep0_send: "A data  *)
(* stage ends on a packet shorter than wMaxPacketSize").                    *)
THEOREM NoPartForWhole == ASSUME Timely PROVE Ep0Spec => []EndedWhole
  <1>1. EP0_MAX_SIZE \in Nat \ {0} /\ Facts!Lengths
    BY Ep0Assumption DEF Facts!Lengths
  <1>2. Facts!ControlSpec => []Facts!WholeWhenEnded
    BY <1>1, Facts!ReaderHasItAll
  <1>3. ReplyWhole => Facts!ControlSpec
    BY SameReader, PTL DEF ReplyWhole, Reader!ControlSpec, Facts!ControlSpec
  <1>4. Facts!WholeWhenEnded => EndedWhole
    BY DEF Facts!WholeWhenEnded, EndedWhole, Facts!Whole, Facts!Bytes, Facts!AtMost,
           Reply, Bytes, AtMost
  <1> QED BY <1>2, <1>3, <1>4, ReaderServed, PTL
=============================================================================
