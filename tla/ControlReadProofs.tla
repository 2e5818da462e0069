-------------------------- MODULE ControlReadProofs --------------------------
(* What a reader may conclude from ControlRead, and so from the EP0 that    *)
(* implements it, for every packet size and set of requests.                *)
EXTENDS ControlRead, SequenceTheorems, TLAPS

(* A request says how much it asks for, and its reply has a length.         *)
Lengths == \A r \in Requests : r.wLength \in Nat /\ r.reply \in Nat

Item == {0, 1} \X Nat

LEMMA BytesSeq ==
    ASSUME NEW t \in {0, 1}, NEW n \in Nat
    PROVE  Bytes(t, n) \in Seq(Item) /\ Len(Bytes(t, n)) = n
  <1>1. Bytes(t, n) \in [1 .. n -> Item]
    BY DEF Bytes, Item
  <1> QED BY <1>1

(* The reader has taken a part of the reply from its beginning; it is past  *)
(* the end of its data stage only with nothing or with all of it; and a     *)
(* request that is refused yields nothing.                                  *)
ReadInv ==
    /\ request \in Requests
    /\ tag \in {0, 1}
    /\ taken \in Seq(Item)
    /\ request.kind = "refuse" => taken = <<>>
    /\ WholeWhenEnded

LEMMA ReadStep ==
    ASSUME EP0_MAX_SIZE \in Nat \ {0}, Lengths, ReadInv, [ControlNext]_readVars
    PROVE  ReadInv'
  <1>1. <<>> \in Seq(Item)
    OBVIOUS
  <1>2. CASE Ask
    BY <1>1, <1>2 DEF Ask, ReadInv, WholeWhenEnded
  <1>3. CASE Deliver
    <2> DEFINE W == AtMost(request.reply, request.wLength)
               n == Len(taken)
               upto == AtMost(n + EP0_MAX_SIZE, Len(Whole))
    <2>1. W \in Nat /\ W <= request.wLength /\ request.wLength \in Nat
      BY DEF Lengths, ReadInv, AtMost
    <2>2. Whole \in Seq(Item) /\ Len(Whole) = W
      BY <2>1, BytesSeq DEF Whole, ReadInv
    <2>3. n \in Nat
      BY DEF ReadInv
    <2>4. upto \in 0 .. W /\ (upto # n + EP0_MAX_SIZE => upto = W)
      <3> HIDE DEF W, n
      <3> QED BY <2>1, <2>2, <2>3 DEF AtMost
    <2>5. /\ taken' = SubSeq(Whole, 1, upto)
          /\ open' = (upto = n + EP0_MAX_SIZE /\ upto < request.wLength)
          /\ UNCHANGED <<request, tag>>
          /\ request.kind # "refuse"
      BY <1>3 DEF Deliver
    <2>6. Whole' = Whole
      BY <2>5 DEF Whole
    <2>7. taken' \in Seq(Item)
      <3> HIDE DEF upto, W
      <3> QED BY <2>1, <2>2, <2>4, <2>5, SubSeqProperties
    <2>8. ~open' => taken' = Whole
      <3> SUFFICES ASSUME ~(upto = n + EP0_MAX_SIZE /\ upto < request.wLength)
                   PROVE  taken' = Whole
        BY <2>5
      <3>1. upto = W
        <4> HIDE DEF upto, W, n
        <4> QED BY <2>1, <2>4
      <3> HIDE DEF upto, W, n
      <3> QED BY <2>2, <2>5, <3>1, SubSeqFull
    <2> QED BY <2>5, <2>6, <2>7, <2>8 DEF ReadInv, WholeWhenEnded
  <1>4. CASE Refuse
    BY <1>4 DEF Refuse, ReadInv, WholeWhenEnded
  <1>5. CASE Cut
    BY <1>1, <1>5 DEF Cut, ReadInv, WholeWhenEnded
  <1>6. CASE UNCHANGED readVars
    BY <1>6 DEF readVars, ReadInv, WholeWhenEnded, Whole
  <1> QED BY <1>2, <1>3, <1>4, <1>5, <1>6 DEF ControlNext

(* A reader that comes to the end of its data stage with anything at all    *)
(* has the whole reply: the rules by which ep0_send and handle_ep0_in end a *)
(* transfer leave no way to tell it that a part is all.                     *)
THEOREM ReaderHasItAll ==
    ASSUME EP0_MAX_SIZE \in Nat \ {0}, Lengths
    PROVE  ControlSpec => []WholeWhenEnded
  <1>1. ControlInit => ReadInv
    BY DEF ControlInit, ReadInv, WholeWhenEnded
  <1>2. ReadInv /\ [ControlNext]_readVars => ReadInv'
    BY ReadStep
  <1>3. ReadInv => WholeWhenEnded
    BY DEF ReadInv
  <1> QED BY <1>1, <1>2, <1>3, PTL DEF ControlSpec
=============================================================================
