-------------------------- MODULE StatusLinkProofs --------------------------
(***************************************************************************)
(* Why the console of src/newECC never shows a status: the size the        *)
(* controller writes behind the type never reads 1, 1, 1.                  *)
(***************************************************************************)
EXTENDS StatusLink, TLAPS

Bytes == 0..255

Inv ==
    /\ targets \in Bytes /\ missiles \in Bytes
    /\ stream \in Seq({Status(t, m) : t \in Bytes, m \in Bytes})
    /\ shown = Nothing /\ drawn = Nothing

\* The third byte of the size is 0 whatever the lists hold.
LEMMA SizeIsShort ==
    ASSUME NEW t \in Bytes, NEW m \in Bytes
    PROVE  ~Recognised(Cut(Status(t, m)))
<1>1. PICK size : size = PayloadSize(t, m)
  OBVIOUS
<1>2. size \in Nat /\ size < 65536
  BY <1>1 DEF PayloadSize, Bytes
<1>3. (size \div 65536) % 256 = 0
  BY <1>2
<1>4. Cut(Status(t, m)).head[4] = (size \div 65536) % 256
  BY <1>1 DEF Cut, Status
<1>. QED  BY <1>3, <1>4 DEF Recognised

LEMMA InvStep ==
    ASSUME Counts \subseteq Bytes, Inv, [Next]_vars
    PROVE  Inv'
<1> DEFINE S == {Status(t, m) : t \in Bytes, m \in Bytes}
<1> USE DEF Inv
<1>1. CASE ListsChange
  BY <1>1 DEF ListsChange
<1>2. CASE SendStatus
  <2>1. Status(targets, missiles) \in S
    OBVIOUS
  <2>2. stream' \in Seq(S)
    BY <1>2, <2>1 DEF SendStatus
  <2>. QED  BY <1>2, <2>2 DEF SendStatus
<1>3. CASE RequestStatus
  BY <1>3 DEF RequestStatus
<1>4. CASE ReceiveStatus
  <2>1. PICK k \in 1..Len(stream) : stream' = SubSeq(stream, k + 1, Len(stream))
    BY <1>4 DEF ReceiveStatus
  <2>2. stream' \in Seq(S)
    BY <2>1
  <2>3. stream[1] \in S
    BY <2>1
  <2>4. ~Recognised(Cut(stream[1]))
    BY <2>3, SizeIsShort
  <2>5. UNCHANGED <<shown, drawn, targets, missiles>>
    BY <1>4, <2>4 DEF ReceiveStatus
  <2>. QED  BY <2>2, <2>5
<1>5. CASE UNCHANGED vars
  BY <1>5 DEF vars
<1>. QED  BY <1>1, <1>2, <1>3, <1>4, <1>5 DEF Next

(* With lists of at most 255 entries, the most their one-byte numbers can  *)
(* tell, the console never shows a status and the viewer draws none        *)
(* (ECC_TCP::recvThread against Serializer::serializeStatusResponse).      *)
THEOREM NothingShown ==
    ASSUME Counts \subseteq Bytes
    PROVE  Spec => [](shown = Nothing /\ drawn = Nothing)
<1>1. Init => Inv
  BY DEF Init, Inv
<1>2. Inv /\ [Next]_vars => Inv'
  BY InvStep
<1>3. Inv => shown = Nothing /\ drawn = Nothing
  BY DEF Inv
<1>. QED  BY <1>1, <1>2, <1>3, PTL DEF Spec
=============================================================================
