---------------------------- MODULE IsoTpProofs ----------------------------
(***************************************************************************)
(* What IsoTp guarantees, for PDUs of any lengths, any block sizes and any *)
(* number of PDUs, answers and losses; and that it implements PduChannel.  *)
(***************************************************************************)
EXTENDS IsoTp, SequenceTheorems, FiniteSetTheorems, WellFoundedInduction, TLAPS

FlowFrames == [kind : {"FC"}, fs : {"CTS", "WT", "OVFLW"}, bs : 0 .. 255]
FirstFrames ==
  [kind : {"FF"}, pdu : Nat, from : Nat, n : Nat, sn : Nat, len : Nat]
OtherFrames == [kind : {"SF", "FF", "CF"}, pdu : Nat, from : Nat, n : Nat, sn : Nat]

\* What the task sends, and what the peer does.
Wire == FlowFrames \cup FirstFrames \cup {f \in OtherFrames : f.kind # "FF"}
Inbox == FlowFrames \cup OtherFrames

-----------------------------------------------------------------------------
(* The invariants *)

Types ==
  /\ phase \in {"idle", "fc", "cf", "first", "cfs"}
  /\ lens \in Seq(PduLens) /\ Len(lens) <= MaxPdus
  /\ offset \in 0 .. LengthRange + FrameBytes /\ seqNum \in 0 .. SnRange - 1
  /\ bs \in 0 .. 255 /\ inBlock \in Nat
  /\ inbox \in Seq(Inbox) /\ toPeer \in Seq(Wire)
  /\ returned \subseteq DOMAIN lens /\ gaveUp \in BOOLEAN
  /\ received \in {<<"none">>, <<"nothing">>, <<"raised">>} \cup {<<"pdu", Answer(p)>> : p \in 1 .. MaxPdus}
  /\ recvs \in 0 .. MaxRecvs /\ lost \in 0 .. MaxLost
  /\ reception \in [frames : Seq(Wire), bs : 0 .. 255, inBlock : Nat]
  /\ delivered \in Seq(Seq(Wire))
  /\ answer \in [done : Nat, cfs : Nat, sn : Nat]

\* send_pdu's locals: after n frames of the PDU it is sending.
Position(n) ==
  /\ lens # <<>> /\ lens[Len(lens)] > FrameBytes
  /\ n \in Nat \ {0} /\ offset = FirstBytes + FrameBytes * (n - 1)
  /\ offset < lens[Len(lens)] /\ seqNum = n % SnRange
  /\ Len(lens) \notin returned

Sending == phase \in {"fc", "cf"} => \E n \in Nat : Position(n)

\* The PDUs the peer has started on.
TakenUp == Len(delivered) + (IF reception.frames = <<>> THEN 0 ELSE 1)

\* The peer takes up no more PDUs than were sent.
PdusRise ==
  /\ TakenUp <= Len(lens)
  /\ \A i \in DOMAIN toPeer : Starts(toPeer[i]) => toPeer[i].pdu \in TakenUp + 1 .. Len(lens)
  /\ \A i, j \in DOMAIN toPeer :
       i < j /\ Starts(toPeer[i]) /\ Starts(toPeer[j]) => toPeer[i].pdu < toPeer[j].pdu

\* It answers no more than it delivered.
AnswersKnown ==
  /\ answer.done <= Len(delivered)
  /\ \A i \in DOMAIN inbox : inbox[i].kind = "SF" => inbox[i].pdu \in 1 .. Len(delivered)

IsCF(f) == f.kind = "CF"
CFs == {i \in DOMAIN toPeer : IsCF(toPeer[i])}
Clears(f) == f.kind = "FC" /\ f.fs = "CTS"
Cleared == \E i \in DOMAIN inbox : Clears(inbox[i])

\* After n frames of PDU p comes f, whereupon there are m frames of PDU q.
Follows(p, n, f, q, m) ==
  \/ f.kind = "FC" /\ q = p /\ m = n
  \/ /\ f.kind = "SF" /\ f.pdu = p /\ n = 0
     /\ q = p + 1 /\ m = 0
  \/ /\ f.kind = "FF" /\ f.pdu = p /\ n = 0 /\ p \in DOMAIN lens /\ f.len = lens[p]
     /\ q = p /\ m = 1
  \/ /\ f.kind = "CF" /\ f.pdu = p /\ n > 0 /\ f.sn = n % SnRange /\ p \in DOMAIN lens
     /\ IF FirstBytes + FrameBytes * n >= lens[p] THEN q = p + 1 /\ m = 0
        ELSE q = p /\ m = n + 1

NotAfter(p, n, q, m) == p < q \/ (p = q /\ n <= m)

\* The frames on their way lead from where the peer is to where the task is: p
\* and n are the PDU and the number of its frames before each of them.
Begins(p, n) == p[1] = Len(delivered) + 1 /\ n[1] = Len(reception.frames)

EndsAt(q, m) ==
  IF phase \in {"fc", "cf"} THEN q = Len(lens) /\ Position(m) ELSE q = Len(lens) + 1 /\ m = 0

Leads(p, n) == \A i \in DOMAIN toPeer : Follows(p[i], n[i], toPeer[i], p[i + 1], n[i + 1])

Rises(p, n) ==
  \A i, j \in 1 .. Len(toPeer) + 1 : i <= j => NotAfter(p[i], n[i], p[j], n[j])

\* Of a PDU that is begun and not ended a frame is on its way, or the task is
\* still at it.
Supplied(p, n) ==
  LET end == Len(toPeer) + 1
  IN  \A i \in 1 .. end :
        n[i] > 0 => \/ p[i] = p[end] /\ n[i] = n[end]
                    \/ \E j \in CFs : i <= j

Path(p, n) ==
  /\ Begins(p, n) /\ EndsAt(p[Len(toPeer) + 1], n[Len(toPeer) + 1])
  /\ Leads(p, n) /\ Rises(p, n) /\ Supplied(p, n)

Joined == \E p, n \in [1 .. Len(toPeer) + 1 -> Nat] : Path(p, n)

\* What the peer has is the beginning of what it is being sent.
DeliveredInOrder == \A i \in DOMAIN delivered : delivered[i] # <<>> /\ delivered[i][1].pdu = i

BegunInOrder ==
  reception.frames # <<>> =>
    /\ Len(delivered) + 1 \in DOMAIN lens
    /\ reception.frames[1].pdu = Len(delivered) + 1
    /\ reception.frames[1].len = lens[Len(delivered) + 1]

\* The peer has begun on the task's last PDU.
OnLast == reception.frames # <<>> /\ Len(delivered) + 1 = Len(lens)
Pending == Cardinality(CFs)

\* The task and the peer agree about the block.
BlockAgreed ==
  /\ reception.bs # 0 => reception.inBlock + Pending <= reception.bs
  /\ phase = "cf" =>
       /\ OnLast /\ bs = reception.bs /\ inBlock = reception.inBlock + Pending
       /\ bs # 0 => inBlock < bs
  /\ phase = "fc" /\ OnLast /\ Pending > 0 =>
       reception.bs # 0 /\ reception.inBlock + Pending = reception.bs

CFsAwaited == \A i \in CFs : toPeer[i].pdu = Len(delivered) + 1 /\ reception.frames # <<>>

FirstIsLast ==
  \A i \in DOMAIN toPeer : toPeer[i].kind = "FF" => i = Len(toPeer) /\ phase = "fc"

ClearedOnce ==
  Cleared =>
    /\ phase = "fc" /\ OnLast /\ Pending = 0 /\ reception.inBlock = 0
    /\ \A i \in DOMAIN inbox : Clears(inbox[i]) => inbox[i].bs = reception.bs
    /\ \A i, j \in DOMAIN inbox : Clears(inbox[i]) /\ Clears(inbox[j]) => i = j

InStep ==
  /\ Joined /\ DeliveredInOrder /\ BegunInOrder
  /\ BlockAgreed /\ CFsAwaited /\ FirstIsLast /\ ClearedOnce

\* The peer had no room for the PDU, which the task does not know yet.
TurnedDown ==
  /\ phase = "fc" /\ toPeer = <<>> /\ reception = NoReception
  /\ Len(delivered) + 1 = Len(lens) /\ DeliveredInOrder /\ ~Cleared

Together == ~gaveUp => InStep \/ TurnedDown

IInv == Types /\ Sending /\ PdusRise /\ AnswersKnown /\ Together

-----------------------------------------------------------------------------
(* Sequences of frames *)

LEMMA Appended ==
  ASSUME NEW S, NEW s \in Seq(S), NEW e \in S, NEW t, t = Append(s, e)
  PROVE  /\ Len(s) \in Nat /\ DOMAIN s = 1 .. Len(s)
         /\ t \in Seq(S) /\ t # <<>> /\ Len(t) = Len(s) + 1 /\ DOMAIN t = 1 .. Len(s) + 1
         /\ \A i \in DOMAIN s : i \in DOMAIN t /\ t[i] = s[i] /\ i \in Nat /\ i < Len(s) + 1
         /\ t[Len(s) + 1] = e /\ Len(s) + 1 \in DOMAIN t
         /\ \A i \in DOMAIN t : i \in DOMAIN s \/ i = Len(s) + 1
<1>. PICK k \in Nat : k = Len(s)  BY LenProperties
<1>1. /\ t \in Seq(S) /\ t # <<>> /\ Len(t) = k + 1
      /\ \A i \in 1 .. k : t[i] = s[i]
      /\ t[k + 1] = e
  BY AppendProperties
<1>2. DOMAIN s = 1 .. k /\ DOMAIN t = 1 .. k + 1  BY <1>1, LenProperties
<1>3. \A i \in 1 .. k + 1 : i \in 1 .. k \/ i = k + 1  OBVIOUS
<1>4. \A i \in 1 .. k : i \in 1 .. k + 1 /\ i \in Nat /\ i < k + 1  OBVIOUS
<1>5. k + 1 \in 1 .. k + 1  OBVIOUS
<1>. QED  BY <1>1, <1>2, <1>3, <1>4, <1>5

LEMMA Tailed ==
  ASSUME NEW S, NEW s \in Seq(S), s # <<>>, NEW t, t = Tail(s)
  PROVE  /\ Len(s) \in Nat \ {0} /\ DOMAIN s = 1 .. Len(s) /\ 1 \in DOMAIN s
         /\ Head(s) = s[1] /\ s[1] \in S
         /\ t \in Seq(S) /\ Len(t) = Len(s) - 1 /\ DOMAIN t = 1 .. Len(s) - 1
         /\ \A i \in DOMAIN t : i + 1 \in DOMAIN s /\ t[i] = s[i + 1] /\ i \in Nat /\ i + 1 # 1
<1>. PICK k \in Nat \ {0} : k = Len(s)  BY EmptySeq, LenProperties
<1>1. /\ Head(s) = s[1] /\ s[1] \in S /\ t \in Seq(S) /\ Len(t) = k - 1
      /\ \A i \in 1 .. Len(t) : t[i] = s[i + 1]
  BY HeadTailProperties
<1>2. DOMAIN s = 1 .. k /\ DOMAIN t = 1 .. k - 1  BY <1>1, LenProperties
<1>3. 1 \in 1 .. k /\ \A i \in 1 .. k - 1 : i + 1 \in 1 .. k /\ i \in Nat /\ i + 1 # 1  OBVIOUS
<1>. QED  BY <1>1, <1>2, <1>3

LEMMA RemovedPlaces ==
  ASSUME NEW S, NEW s \in Seq(S), NEW k \in DOMAIN s, NEW t, t = RemoveAt(s, k)
  PROVE  /\ t \in Seq(S)
         /\ \A i \in DOMAIN t : \E j \in DOMAIN s :
              t[i] = s[j] /\ j = IF i < k THEN i ELSE i + 1
         /\ \A i \in 1 .. k - 1 : t[i] = s[i]
         /\ \A i \in k .. Len(s) - 1 : t[i] = s[i + 1]
         /\ Len(t) = Len(s) - 1 /\ DOMAIN t = 1 .. Len(s) - 1 /\ DOMAIN t \subseteq Nat
<1>. DEFINE a == SubSeq(s, 1, k - 1)
            b == SubSeq(s, k + 1, Len(s))
<1>1. PICK m \in Nat : m = Len(s) /\ DOMAIN s = 1 .. m /\ k \in 1 .. m  BY LenProperties
<1>2. a \in Seq(S) /\ Len(a) = k - 1 /\ \A i \in 1 .. k - 1 : a[i] = s[i]
  <2>1. \A i \in 1 .. k - 1 : s[i] \in S  BY <1>1, ElementOfSeq
  <2>2. /\ a \in Seq(S) /\ Len(a) = IF 1 <= k - 1 THEN k - 1 - 1 + 1 ELSE 0
        /\ \A i \in 1 .. k - 1 - 1 + 1 : a[i] = s[1 + i - 1]
    BY <1>1, <2>1, SubSeqProperties
  <2>. QED  BY <1>1, <2>2
<1>3. b \in Seq(S) /\ Len(b) = m - k /\ \A i \in 1 .. m - k : b[i] = s[k + i]
  <2>1. \A i \in k + 1 .. m : s[i] \in S  BY <1>1, ElementOfSeq
  <2>2. /\ b \in Seq(S) /\ Len(b) = IF k + 1 <= m THEN m - (k + 1) + 1 ELSE 0
        /\ \A i \in 1 .. m - (k + 1) + 1 : b[i] = s[k + 1 + i - 1]
    BY <1>1, <2>1, SubSeqProperties
  <2>. QED  BY <1>1, <2>2
<1>4. t = a \o b  BY DEF RemoveAt
<1>. HIDE DEF a, b
<1>5. /\ t \in Seq(S) /\ Len(t) = Len(a) + Len(b)
      /\ \A i \in 1 .. Len(a) + Len(b) : t[i] = IF i <= Len(a) THEN a[i] ELSE b[i - Len(a)]
  <2>1. a \in Seq(S) /\ b \in Seq(S)  BY <1>2, <1>3
  <2>2. /\ a \o b \in Seq(S) /\ Len(a \o b) = Len(a) + Len(b)
        /\ \A i \in 1 .. Len(a) + Len(b) :
             (a \o b)[i] = IF i <= Len(a) THEN a[i] ELSE b[i - Len(a)]
    BY <2>1, ConcatProperties
  <2>. QED  BY <1>4, <2>2
<1>6. Len(a) + Len(b) = m - 1
  <2>1. Len(a) = k - 1 /\ Len(b) = m - k  BY <1>2, <1>3
  <2>2. (k - 1) + (m - k) = m - 1  BY <1>1
  <2>. QED  BY <2>1, <2>2
<1>7. DOMAIN t = 1 .. m - 1  BY <1>5, <1>6, LenProperties
<1>8. ASSUME NEW i \in DOMAIN t
      PROVE  \E j \in DOMAIN s : t[i] = s[j] /\ j = IF i < k THEN i ELSE i + 1
  <2>1. i \in 1 .. Len(a) + Len(b)  BY <1>6, <1>7
  <2>2. CASE i < k
    <3>1. i \in 1 .. k - 1 /\ i <= Len(a) /\ i \in 1 .. m  BY <1>1, <1>2, <1>7, <2>2
    <3>. QED  BY <1>1, <1>2, <1>5, <2>1, <2>2, <3>1
  <2>3. CASE ~(i < k)
    <3>1. ~(i <= Len(a)) /\ i - Len(a) \in 1 .. m - k /\ k + (i - Len(a)) = i + 1
          /\ i + 1 \in 1 .. m
      BY <1>1, <1>2, <1>7, <2>3
    <3>. QED  BY <1>1, <1>3, <1>5, <2>1, <2>3, <3>1
  <2>. QED  BY <2>2, <2>3
<1>9. Len(t) = Len(s) - 1 /\ DOMAIN t = 1 .. Len(s) - 1  BY <1>1, <1>5, <1>6, <1>7
<1>10. DOMAIN t \subseteq Nat  BY <1>1, <1>7
<1>11. \A i \in 1 .. k - 1 : t[i] = s[i]  BY <1>1, <1>7, <1>8
<1>12. \A i \in k .. Len(s) - 1 : t[i] = s[i + 1]  BY <1>1, <1>7, <1>8
<1>. QED  BY <1>5, <1>8, <1>9, <1>10, <1>11, <1>12

LEMMA Removed ==
  ASSUME NEW S, NEW s \in Seq(S), NEW k \in DOMAIN s, NEW t, t = RemoveAt(s, k)
  PROVE  /\ t \in Seq(S)
         /\ \A i \in DOMAIN t : \E j \in DOMAIN s :
              t[i] = s[j] /\ j = IF i < k THEN i ELSE i + 1
         /\ DOMAIN t \subseteq Nat
BY RemovedPlaces

LEMMA FramesTyped ==
  /\ \A f \in Inbox : /\ f.kind \in {"SF", "FF", "CF", "FC"}
                      /\ f.kind = "FC" => f.bs \in 0 .. 255 /\ f.fs \in {"CTS", "WT", "OVFLW"}
                      /\ f.kind # "FC" => f.pdu \in Nat
  /\ \A f \in Wire : /\ f.kind \in {"SF", "FF", "CF", "FC"}
                     /\ f.kind # "FC" => f.pdu \in Nat
<1>1. \A f \in Inbox : /\ f.kind \in {"SF", "FF", "CF", "FC"}
                       /\ f.kind = "FC" => f.bs \in 0 .. 255 /\ f.fs \in {"CTS", "WT", "OVFLW"}
                       /\ f.kind # "FC" => f.pdu \in Nat
  BY DEF Inbox, FlowFrames, OtherFrames
<1>2. \A f \in Wire : /\ f.kind \in {"SF", "FF", "CF", "FC"}
                      /\ f.kind # "FC" => f.pdu \in Nat
  BY DEF Wire, FlowFrames, FirstFrames, OtherFrames
<1>. QED  BY <1>1, <1>2

LEMMA FlowTyped ==
  ASSUME NEW fs \in {"CTS", "WT", "OVFLW"}, NEW size \in 0 .. 255
  PROVE  /\ Flow(fs, size) \in Inbox /\ Flow(fs, size) \in Wire
         /\ Flow(fs, size).kind = "FC" /\ Flow(fs, size).fs = fs /\ Flow(fs, size).bs = size
BY DEF Wire, Inbox, FlowFrames, Flow

\* The flow control frame that recv_pdu sends.
LEMMA OwnFlowTyped ==
  Flow("CTS", OwnBlockSize) \in Wire /\ Flow("CTS", OwnBlockSize).kind = "FC"
<1>1. OwnBlockSize \in 0 .. 255  BY IsoTpAssumption
<1>2. "CTS" \in {"CTS", "WT", "OVFLW"}  OBVIOUS
<1>. QED  BY <1>1, <1>2, FlowTyped

LEMMA FrameTyped ==
  ASSUME NEW kind \in {"SF", "FF", "CF"}, NEW p \in Nat, NEW from \in Nat, NEW n \in Nat,
         NEW sn \in Nat
  PROVE  LET f == Frame(kind, p, from, n, sn)
         IN  /\ f \in Inbox /\ (kind # "FF" => f \in Wire)
             /\ f.kind = kind /\ f.pdu = p /\ f.n = n /\ f.sn = sn
BY DEF Wire, Inbox, OtherFrames, Frame

LEMMA FirstFrameTyped ==
  ASSUME NEW p \in Nat, NEW len \in PduLens
  PROVE  LET f == FirstFrame(p, len)
         IN  f \in Wire /\ f.kind = "FF" /\ f.pdu = p /\ f.len = len
<1>1. len \in 0 .. LengthRange - 1 /\ LengthRange = 4096
  BY IsoTpAssumption DEF LengthRange
<1>2. len % LengthRange = len /\ len \in Nat  BY <1>1
<1>3. FirstFrame(p, len)
        = [kind |-> "FF", pdu |-> p, from |-> 0, n |-> 6, sn |-> 0, len |-> len]
  BY <1>2 DEF FirstFrame, FirstBytes
<1>. QED  BY <1>2, <1>3 DEF Wire, FirstFrames

LEMMA LengthsBounded ==
  ASSUME Types
  PROVE  /\ Len(lens) \in Nat /\ DOMAIN lens = 1 .. Len(lens)
         /\ \A p \in DOMAIN lens : lens[p] \in PduLens /\ lens[p] \in 0 .. LengthRange - 1
         /\ PduLens \subseteq 0 .. LengthRange - 1
         /\ LengthRange = 4096
<1>1. lens \in Seq(PduLens) /\ PduLens \subseteq 0 .. LengthRange - 1
  BY IsoTpAssumption DEF Types
<1>2. \A p \in DOMAIN lens : lens[p] \in PduLens  BY <1>1, ElementOfSeq, LenProperties
<1>3. Len(lens) \in Nat /\ DOMAIN lens = 1 .. Len(lens)  BY <1>1, LenProperties
<1>4. \A p \in DOMAIN lens : lens[p] \in 0 .. LengthRange - 1  BY <1>1, <1>2
<1>. QED  BY <1>1, <1>2, <1>3, <1>4 DEF LengthRange

LEMMA ChunkArithmetic ==
  ASSUME NEW l \in Nat, l <= 4095, NEW n \in Nat \ {0}, NEW o \in Nat, o = 6 + 7 * (n - 1), o < l,
         NEW m, m = IF l - o < 7 THEN l - o ELSE 7
  PROVE  /\ m \in Nat /\ o + m <= 4096
         /\ o + m >= l <=> 6 + 7 * n >= l
         /\ ~(o + m >= l) => o + m = 6 + 7 * n
<1>1. m \in Nat /\ ((l - o < 7 /\ m = l - o) \/ (l - o >= 7 /\ m = 7))  OBVIOUS
<1>2. m \in Nat  BY <1>1
<1>. QED  BY <1>1, <1>2

\* The next frame of the PDU under way, and what is left to send after it.
LEMMA NextChunk ==
  ASSUME Types, NEW n \in Nat, Position(n)
  PROVE  LET p == Len(lens)
             f == Chunk(p, offset)
         IN  /\ f \in Wire /\ f.kind = "CF" /\ f.pdu = p /\ f.sn = n % SnRange
             /\ p \in DOMAIN lens
             /\ offset + f.n \in 0 .. LengthRange
             /\ offset + f.n >= lens[p] <=> FirstBytes + FrameBytes * n >= lens[p]
             /\ ~(offset + f.n >= lens[p]) => offset + f.n = FirstBytes + FrameBytes * (n + 1 - 1)
             /\ NextSeqNum(seqNum) = (n + 1) % SnRange
<1>. DEFINE p == Len(lens)
            l == lens[p]
            m == IF l - offset < 7 THEN l - offset ELSE 7
            f == Chunk(p, offset)
<1>0. LengthRange = 4096 /\ FirstBytes = 6 /\ FrameBytes = 7 /\ SnRange = 16
  BY DEF FirstBytes, FrameBytes, LengthRange, SnRange
<1>1. p \in Nat \ {0} /\ p \in DOMAIN lens /\ l \in 0 .. LengthRange - 1
  BY LengthsBounded, EmptySeq DEF Position, Types
<1>2. offset = 6 + 7 * (n - 1) /\ n # 0 /\ offset < l /\ seqNum = n % 16 /\ offset \in Nat
  BY <1>0 DEF Position, Types
<1>3. f = Frame("CF", p, offset, m, n % 16)
  BY <1>0, <1>2 DEF Chunk
<1>. HIDE DEF l, f
<1>4. l \in Nat /\ l <= 4095  BY <1>0, <1>1
<1>5. /\ m \in Nat /\ offset + m <= 4096
      /\ offset + m >= l <=> 6 + 7 * n >= l
      /\ ~(offset + m >= l) => offset + m = 6 + 7 * n
  BY <1>2, <1>4, ChunkArithmetic
<1>. HIDE DEF m
<1>6. n % 16 \in Nat /\ ((n % 16) + 1) % 16 = (n + 1) % 16 /\ n + 1 - 1 = n  OBVIOUS
<1>7. f \in Wire /\ f.kind = "CF" /\ f.pdu = p /\ f.sn = n % 16 /\ f.n = m
  <2>1. "CF" \in {"SF", "FF", "CF"} /\ "CF" # "FF"  OBVIOUS
  <2>2. p \in Nat /\ offset \in Nat /\ m \in Nat /\ n % 16 \in Nat  BY <1>1, <1>2, <1>5, <1>6
  <2>3. PICK sn \in Nat : sn = n % 16  BY <2>2
  <2>4. LET g == Frame("CF", p, offset, m, sn)
        IN  g \in Wire /\ g.kind = "CF" /\ g.pdu = p /\ g.n = m /\ g.sn = sn
    BY <2>2 DEF Frame, Wire, OtherFrames
  <2>. QED  BY <1>3, <2>3, <2>4
<1>8. NextSeqNum(seqNum) = (n + 1) % 16  BY <1>0, <1>2, <1>6 DEF NextSeqNum
<1>9. offset + m \in 0 .. LengthRange  BY <1>0, <1>2, <1>5
<1>. QED  BY <1>0, <1>1, <1>5, <1>6, <1>7, <1>8, <1>9 DEF l, f

LEMMA TypesSend ==
  ASSUME IInv,
         \/ \E len \in PduLens : SendSingle(len) \/ SendFirst(len)
         \/ SendStep
  PROVE  Types'
<1>. USE DEF IInv
<1>0. Len(lens) \in Nat /\ DOMAIN lens = 1 .. Len(lens)  BY LengthsBounded
<1>1. ASSUME NEW len \in PduLens, lens' = Append(lens, len), Len(lens) < MaxPdus
      PROVE  /\ lens' \in Seq(PduLens) /\ Len(lens') <= MaxPdus /\ Len(lens') \in Nat
             /\ Len(lens') \in DOMAIN lens' /\ DOMAIN lens \subseteq DOMAIN lens'
             /\ len \in Nat
  <2>1. lens \in Seq(PduLens) /\ MaxPdus \in Nat /\ len \in Nat
    BY IsoTpAssumption, LengthsBounded DEF Types
  <2>2. /\ lens' \in Seq(PduLens) /\ Len(lens') = Len(lens) + 1
        /\ DOMAIN lens' = 1 .. Len(lens) + 1
    BY <1>1, <2>1, Appended
  <2>. QED  BY <1>0, <1>1, <2>1, <2>2
<1>2. ASSUME NEW f \in Wire, toPeer' = Append(toPeer, f) PROVE toPeer' \in Seq(Wire)
  BY <1>2, AppendProperties DEF Types
<1>3. ASSUME inbox # <<>>
      PROVE  Tail(inbox) \in Seq(Inbox) /\ Head(inbox) \in Inbox
  BY <1>3, HeadTailProperties DEF Types
<1>4. CASE \E len \in PduLens : SendSingle(len)
  <2>. PICK len \in PduLens : SendSingle(len)  BY <1>4
  <2>1. /\ lens' = Append(lens, len) /\ Len(lens) < MaxPdus
        /\ toPeer' = Append(toPeer, Frame("SF", Len(lens'), 0, len, 0))
        /\ returned' = returned \cup {Len(lens')}
    BY DEF SendSingle
  <2>2. Frame("SF", Len(lens'), 0, len, 0) \in Wire  BY <1>1, <2>1, FrameTyped
  <2>3. toPeer' \in Seq(Wire)  BY <1>2, <2>1, <2>2
  <2>4. returned' \subseteq DOMAIN lens'  BY <1>1, <2>1 DEF Types
  <2>. QED  BY <1>1, <2>1, <2>3, <2>4 DEF SendSingle, Types, recvVars, peerVars
<1>5. CASE \E len \in PduLens : SendFirst(len)
  <2>. PICK len \in PduLens : SendFirst(len)  BY <1>5
  <2>1. /\ lens' = Append(lens, len) /\ Len(lens) < MaxPdus
        /\ toPeer' = Append(toPeer, FirstFrame(Len(lens'), len))
    BY DEF SendFirst
  <2>2. FirstFrame(Len(lens'), len) \in Wire  BY <1>1, <2>1, FirstFrameTyped
  <2>3. toPeer' \in Seq(Wire)  BY <1>2, <2>1, <2>2
  <2>4. returned' \subseteq DOMAIN lens'  BY <1>1, <2>1 DEF Types, SendFirst
  <2>5. offset' = 6 /\ seqNum' = 1 /\ inBlock' = 0 /\ phase' = "fc"
    BY DEF SendFirst, FirstBytes
  <2>. QED
    BY <1>1, <2>1, <2>3, <2>4, <2>5
    DEF SendFirst, Types, recvVars, peerVars, LengthRange, FrameBytes, SnRange
<1>6. CASE TakeFlowControl
  <2>1. bs' \in 0 .. 255  BY <1>3, <1>6, FramesTyped DEF TakeFlowControl
  <2>. QED  BY <1>3, <1>6, <2>1 DEF TakeFlowControl, Types, recvVars, peerVars
<1>7. CASE TakeOtherFrame
  BY <1>3, <1>7 DEF TakeOtherFrame, Types, recvVars, peerVars
<1>8. CASE FlowControlTimeout
  BY <1>8 DEF FlowControlTimeout, Types, recvVars, peerVars
<1>9. CASE SendConsecutive
  <2>. DEFINE p == Len(lens)
              f == Chunk(p, offset)
  <2>1. PICK n \in Nat : Position(n)  BY <1>9 DEF SendConsecutive, Sending
  <2>2. /\ f \in Wire /\ p \in DOMAIN lens /\ offset + f.n \in 0 .. LengthRange
        /\ NextSeqNum(seqNum) = (n + 1) % SnRange
    BY <2>1, NextChunk
  <2>. HIDE DEF f
  <2>3. toPeer' = Append(toPeer, f) /\ offset' = offset + f.n /\ seqNum' = NextSeqNum(seqNum)
    BY <1>9 DEF SendConsecutive, f
  <2>4. offset' \in 0 .. LengthRange + FrameBytes /\ seqNum' \in 0 .. SnRange - 1
    BY <2>2, <2>3 DEF LengthRange, FrameBytes, SnRange
  <2>5. phase' \in {"idle", "fc", "cf"} /\ inBlock' = inBlock + 1
        /\ returned' \in {returned, returned \cup {p}}
    BY <1>9 DEF SendConsecutive
  <2>6. toPeer' \in Seq(Wire)  BY <1>2, <2>2, <2>3
  <2>. QED  BY <1>9, <2>2, <2>4, <2>5, <2>6 DEF SendConsecutive, Types, recvVars, peerVars
<1>. QED  BY <1>4, <1>5, <1>6, <1>7, <1>8, <1>9 DEF SendStep

LEMMA TypesRecv ==
  ASSUME IInv, RecvPdu \/ RecvStep \/ LoseFrame PROVE Types'
<1>. USE DEF IInv
<1>1. ASSUME inbox # <<>>
      PROVE  Tail(inbox) \in Seq(Inbox) /\ Head(inbox) \in Inbox /\ Head(inbox) = inbox[1]
             /\ 1 \in DOMAIN inbox
  <2>1. inbox \in Seq(Inbox)  BY DEF Types
  <2>. QED  BY <1>1, <2>1, Tailed
<1>2. CASE RecvPdu
  <2>1. MaxRecvs \in Nat  BY IsoTpAssumption
  <2>2. recvs' \in 0 .. MaxRecvs  BY <1>2, <2>1 DEF RecvPdu, Types
  <2>. QED  BY <1>2, <2>2 DEF RecvPdu, Types, sendVars, peerVars
<1>3. CASE TakeLast
  <2>1. received' \in {<<"nothing">>} \cup {<<"pdu", Answer(p)>> : p \in 1 .. MaxPdus}
    <3>1. CASE Head(inbox).kind = "SF"
      <4>1. Head(inbox).pdu \in 1 .. Len(delivered)  BY <1>1, <1>3, <3>1 DEF TakeLast, AnswersKnown
      <4>2. Len(delivered) \in Nat /\ Len(lens) \in Nat  BY LenProperties DEF Types
      <4>3. Len(delivered) <= Len(lens) /\ Len(lens) <= MaxPdus /\ MaxPdus \in Nat
        BY <4>2, IsoTpAssumption DEF PdusRise, TakenUp, Types
      <4>4. Head(inbox).pdu \in 1 .. MaxPdus  BY <4>1, <4>2, <4>3
      <4>. QED  BY <1>3, <3>1, <4>4 DEF TakeLast
    <3>2. CASE Head(inbox).kind # "SF"  BY <1>3, <3>2 DEF TakeLast
    <3>. QED  BY <3>1, <3>2
  <2>. QED  BY <1>1, <1>3, <2>1 DEF TakeLast, Types, sendVars, peerVars
<1>4. CASE TakeFirst
  <2>1. Flow("CTS", OwnBlockSize) \in Wire  BY OwnFlowTyped
  <2>2. toPeer' \in Seq(Wire)  BY <1>4, <2>1, AppendProperties DEF TakeFirst, Types
  <2>. QED  BY <1>1, <1>4, <2>2 DEF TakeFirst, Types, sendVars, recvVars, peerVars
<1>5. CASE FirstTimeout
  BY <1>5 DEF FirstTimeout, Types, sendVars, peerVars
<1>6. CASE SkipForeign
  BY <1>1, <1>6 DEF SkipForeign, Types, sendVars, recvVars, peerVars
<1>7. CASE TakeConsecutive
  BY <1>1, <1>7 DEF TakeConsecutive, Types, sendVars, peerVars
<1>8. CASE ConsecutiveTimeout
  BY <1>8 DEF ConsecutiveTimeout, Types, sendVars, peerVars
<1>9. CASE LoseFrame
  <2>1. inbox' \in Seq(Inbox)  BY <1>9, Removed DEF LoseFrame, Types
  <2>2. lost' \in 0 .. MaxLost
    <3>1. lost < MaxLost /\ lost' = lost + 1 /\ lost \in 0 .. MaxLost  BY <1>9 DEF LoseFrame, Types
    <3>2. MaxLost \in Nat  BY IsoTpAssumption
    <3>. QED  BY <3>1, <3>2
  <2>. QED  BY <1>9, <2>1, <2>2 DEF LoseFrame, Types, sendVars, recvVars
<1>. QED  BY <1>2, <1>3, <1>4, <1>5, <1>6, <1>7, <1>8, <1>9 DEF RecvStep

LEMMA TypesPeer ==
  ASSUME IInv, PeerStep PROVE Types'
<1>. USE DEF IInv
<1>1. ASSUME toPeer # <<>>
      PROVE  Tail(toPeer) \in Seq(Wire) /\ Head(toPeer) \in Wire
  BY <1>1, HeadTailProperties DEF Types
<1>2. ASSUME NEW f \in Inbox PROVE Append(inbox, f) \in Seq(Inbox)
  BY AppendProperties DEF Types
<1>3. NoReception \in [frames : Seq(Wire), bs : 0 .. 255, inBlock : Nat]
  BY EmptySeq DEF NoReception
<1>4. ASSUME NEW f \in Wire PROVE <<f>> \in Seq(Wire)
  <2>1. <<>> \in Seq(Wire) /\ Append(<<>>, f) = <<f>>  BY EmptySeq
  <2>. QED  BY <2>1, AppendProperties
<1>5. /\ reception.frames \in Seq(Wire) /\ reception.bs \in 0 .. 255 /\ reception.inBlock \in Nat
      /\ answer.done \in Nat /\ answer.cfs \in Nat /\ answer.sn \in Nat
  BY DEF Types
<1>6. ASSUME NEW frames \in Seq(Wire), PeerDelivers(frames)
      PROVE  delivered' \in Seq(Seq(Wire))
             /\ reception' \in [frames : Seq(Wire), bs : 0 .. 255, inBlock : Nat]
  BY <1>3, <1>6, AppendProperties DEF PeerDelivers, Types
<1>7. CASE PeerTakesSingle
  <2>1. <<Head(toPeer)>> \in Seq(Wire) /\ toPeer' \in Seq(Wire)
    BY <1>1, <1>4, <1>7 DEF PeerTakesSingle
  <2>2. PeerDelivers(<<Head(toPeer)>>)  BY <1>7 DEF PeerTakesSingle
  <2>3. delivered' \in Seq(Seq(Wire))
        /\ reception' \in [frames : Seq(Wire), bs : 0 .. 255, inBlock : Nat]
    BY <1>6, <2>1, <2>2
  <2>. QED  BY <1>7, <2>1, <2>3 DEF PeerTakesSingle, Types, sendVars, recvVars
<1>8. CASE PeerTakesFirst
  <2>. DEFINE f == Head(toPeer)
  <2>1. f \in Wire /\ toPeer' \in Seq(Wire) /\ <<f>> \in Seq(Wire)
    BY <1>1, <1>4, <1>8 DEF PeerTakesFirst
  <2>2. inbox' \in Seq(Inbox)
        /\ reception' \in [frames : Seq(Wire), bs : 0 .. 255, inBlock : Nat]
    <3>1. CASE reception' = NoReception /\ inbox' = Append(inbox, Flow("OVFLW", 0))
      <4>1. Flow("OVFLW", 0) \in Inbox  BY FlowTyped
      <4>. QED  BY <1>2, <1>3, <3>1, <4>1
    <3>2. ASSUME NEW size \in BlockSizes, NEW wait \in {<<>>, <<Flow("WT", 0)>>},
                 reception' = [frames |-> <<f>>, bs |-> size, inBlock |-> 0],
                 inbox' = Append(inbox \o wait, Flow("CTS", size))
          PROVE  inbox' \in Seq(Inbox)
                 /\ reception' \in [frames : Seq(Wire), bs : 0 .. 255, inBlock : Nat]
      <4>1. size \in 0 .. 255  BY IsoTpAssumption
      <4>8. Flow("WT", 0) \in Inbox  BY FlowTyped
      <4>2. Flow("CTS", size) \in Inbox /\ Flow("WT", 0) \in Inbox  BY <4>1, <4>8, FlowTyped
      <4>3. <<>> \in Seq(Inbox) /\ Append(<<>>, Flow("WT", 0)) = <<Flow("WT", 0)>>  BY EmptySeq
      <4>4. <<Flow("WT", 0)>> \in Seq(Inbox)  BY <4>2, <4>3, AppendProperties
      <4>5. wait \in Seq(Inbox) /\ inbox \in Seq(Inbox)  BY <4>3, <4>4 DEF Types
      <4>7. inbox \o wait \in Seq(Inbox)  BY <4>5, ConcatProperties
      <4>6. inbox' \in Seq(Inbox)  BY <3>2, <4>2, <4>7, AppendProperties
      <4>. QED  BY <2>1, <3>2, <4>1, <4>6
    <3>. QED  BY <1>8, <3>1, <3>2 DEF PeerTakesFirst
  <2>. QED  BY <1>8, <2>1, <2>2 DEF PeerTakesFirst, Types, sendVars, recvVars
<1>9. CASE PeerTakesConsecutive
  <2>. DEFINE f == Head(toPeer)
              frames == Append(reception.frames, f)
              full == reception.inBlock + 1 = reception.bs
  <2>1. f \in Wire /\ toPeer' = Tail(toPeer) /\ toPeer' \in Seq(Wire)
    BY <1>1, <1>9 DEF PeerTakesConsecutive
  <2>2. frames \in Seq(Wire)  BY <1>5, <2>1, AppendProperties
  <2>3. Flow("CTS", reception.bs) \in Inbox  BY <1>5, FlowTyped
  <2>. HIDE DEF f, frames
  <2>4. \/ reception' = NoReception /\ UNCHANGED <<inbox, delivered>>
        \/ PeerDelivers(frames) /\ UNCHANGED inbox
        \/ /\ reception' = [reception EXCEPT !.frames = frames,
                              !.inBlock = IF full THEN 0 ELSE @ + 1]
           /\ inbox' = IF full THEN Append(inbox, Flow("CTS", reception.bs)) ELSE inbox
           /\ UNCHANGED delivered
    BY <1>9 DEF PeerTakesConsecutive, f, frames
  <2>5. inbox' \in Seq(Inbox) /\ delivered' \in Seq(Seq(Wire))
        /\ reception' \in [frames : Seq(Wire), bs : 0 .. 255, inBlock : Nat]
    <3>1. CASE reception' = NoReception /\ UNCHANGED <<inbox, delivered>>
      BY <1>3, <3>1 DEF Types
    <3>2. CASE PeerDelivers(frames) /\ UNCHANGED inbox
      BY <1>6, <2>2, <3>2 DEF Types
    <3>3. CASE /\ reception' = [reception EXCEPT !.frames = frames,
                                  !.inBlock = IF full THEN 0 ELSE @ + 1]
               /\ inbox' = IF full THEN Append(inbox, Flow("CTS", reception.bs)) ELSE inbox
               /\ UNCHANGED delivered
      <4>1. inbox' \in Seq(Inbox) /\ delivered' \in Seq(Seq(Wire))
        BY <1>2, <2>3, <3>3 DEF Types
      <4>2. (IF full THEN 0 ELSE reception.inBlock + 1) \in Nat  BY <1>5
      <4>3. reception' = [reception EXCEPT !.frames = frames,
                            !.inBlock = IF full THEN 0 ELSE reception.inBlock + 1]
        BY <3>3
      <4>4. reception' \in [frames : Seq(Wire), bs : 0 .. 255, inBlock : Nat]
        BY <2>2, <4>2, <4>3 DEF Types
      <4>. QED  BY <4>1, <4>4
    <3>. QED  BY <2>4, <3>1, <3>2, <3>3
  <2>. QED  BY <1>9, <2>1, <2>5 DEF PeerTakesConsecutive, Types, sendVars, recvVars
<1>10. CASE PeerTakesFlowControl
  BY <1>1, <1>5, <1>10 DEF PeerTakesFlowControl, Types, sendVars, recvVars
<1>11. CASE PeerAnswers
  <2>1. PICK cfs \in AnswerCfs :
          /\ inbox' = Append(inbox, Frame(IF cfs = 0 THEN "SF" ELSE "FF", answer.done + 1, 0, FirstBytes, 0))
          /\ answer' = [done |-> answer.done + 1, cfs |-> cfs, sn |-> 0]
    BY <1>11 DEF PeerAnswers
  <2>2. cfs \in Nat /\ FirstBytes \in Nat  BY IsoTpAssumption DEF SnRange, FirstBytes
  <2>3. answer.done + 1 \in Nat /\ (IF cfs = 0 THEN "SF" ELSE "FF") \in {"SF", "FF", "CF"}
    BY <1>5
  <2>4. Frame(IF cfs = 0 THEN "SF" ELSE "FF", answer.done + 1, 0, FirstBytes, 0) \in Inbox
    BY <2>2, <2>3, FrameTyped
  <2>5. inbox' \in Seq(Inbox) /\ answer' \in [done : Nat, cfs : Nat, sn : Nat]
    BY <1>2, <2>1, <2>2, <2>3, <2>4
  <2>. QED  BY <1>11, <2>5 DEF PeerAnswers, Types, sendVars, recvVars
<1>12. CASE PeerContinues
  <2>1. FrameBytes \in Nat  BY DEF FrameBytes
  <2>2. Frame("CF", answer.done, 0, FrameBytes, answer.sn) \in Inbox  BY <1>5, <2>1, FrameTyped
  <2>3. inbox' \in Seq(Inbox)  BY <1>2, <1>12, <2>2 DEF PeerContinues
  <2>4. answer' \in [done : Nat, cfs : Nat, sn : Nat]
    <3>1. answer \in [done : Nat, cfs : Nat, sn : Nat] /\ answer.sn + 1 \in Nat  BY <1>5 DEF Types
    <3>2. answer' = [answer EXCEPT !.cfs = 0, !.sn = 0]
            \/ answer' = [answer EXCEPT !.sn = answer.sn + 1]
      BY <1>12 DEF PeerContinues
    <3>3. CASE answer' = [answer EXCEPT !.cfs = 0, !.sn = 0]  BY <3>1, <3>3
    <3>4. CASE answer' = [answer EXCEPT !.sn = answer.sn + 1]
      <4>. DEFINE sn == answer.sn + 1
      <4>1. sn \in Nat  BY <3>1
      <4>. HIDE DEF sn
      <4>. QED  BY <3>1, <3>4, <4>1 DEF sn
    <3>. QED  BY <3>2, <3>3, <3>4
  <2>. QED  BY <1>12, <2>3, <2>4 DEF PeerContinues, Types, sendVars, recvVars
<1>13. CASE PeerForgets
  BY <1>5, <1>13 DEF PeerForgets, Types, sendVars, recvVars
<1>. QED
  BY <1>7, <1>8, <1>9, <1>10, <1>11, <1>12, <1>13 DEF PeerStep

-----------------------------------------------------------------------------
(* Where send_pdu is *)

LEMMA PositionAfterChunk ==
  ASSUME Types, NEW n \in Nat, Position(n), SendConsecutive, phase' # "idle"
  PROVE  Position(n + 1)'
<1>. DEFINE p == Len(lens)
            f == Chunk(p, offset)
<1>1. /\ ~(offset + f.n >= lens[p]) => offset + f.n = FirstBytes + FrameBytes * (n + 1 - 1)
      /\ NextSeqNum(seqNum) = (n + 1) % SnRange /\ offset + f.n \in Int /\ lens[p] \in Int
      /\ p \in DOMAIN lens
  BY NextChunk, LengthsBounded
<1>2. offset' = offset + f.n /\ seqNum' = NextSeqNum(seqNum) /\ UNCHANGED lens
      /\ ~(offset + f.n >= lens[p]) /\ UNCHANGED returned
  BY DEF SendConsecutive
<1>. HIDE DEF f
<1>3. offset' < lens'[Len(lens')]  BY <1>1, <1>2
<1>. QED  BY <1>1, <1>2, <1>3 DEF Position

LEMMA PositionOfFirst ==
  ASSUME Types, NEW len \in PduLens, SendFirst(len) PROVE Position(1)'
<1>1. lens' = Append(lens, len) /\ len > 7 /\ offset' = 6 /\ seqNum' = 1 /\ UNCHANGED returned
  BY DEF SendFirst, FirstBytes, FrameBytes
<1>2. /\ Len(lens) \in Nat /\ DOMAIN lens = 1 .. Len(lens)
      /\ lens' # <<>> /\ Len(lens') = Len(lens) + 1 /\ lens'[Len(lens) + 1] = len
  <2>1. lens \in Seq(PduLens)  BY DEF Types
  <2>. QED  BY <1>1, <2>1, Appended
<1>3. len \in Nat  BY LengthsBounded
<1>4. Len(lens') \notin returned  BY <1>2 DEF Types
<1>. QED  BY <1>1, <1>2, <1>3, <1>4 DEF Position, FirstBytes, FrameBytes, SnRange

LEMMA NextSending == IInv /\ Next => Sending'
<1>. SUFFICES ASSUME IInv, Next, phase' \in {"fc", "cf"} PROVE \E n \in Nat : Position(n)'
  BY DEF Sending
<1>. USE DEF IInv
<1>1. CASE \E len \in PduLens : SendFirst(len)
  BY <1>1, PositionOfFirst
<1>2. CASE SendConsecutive
  <2>1. PICK n \in Nat : Position(n)  BY <1>2 DEF SendConsecutive, Sending
  <2>2. Position(n + 1)' /\ n + 1 \in Nat  BY <1>2, <2>1, PositionAfterChunk
  <2>. QED  BY <2>2
<1>3. CASE phase \in {"fc", "cf"} /\ UNCHANGED <<lens, offset, seqNum, returned>>
  BY <1>3 DEF Sending, Position
<1>4. CASE \/ \E len \in PduLens : SendSingle(len)
           \/ RecvPdu \/ TakeFlowControl \/ TakeOtherFrame \/ FlowControlTimeout \/ RecvStep
  BY <1>3, <1>4
  DEF SendSingle, RecvPdu, TakeFlowControl, TakeOtherFrame, FlowControlTimeout, RecvStep, TakeLast,
      TakeFirst, FirstTimeout, SkipForeign, TakeConsecutive, ConsecutiveTimeout
<1>5. CASE PeerStep \/ LoseFrame
  BY <1>3, <1>5
  DEF PeerStep, PeerTakesSingle, PeerTakesFirst, PeerTakesConsecutive, PeerTakesFlowControl,
      PeerAnswers, PeerContinues, PeerForgets, LoseFrame, sendVars
<1>. QED  BY <1>1, <1>2, <1>4, <1>5 DEF Next, SendStep

-----------------------------------------------------------------------------
(* Which PDUs the peer may have *)

LEMMA TakenUpTyped ==
  ASSUME Types
  PROVE  Len(delivered) \in Nat /\ Len(lens) \in Nat /\ TakenUp \in Nat
         /\ TakenUp \in {Len(delivered), Len(delivered) + 1}
<1>1. Len(delivered) \in Nat /\ Len(lens) \in Nat  BY LenProperties DEF Types
<1>. QED  BY <1>1 DEF TakenUp

LEMMA RiseSame ==
  ASSUME PdusRise, UNCHANGED <<lens, toPeer, delivered, reception>> PROVE PdusRise'
BY DEF PdusRise, TakenUp

LEMMA RiseContinues ==
  ASSUME Types, PdusRise, UNCHANGED <<lens, delivered, reception>>,
         NEW f \in Wire, ~Starts(f), toPeer' = Append(toPeer, f)
  PROVE  PdusRise'
<1>1. /\ \A i \in DOMAIN toPeer' : i \in DOMAIN toPeer \/ i = Len(toPeer) + 1
      /\ \A i \in DOMAIN toPeer : toPeer'[i] = toPeer[i]
      /\ toPeer'[Len(toPeer) + 1] = f
  <2>1. toPeer \in Seq(Wire)  BY DEF Types
  <2>. QED  BY <2>1, Appended
<1>2. \A i \in DOMAIN toPeer' : Starts(toPeer'[i]) => i \in DOMAIN toPeer /\ toPeer'[i] = toPeer[i]
  BY <1>1
<1>3. TakenUp' = TakenUp  BY DEF TakenUp
<1>. QED  BY <1>2, <1>3 DEF PdusRise

LEMMA RiseStarts ==
  ASSUME Types, PdusRise, UNCHANGED <<delivered, reception>>,
         NEW len \in PduLens, lens' = Append(lens, len),
         NEW f \in Wire, f.pdu = Len(lens'), toPeer' = Append(toPeer, f)
  PROVE  PdusRise'
<1>1. /\ \A i \in DOMAIN toPeer' : i \in DOMAIN toPeer \/ i = Len(toPeer) + 1
      /\ \A i \in DOMAIN toPeer : toPeer'[i] = toPeer[i] /\ i < Len(toPeer) + 1
      /\ toPeer'[Len(toPeer) + 1] = f
      /\ Len(toPeer) + 1 \in Nat /\ DOMAIN toPeer \subseteq Nat
  <2>1. toPeer \in Seq(Wire)  BY DEF Types
  <2>. QED  BY <2>1, Appended
<1>2. lens \in Seq(PduLens)  BY DEF Types
<1>3. Len(lens') = Len(lens) + 1  BY <1>2, AppendProperties
<1>4. TakenUp' = TakenUp  BY DEF TakenUp
<1>5. PICK k \in Nat : k = Len(lens)  BY <1>2, LenProperties
<1>6. TakenUp \in Nat /\ TakenUp <= k  BY <1>5, TakenUpTyped DEF PdusRise
<1>7. ASSUME NEW i \in DOMAIN toPeer', Starts(toPeer'[i])
      PROVE  toPeer'[i].pdu \in TakenUp + 1 .. k + 1
  <2>1. CASE i \in DOMAIN toPeer
    <3>1. toPeer'[i].pdu \in TakenUp + 1 .. k  BY <1>1, <1>5, <1>7, <2>1 DEF PdusRise
    <3>. QED  BY <1>6, <3>1
  <2>2. CASE i = Len(toPeer) + 1
    <3>1. toPeer'[i].pdu = k + 1  BY <1>1, <1>3, <1>5, <2>2
    <3>. QED  BY <1>6, <3>1
  <2>. QED  BY <1>1, <2>1, <2>2
<1>8. ASSUME NEW i \in DOMAIN toPeer', NEW j \in DOMAIN toPeer', i < j,
             Starts(toPeer'[i]), Starts(toPeer'[j])
      PROVE  toPeer'[i].pdu < toPeer'[j].pdu
  <2>1. i \in DOMAIN toPeer  BY <1>1, <1>8
  <2>2. CASE j \in DOMAIN toPeer  BY <1>1, <1>8, <2>1, <2>2 DEF PdusRise
  <2>3. CASE j = Len(toPeer) + 1
    <3>1. toPeer'[i].pdu \in TakenUp + 1 .. k  BY <1>1, <1>5, <1>8, <2>1 DEF PdusRise
    <3>2. toPeer'[j].pdu = k + 1  BY <1>1, <1>3, <1>5, <2>3
    <3>. QED  BY <1>6, <3>1, <3>2
  <2>. QED  BY <1>1, <2>2, <2>3
<1>. QED  BY <1>3, <1>4, <1>5, <1>6, <1>7, <1>8 DEF PdusRise

LEMMA RiseTakes ==
  ASSUME Types, PdusRise, UNCHANGED lens, toPeer # <<>>, toPeer' = Tail(toPeer), TakenUp' \in Nat,
         TakenUp' <= IF Starts(Head(toPeer)) THEN TakenUp + 1 ELSE TakenUp
  PROVE  PdusRise'
<1>1. /\ 1 \in DOMAIN toPeer /\ Head(toPeer) = toPeer[1]
      /\ \A i \in DOMAIN toPeer' : i + 1 \in DOMAIN toPeer /\ toPeer'[i] = toPeer[i + 1]
                                   /\ i \in Nat /\ 1 < i + 1
  <2>1. /\ 1 \in DOMAIN toPeer /\ Head(toPeer) = toPeer[1]
        /\ \A i \in DOMAIN toPeer' : i + 1 \in DOMAIN toPeer /\ toPeer'[i] = toPeer[i + 1]
                                     /\ i \in Nat
        /\ DOMAIN toPeer' = 1 .. Len(toPeer) - 1 /\ Len(toPeer) \in Nat
    <3>1. toPeer \in Seq(Wire)  BY DEF Types
    <3>2. \A i \in DOMAIN toPeer' : i + 1 \in DOMAIN toPeer /\ toPeer'[i] = toPeer[i + 1] /\ i \in Nat
      BY <3>1, Tailed
    <3>. QED  BY <3>1, <3>2, Tailed
  <2>. QED  BY <2>1
<1>2. PICK k \in Nat, u \in Nat, v \in Nat : k = Len(lens) /\ u = TakenUp /\ v = TakenUp'
  BY TakenUpTyped
<1>3. ASSUME NEW i \in DOMAIN toPeer', Starts(toPeer'[i])
      PROVE  toPeer'[i].pdu \in v + 1 .. k
  <2>1. toPeer[i + 1].pdu \in u + 1 .. k  BY <1>1, <1>2, <1>3 DEF PdusRise
  <2>2. CASE Starts(Head(toPeer))
    <3>1. toPeer[1].pdu < toPeer[i + 1].pdu /\ toPeer[1].pdu \in u + 1 .. k /\ v <= u + 1
      BY <1>1, <1>2, <1>3, <2>2 DEF PdusRise
    <3>. QED  BY <1>1, <2>1, <3>1
  <2>3. CASE ~Starts(Head(toPeer))
    <3>1. v <= u  BY <1>2, <2>3
    <3>. QED  BY <1>1, <2>1, <3>1
  <2>. QED  BY <2>2, <2>3
<1>4. v <= k
  <2>1. CASE Starts(Head(toPeer))
    <3>1. toPeer[1].pdu \in u + 1 .. k /\ v <= u + 1  BY <1>1, <1>2, <2>1 DEF PdusRise
    <3>. QED  BY <3>1
  <2>2. CASE ~Starts(Head(toPeer))
    <3>1. v <= u /\ u <= k  BY <1>2, <2>2 DEF PdusRise
    <3>. QED  BY <3>1
  <2>. QED  BY <2>1, <2>2
<1>5. ASSUME NEW i \in DOMAIN toPeer', NEW j \in DOMAIN toPeer', i < j,
             Starts(toPeer'[i]), Starts(toPeer'[j])
      PROVE  toPeer'[i].pdu < toPeer'[j].pdu
  <2>1. i + 1 < j + 1  BY <1>1, <1>5
  <2>. QED  BY <1>1, <1>5, <2>1 DEF PdusRise
<1>. QED  BY <1>2, <1>3, <1>4, <1>5 DEF PdusRise

LEMMA NextRises == IInv /\ Next => PdusRise'
<1>. SUFFICES ASSUME IInv, Next PROVE PdusRise'
  OBVIOUS
<1>. USE DEF IInv
<1>1. CASE \E len \in PduLens : SendSingle(len)
  <2>. PICK len \in PduLens : SendSingle(len)  BY <1>1
  <2>. DEFINE f == Frame("SF", Len(lens'), 0, len, 0)
  <2>1. lens' = Append(lens, len) /\ toPeer' = Append(toPeer, f) /\ UNCHANGED <<delivered, reception>>
    BY DEF SendSingle, peerVars
  <2>2. len \in Nat /\ Len(lens') \in Nat
    <3>1. lens \in Seq(PduLens) /\ PduLens \subseteq Nat  BY LengthsBounded DEF Types
    <3>. QED  BY <2>1, <3>1, AppendProperties, LenProperties
  <2>3. f \in Wire /\ f.pdu = Len(lens')  BY <2>2 DEF Frame, Wire, OtherFrames
  <2>. HIDE DEF f
  <2>. QED  BY <2>1, <2>3, RiseStarts
<1>2. CASE \E len \in PduLens : SendFirst(len)
  <2>. PICK len \in PduLens : SendFirst(len)  BY <1>2
  <2>. DEFINE f == FirstFrame(Len(lens'), len)
  <2>1. lens' = Append(lens, len) /\ toPeer' = Append(toPeer, f) /\ UNCHANGED <<delivered, reception>>
    BY DEF SendFirst, peerVars
  <2>2. Len(lens') \in Nat
    <3>1. lens \in Seq(PduLens)  BY DEF Types
    <3>. QED  BY <2>1, <3>1, AppendProperties, LenProperties
  <2>3. f \in Wire /\ f.pdu = Len(lens')  BY <2>2, FirstFrameTyped
  <2>. HIDE DEF f
  <2>. QED  BY <2>1, <2>3, RiseStarts
<1>3. CASE SendConsecutive
  <2>. DEFINE f == Chunk(Len(lens), offset)
  <2>1. PICK n \in Nat : Position(n)  BY <1>3 DEF SendConsecutive, Sending
  <2>2. f \in Wire /\ ~Starts(f)  BY <2>1, NextChunk DEF Starts
  <2>3. toPeer' = Append(toPeer, f) /\ UNCHANGED <<lens, delivered, reception>>
    BY <1>3 DEF SendConsecutive, peerVars
  <2>. HIDE DEF f
  <2>. QED  BY <2>2, <2>3, RiseContinues
<1>4. CASE TakeFirst
  <2>. DEFINE f == Flow("CTS", OwnBlockSize)
  <2>1. f \in Wire /\ ~Starts(f)  BY OwnFlowTyped DEF Starts
  <2>2. toPeer' = Append(toPeer, f) /\ UNCHANGED <<lens, delivered, reception>>
    BY <1>4 DEF TakeFirst, sendVars, peerVars
  <2>. HIDE DEF f
  <2>. QED  BY <2>1, <2>2, RiseContinues
<1>5. CASE UNCHANGED <<lens, toPeer, delivered, reception>>
  BY <1>5, RiseSame
<1>6. CASE \/ RecvPdu \/ TakeFlowControl \/ TakeOtherFrame \/ FlowControlTimeout
           \/ TakeLast \/ FirstTimeout \/ SkipForeign \/ TakeConsecutive \/ ConsecutiveTimeout
           \/ PeerAnswers \/ PeerContinues \/ PeerForgets \/ LoseFrame
  BY <1>5, <1>6
  DEF RecvPdu, TakeFlowControl, TakeOtherFrame, FlowControlTimeout, TakeLast, FirstTimeout,
      SkipForeign, TakeConsecutive, ConsecutiveTimeout, PeerAnswers, PeerContinues, PeerForgets,
      LoseFrame, sendVars, peerVars
<1>7. Len(delivered) \in Nat /\ TakenUp \in Nat  BY TakenUpTyped
<1>8. ASSUME NEW frames \in Seq(Wire), PeerDelivers(frames)
      PROVE  TakenUp' = Len(delivered) + 1
  <2>1. delivered \in Seq(Seq(Wire))  BY DEF Types
  <2>2. Len(delivered') = Len(delivered) + 1  BY <1>8, <2>1, AppendProperties DEF PeerDelivers
  <2>. QED  BY <1>7, <1>8, <2>2 DEF PeerDelivers, TakenUp, NoReception
<1>9. CASE PeerTakesSingle
  <2>1. toPeer # <<>> /\ toPeer' = Tail(toPeer) /\ UNCHANGED lens /\ Starts(Head(toPeer))
    BY <1>9 DEF PeerTakesSingle, sendVars, Starts
  <2>2. TakenUp' = Len(delivered) + 1
    <3>1. toPeer \in Seq(Wire)  BY DEF Types
    <3>2. Head(toPeer) \in Wire  BY <2>1, <3>1, HeadTailProperties
    <3>3. <<>> \in Seq(Wire) /\ Append(<<>>, Head(toPeer)) = <<Head(toPeer)>>  BY EmptySeq
    <3>4. <<Head(toPeer)>> \in Seq(Wire)  BY <3>2, <3>3, AppendProperties
    <3>5. PeerDelivers(<<Head(toPeer)>>)  BY <1>9 DEF PeerTakesSingle
    <3>. QED  BY <1>8, <3>4, <3>5
  <2>3. TakenUp' \in Nat /\ TakenUp' <= TakenUp + 1  BY <1>7, <2>2 DEF TakenUp
  <2>. QED  BY <2>1, <2>3, RiseTakes
<1>10. CASE PeerTakesFirst
  <2>1. toPeer # <<>> /\ toPeer' = Tail(toPeer) /\ UNCHANGED <<lens, delivered>> /\ Starts(Head(toPeer))
    BY <1>10 DEF PeerTakesFirst, sendVars, Starts
  <2>2. TakenUp' \in Nat /\ TakenUp' <= TakenUp + 1
    <3>1. TakenUp' \in {Len(delivered), Len(delivered) + 1}  BY <1>7, <2>1 DEF TakenUp
    <3>2. TakenUp \in {Len(delivered), Len(delivered) + 1}  BY TakenUpTyped
    <3>. QED  BY <1>7, <3>1, <3>2
  <2>. QED  BY <2>1, <2>2, RiseTakes
<1>11. CASE PeerTakesConsecutive
  <2>. DEFINE frames == Append(reception.frames, Head(toPeer))
  <2>1. toPeer # <<>> /\ toPeer' = Tail(toPeer) /\ UNCHANGED lens /\ ~Starts(Head(toPeer))
    BY <1>11 DEF PeerTakesConsecutive, sendVars, Starts
  <2>2. toPeer \in Seq(Wire) /\ reception.frames \in Seq(Wire)  BY DEF Types
  <2>3. frames \in Seq(Wire) /\ frames # <<>>
    <3>1. Head(toPeer) \in Wire  BY <2>1, <2>2, HeadTailProperties
    <3>. QED  BY <2>2, <3>1, AppendProperties
  <2>. HIDE DEF frames
  <2>4. \/ reception' = NoReception /\ UNCHANGED delivered
        \/ reception.frames # <<>> /\ PeerDelivers(frames)
        \/ reception.frames # <<>> /\ reception'.frames = frames /\ UNCHANGED delivered
    <3>1. reception = [frames |-> reception.frames, bs |-> reception.bs, inBlock |-> reception.inBlock]
      BY DEF Types
    <3>. QED  BY <1>11, <3>1 DEF PeerTakesConsecutive, frames
  <2>5. TakenUp' \in Nat /\ TakenUp' <= TakenUp
    <3>1. CASE reception' = NoReception /\ UNCHANGED delivered
      BY <1>7, <3>1 DEF TakenUp, NoReception
    <3>2. CASE reception.frames # <<>> /\ PeerDelivers(frames)
      BY <1>7, <1>8, <2>3, <3>2 DEF TakenUp
    <3>3. CASE reception.frames # <<>> /\ reception'.frames = frames /\ UNCHANGED delivered
      BY <1>7, <2>3, <3>3 DEF TakenUp
    <3>. QED  BY <2>4, <3>1, <3>2, <3>3
  <2>. QED  BY <2>1, <2>5, RiseTakes
<1>12. CASE PeerTakesFlowControl
  <2>1. toPeer # <<>> /\ toPeer' = Tail(toPeer) /\ UNCHANGED <<lens, delivered, reception>>
        /\ ~Starts(Head(toPeer))
    BY <1>12 DEF PeerTakesFlowControl, sendVars, Starts
  <2>2. TakenUp' = TakenUp  BY <2>1 DEF TakenUp
  <2>. QED  BY <1>7, <2>1, <2>2, RiseTakes
<1>. QED
  BY <1>1, <1>2, <1>3, <1>4, <1>6, <1>9, <1>10, <1>11, <1>12
  DEF Next, SendStep, RecvStep, PeerStep

-----------------------------------------------------------------------------
(* What is in the inbox *)

\* Frames were taken or lost.
Shrinks ==
  \E h \in [DOMAIN inbox' -> DOMAIN inbox] :
    /\ \A i, j \in DOMAIN inbox' : h[i] = h[j] => i = j
    /\ \A i \in DOMAIN inbox' : inbox'[i] = inbox[h[i]]

LEMMA SameShrinks == ASSUME UNCHANGED inbox PROVE Shrinks
<1>. DEFINE h == [i \in DOMAIN inbox |-> i]
<1>1. h \in [DOMAIN inbox' -> DOMAIN inbox] /\ \A i \in DOMAIN inbox : h[i] = i  OBVIOUS
<1>. HIDE DEF h
<1>. QED  BY <1>1 DEF Shrinks

LEMMA TailShrinks ==
  ASSUME Types, inbox # <<>>, inbox' = Tail(inbox)
  PROVE  Shrinks /\ (Clears(Head(inbox)) /\ (\A i, j \in DOMAIN inbox :
                       Clears(inbox[i]) /\ Clears(inbox[j]) => i = j) => ~Cleared')
<1>1. inbox \in Seq(Inbox)  BY DEF Types
<1>2. /\ 1 \in DOMAIN inbox /\ Head(inbox) = inbox[1]
      /\ \A i \in DOMAIN inbox' : i + 1 \in DOMAIN inbox /\ inbox'[i] = inbox[i + 1]
                                  /\ i \in Nat /\ i + 1 # 1
  BY <1>1, Tailed
<1>. DEFINE h == [i \in DOMAIN inbox' |-> i + 1]
<1>3. h \in [DOMAIN inbox' -> DOMAIN inbox] /\ \A i \in DOMAIN inbox' : h[i] = i + 1  BY <1>2
<1>. HIDE DEF h
<1>4. \A i, j \in DOMAIN inbox' : h[i] = h[j] => i = j
  <2>. SUFFICES ASSUME NEW i \in DOMAIN inbox', NEW j \in DOMAIN inbox', i + 1 = j + 1
                PROVE  i = j
    BY <1>3
  <2>1. i \in Nat /\ j \in Nat  BY <1>2
  <2>. QED  BY <2>1
<1>5. Shrinks  BY <1>2, <1>3, <1>4 DEF Shrinks
<1>. QED  BY <1>2, <1>5 DEF Cleared

LEMMA LostShrinks ==
  ASSUME Types, NEW k \in DOMAIN inbox, inbox' = RemoveAt(inbox, k) PROVE Shrinks
<1>1. inbox \in Seq(Inbox) /\ k \in Nat
  <2>1. inbox \in Seq(Inbox)  BY DEF Types
  <2>. QED  BY <2>1, LenProperties
<1>2. /\ \A i \in DOMAIN inbox' : \E j \in DOMAIN inbox :
           inbox'[i] = inbox[j] /\ j = IF i < k THEN i ELSE i + 1
      /\ DOMAIN inbox' \subseteq Nat
  BY <1>1, Removed
<1>. DEFINE h == [i \in DOMAIN inbox' |-> IF i < k THEN i ELSE i + 1]
<1>3. h \in [DOMAIN inbox' -> DOMAIN inbox]  BY <1>2
<1>4. \A i, j \in DOMAIN inbox' : h[i] = h[j] => i = j
  <2>. SUFFICES ASSUME NEW i \in DOMAIN inbox', NEW j \in DOMAIN inbox', h[i] = h[j]
                PROVE  i = j
    OBVIOUS
  <2>1. i \in Nat /\ j \in Nat  BY <1>2
  <2>2. (IF i < k THEN i ELSE i + 1) = (IF j < k THEN j ELSE j + 1)  OBVIOUS
  <2>. QED  BY <1>1, <2>1, <2>2
<1>5. \A i \in DOMAIN inbox' : inbox'[i] = inbox[h[i]]  BY <1>2
<1>. HIDE DEF h
<1>. QED  BY <1>3, <1>4, <1>5 DEF Shrinks

LEMMA AppendGrows ==
  ASSUME Types, NEW f \in Inbox, inbox' = Append(inbox, f)
  PROVE  /\ \A i \in DOMAIN inbox' : i \in DOMAIN inbox \/ i = Len(inbox) + 1
         /\ \A i \in DOMAIN inbox : inbox'[i] = inbox[i]
         /\ Len(inbox) + 1 \in DOMAIN inbox' /\ inbox'[Len(inbox) + 1] = f
         /\ Len(inbox) + 1 \notin DOMAIN inbox
<1>1. inbox \in Seq(Inbox)  BY DEF Types
<1>. QED  BY <1>1, Appended

\* The peer's answer to a first frame it has room for.
LEMMA ClearanceGrows ==
  ASSUME Types, NEW size \in 0 .. 255, NEW wait \in {<<>>, <<Flow("WT", 0)>>},
         inbox' = Append(inbox \o wait, Flow("CTS", size))
  PROVE  \E last \in DOMAIN inbox' :
           /\ inbox'[last] = Flow("CTS", size)
           /\ \A i \in DOMAIN inbox' :
                i = last \/ inbox'[i] = Flow("WT", 0) \/ \E j \in DOMAIN inbox : inbox'[i] = inbox[j]
<1>. DEFINE g == Flow("CTS", size)
            w == Flow("WT", 0)
<1>1. g \in Inbox  BY FlowTyped
<1>2. w \in Inbox
  <2>1. "WT" \in {"CTS", "WT", "OVFLW"} /\ 0 \in 0 .. 255  OBVIOUS
  <2>. QED  BY <2>1, FlowTyped
<1>. HIDE DEF g, w
<1>3. inbox \in Seq(Inbox)  BY DEF Types
<1>4. /\ inbox \o wait \in Seq(Inbox)
      /\ \A i \in DOMAIN (inbox \o wait) :
           (inbox \o wait)[i] = w \/ \E j \in DOMAIN inbox : (inbox \o wait)[i] = inbox[j]
  <2>1. CASE wait = <<>>
    <3>1. inbox \o wait = inbox  BY <1>3, <2>1, ConcatEmptySeq
    <3>. QED  BY <1>3, <3>1
  <2>2. CASE wait = <<w>>
    <3>1. inbox \o wait = Append(inbox, w)  BY <1>2, <1>3, <2>2, AppendIsConcat
    <3>2. /\ Append(inbox, w) \in Seq(Inbox)
          /\ \A i \in DOMAIN Append(inbox, w) :
               Append(inbox, w)[i] = w \/ \E j \in DOMAIN inbox : Append(inbox, w)[i] = inbox[j]
      BY <1>2, <1>3, Appended
    <3>. QED  BY <3>1, <3>2
  <2>. QED  BY <2>1, <2>2 DEF w
<1>. DEFINE s == inbox \o wait
<1>. HIDE DEF s
<1>5. /\ Len(s) + 1 \in DOMAIN inbox' /\ inbox'[Len(s) + 1] = g
      /\ \A i \in DOMAIN inbox' : i = Len(s) + 1 \/ (i \in DOMAIN s /\ inbox'[i] = s[i])
  BY <1>1, <1>4, Appended DEF s, g
<1>. QED  BY <1>4, <1>5 DEF s, g, w

LEMMA Kept ==
  ASSUME Types, AnswersKnown, Len(delivered) <= Len(delivered'), Len(delivered') \in Nat,
         answer'.done <= Len(delivered'),
         \A i \in DOMAIN inbox' : inbox'[i].kind = "SF" =>
           \/ \E j \in DOMAIN inbox : inbox'[i] = inbox[j]
           \/ inbox'[i].pdu \in 1 .. Len(delivered')
  PROVE  AnswersKnown'
<1>. DEFINE d == Len(delivered)
            e == Len(delivered')
<1>1. d \in Nat  BY TakenUpTyped
<1>2. ASSUME NEW i \in DOMAIN inbox', inbox'[i].kind = "SF" PROVE inbox'[i].pdu \in 1 .. e
  <2>1. CASE \E j \in DOMAIN inbox : inbox'[i] = inbox[j]
    <3>1. inbox'[i].pdu \in 1 .. d  BY <1>2, <2>1 DEF AnswersKnown
    <3>. QED  BY <1>1, <3>1
  <2>. QED  BY <1>2, <2>1
<1>. QED  BY <1>2 DEF AnswersKnown

LEMMA NextAnswers == IInv /\ Next => AnswersKnown'
<1>. SUFFICES ASSUME IInv, Next PROVE AnswersKnown'
  OBVIOUS
<1>. USE DEF IInv
<1>1. Len(delivered) \in Nat /\ answer.done \in Nat /\ answer.done <= Len(delivered)
  BY TakenUpTyped DEF Types, AnswersKnown
<1>2. ASSUME UNCHANGED <<delivered, answer>>, Shrinks PROVE AnswersKnown'
  BY <1>1, <1>2, Kept DEF Shrinks
<1>3. ASSUME UNCHANGED inbox, UNCHANGED answer, Len(delivered') = Len(delivered) + 1
      PROVE  AnswersKnown'
  <2>1. /\ Len(delivered) <= Len(delivered') /\ Len(delivered') \in Nat
        /\ answer'.done <= Len(delivered')
    BY <1>1, <1>3
  <2>2. \A i \in DOMAIN inbox' : \E j \in DOMAIN inbox : inbox'[i] = inbox[j]  BY <1>3
  <2>. QED  BY <2>1, <2>2, Kept
<1>4. ASSUME NEW f \in Inbox, inbox' = Append(inbox, f), UNCHANGED delivered, answer'.done <= Len(delivered),
             f.kind = "SF" => f.pdu \in 1 .. Len(delivered)
      PROVE  AnswersKnown'
  <2>1. \A i \in DOMAIN inbox' : inbox'[i] = f \/ \E j \in DOMAIN inbox : inbox'[i] = inbox[j]
    BY <1>4, AppendGrows
  <2>. QED  BY <1>1, <1>4, <2>1, Kept
<1>5. CASE \/ \E len \in PduLens : SendSingle(len) \/ SendFirst(len)
           \/ RecvPdu \/ FlowControlTimeout \/ SendConsecutive \/ FirstTimeout \/ ConsecutiveTimeout
  BY <1>2, <1>5, SameShrinks
  DEF SendSingle, SendFirst, RecvPdu, FlowControlTimeout, SendConsecutive, FirstTimeout,
      ConsecutiveTimeout, peerVars
<1>6. CASE TakeFlowControl \/ TakeOtherFrame \/ TakeLast \/ TakeFirst \/ SkipForeign \/ TakeConsecutive
  BY <1>2, <1>6, TailShrinks
  DEF TakeFlowControl, TakeOtherFrame, TakeLast, TakeFirst, SkipForeign, TakeConsecutive, peerVars
<1>7. CASE LoseFrame
  BY <1>2, <1>7, LostShrinks DEF LoseFrame
<1>8. CASE PeerTakesFlowControl
  <2>1. answer'.done = answer.done  BY <1>8 DEF PeerTakesFlowControl, Types
  <2>2. \A i \in DOMAIN inbox' : \E j \in DOMAIN inbox : inbox'[i] = inbox[j]
    BY <1>8 DEF PeerTakesFlowControl
  <2>3. UNCHANGED delivered  BY <1>8 DEF PeerTakesFlowControl
  <2>. QED  BY <1>1, <2>1, <2>2, <2>3, Kept
<1>9. CASE PeerForgets
  <2>1. answer'.done = answer.done  BY <1>9 DEF PeerForgets, Types
  <2>2. \A i \in DOMAIN inbox' : \E j \in DOMAIN inbox : inbox'[i] = inbox[j]
    BY <1>9 DEF PeerForgets
  <2>3. UNCHANGED delivered  BY <1>9 DEF PeerForgets
  <2>. QED  BY <1>1, <2>1, <2>2, <2>3, Kept
<1>10. delivered \in Seq(Seq(Wire)) /\ toPeer \in Seq(Wire) /\ reception.frames \in Seq(Wire)
       /\ reception.bs \in 0 .. 255
  BY DEF Types
<1>11. ASSUME NEW frames \in Seq(Wire), PeerDelivers(frames) PROVE Len(delivered') = Len(delivered) + 1
  BY <1>10, <1>11, AppendProperties DEF PeerDelivers
<1>12. CASE PeerTakesSingle
  <2>1. Head(toPeer) \in Wire  BY <1>10, <1>12, HeadTailProperties DEF PeerTakesSingle
  <2>2. <<>> \in Seq(Wire) /\ Append(<<>>, Head(toPeer)) = <<Head(toPeer)>>  BY EmptySeq
  <2>3. <<Head(toPeer)>> \in Seq(Wire)  BY <2>1, <2>2, AppendProperties
  <2>. QED  BY <1>3, <1>11, <1>12, <2>3 DEF PeerTakesSingle
<1>13. CASE PeerTakesFirst
  <2>1. UNCHANGED <<delivered, answer>>  BY <1>13 DEF PeerTakesFirst
  <2>2. CASE inbox' = Append(inbox, Flow("OVFLW", 0))
    <3>. DEFINE f == Flow("OVFLW", 0)
    <3>1. f \in Inbox /\ f.kind = "FC"  BY FlowTyped
    <3>. HIDE DEF f
    <3>2. inbox' = Append(inbox, f)  BY <2>2 DEF f
    <3>. QED  BY <1>1, <1>4, <2>1, <3>1, <3>2
  <2>3. ASSUME NEW size \in BlockSizes, NEW wait \in {<<>>, <<Flow("WT", 0)>>},
               inbox' = Append(inbox \o wait, Flow("CTS", size))
        PROVE  AnswersKnown'
    <3>1. size \in 0 .. 255  BY IsoTpAssumption
    <3>2. \A i \in DOMAIN inbox' :
            \/ inbox'[i] = Flow("CTS", size)
            \/ inbox'[i] = Flow("WT", 0)
            \/ \E j \in DOMAIN inbox : inbox'[i] = inbox[j]
      BY <2>3, <3>1, ClearanceGrows
    <3>3. Flow("CTS", size).kind = "FC" /\ Flow("WT", 0).kind = "FC"  BY DEF Flow
    <3>4. \A i \in DOMAIN inbox' : inbox'[i].kind = "SF" => \E j \in DOMAIN inbox : inbox'[i] = inbox[j]
      BY <3>2, <3>3
    <3>. QED  BY <1>1, <2>1, <3>4, Kept
  <2>. QED  BY <1>13, <2>2, <2>3 DEF PeerTakesFirst
<1>14. CASE PeerTakesConsecutive
  <2>. DEFINE frames == Append(reception.frames, Head(toPeer))
              f == Flow("CTS", reception.bs)
  <2>1. Head(toPeer) \in Wire  BY <1>10, <1>14, HeadTailProperties DEF PeerTakesConsecutive
  <2>2. frames \in Seq(Wire)  BY <1>10, <2>1, AppendProperties
  <2>3. f \in Inbox /\ f.kind = "FC"  BY <1>10, FlowTyped
  <2>. HIDE DEF frames, f
  <2>4. UNCHANGED answer
        /\ \/ UNCHANGED <<inbox, delivered>>
           \/ PeerDelivers(frames) /\ UNCHANGED inbox
           \/ UNCHANGED delivered /\ inbox' = Append(inbox, f)
    BY <1>14 DEF PeerTakesConsecutive, frames, f
  <2>5. CASE UNCHANGED <<inbox, delivered>>  BY <1>2, <2>4, <2>5, SameShrinks
  <2>6. CASE PeerDelivers(frames) /\ UNCHANGED inbox  BY <1>3, <1>11, <2>2, <2>4, <2>6
  <2>7. CASE UNCHANGED delivered /\ inbox' = Append(inbox, f)  BY <1>1, <1>4, <2>3, <2>4, <2>7
  <2>. QED  BY <2>4, <2>5, <2>6, <2>7
<1>15. CASE PeerAnswers
  <2>1. PICK cfs \in AnswerCfs :
          /\ inbox' = Append(inbox, Frame(IF cfs = 0 THEN "SF" ELSE "FF", answer.done + 1, 0, FirstBytes, 0))
          /\ answer' = [done |-> answer.done + 1, cfs |-> cfs, sn |-> 0]
    BY <1>15 DEF PeerAnswers
  <2>. DEFINE f == Frame(IF cfs = 0 THEN "SF" ELSE "FF", answer.done + 1, 0, FirstBytes, 0)
  <2>2. f \in Inbox /\ f.pdu = answer.done + 1
    <3>1. answer.done + 1 \in Nat /\ FirstBytes \in Nat
          /\ (IF cfs = 0 THEN "SF" ELSE "FF") \in {"SF", "FF", "CF"}
      BY <1>1 DEF FirstBytes
    <3>. QED  BY <3>1 DEF Frame, Inbox, OtherFrames
  <2>3. inbox' = Append(inbox, f)  BY <2>1
  <2>. HIDE DEF f
  <2>4. answer.done + 1 \in 1 .. Len(delivered) /\ UNCHANGED delivered
        /\ answer'.done = answer.done + 1
    BY <1>1, <1>15, <2>1 DEF PeerAnswers
  <2>5. answer'.done <= Len(delivered)  BY <1>1, <2>4
  <2>. QED  BY <1>4, <2>2, <2>3, <2>4, <2>5
<1>16. CASE PeerContinues
  <2>. DEFINE f == Frame("CF", answer.done, 0, FrameBytes, answer.sn)
  <2>1. f \in Inbox /\ f.kind = "CF"
    <3>1. answer.sn \in Nat /\ FrameBytes \in Nat  BY DEF Types, FrameBytes
    <3>. QED  BY <1>1, <3>1 DEF Frame, Inbox, OtherFrames
  <2>2. inbox' = Append(inbox, f) /\ UNCHANGED delivered  BY <1>16 DEF PeerContinues
  <2>3. answer'.done = answer.done  BY <1>16 DEF PeerContinues, Types
  <2>. HIDE DEF f
  <2>. QED  BY <1>1, <1>4, <2>1, <2>2, <2>3
<1>. QED
  BY <1>5, <1>6, <1>7, <1>8, <1>9, <1>12, <1>13, <1>14, <1>15, <1>16
  DEF Next, SendStep, RecvStep, PeerStep
-----------------------------------------------------------------------------
(* The way from the peer to the task *)

LEMMA FollowsRises ==
  ASSUME NEW p \in Nat, NEW n \in Nat, NEW f, NEW q \in Nat, NEW m \in Nat, Follows(p, n, f, q, m)
  PROVE  NotAfter(p, n, q, m)
<1>1. \/ q = p /\ m = n
      \/ q = p + 1
      \/ q = p /\ n = 0 /\ m = 1
      \/ q = p /\ m = n + 1
  BY DEF Follows
<1>. QED  BY <1>1 DEF NotAfter

LEMMA Lengthened ==
  ASSUME NEW k \in Nat, NEW p \in [1 .. k + 1 -> Nat], NEW q \in Nat
  PROVE  \E r \in [1 .. (k + 1) + 1 -> Nat] :
           r[(k + 1) + 1] = q /\ \A i \in 1 .. k + 1 : r[i] = p[i]
<1>. DEFINE r == [i \in 1 .. (k + 1) + 1 |-> IF i = (k + 1) + 1 THEN q ELSE p[i]]
<1>1. \A i \in 1 .. (k + 1) + 1 : i = (k + 1) + 1 \/ i \in 1 .. k + 1  OBVIOUS
<1>2. \A i \in 1 .. k + 1 : i # (k + 1) + 1 /\ i \in 1 .. (k + 1) + 1  OBVIOUS
<1>3. (k + 1) + 1 \in 1 .. (k + 1) + 1  OBVIOUS
<1>4. r \in [1 .. (k + 1) + 1 -> Nat]  BY <1>1
<1>5. r[(k + 1) + 1] = q /\ \A i \in 1 .. k + 1 : r[i] = p[i]  BY <1>2, <1>3
<1>. HIDE DEF r
<1>. QED  BY <1>4, <1>5

LEMMA Shifted ==
  ASSUME NEW k \in Nat \ {0}, NEW p \in [1 .. k + 1 -> Nat]
  PROVE  \E r \in [1 .. (k - 1) + 1 -> Nat] : \A i \in 1 .. (k - 1) + 1 : r[i] = p[i + 1]
<1>. DEFINE r == [i \in 1 .. (k - 1) + 1 |-> p[i + 1]]
<1>1. \A i \in 1 .. (k - 1) + 1 : i + 1 \in 1 .. k + 1  OBVIOUS
<1>2. r \in [1 .. (k - 1) + 1 -> Nat] /\ \A i \in 1 .. (k - 1) + 1 : r[i] = p[i + 1]  BY <1>1
<1>. HIDE DEF r
<1>. QED  BY <1>2

LEMMA PathAppended ==
  ASSUME Types, UNCHANGED <<delivered, reception>>,
         \A i \in DOMAIN lens : i \in DOMAIN lens' /\ lens'[i] = lens[i],
         NEW f \in Wire, toPeer' = Append(toPeer, f),
         NEW p \in [1 .. Len(toPeer) + 1 -> Nat], NEW n \in [1 .. Len(toPeer) + 1 -> Nat],
         Path(p, n),
         NEW a \in Nat, NEW b \in Nat, a = p[Len(toPeer) + 1], b = n[Len(toPeer) + 1],
         NEW q \in Nat, NEW m \in Nat, Follows(a, b, f, q, m)', EndsAt(q, m)',
         b > 0 /\ f.kind # "CF" => q = a /\ m = b
  PROVE  Joined'
<1>1. PICK k \in Nat : k = Len(toPeer) /\ DOMAIN toPeer = 1 .. k
  BY LenProperties DEF Types
<1>2. /\ Len(toPeer') = k + 1 /\ DOMAIN toPeer' = 1 .. k + 1
      /\ \A i \in 1 .. k : toPeer'[i] = toPeer[i]
      /\ toPeer'[k + 1] = f
  <2>1. toPeer \in Seq(Wire)  BY DEF Types
  <2>. QED  BY <1>1, <2>1, Appended
<1>3. p \in [1 .. k + 1 -> Nat] /\ n \in [1 .. k + 1 -> Nat] /\ a = p[k + 1] /\ b = n[k + 1]
  BY <1>1
<1>4. PICK r \in [1 .. (k + 1) + 1 -> Nat] : r[(k + 1) + 1] = q /\ \A i \in 1 .. k + 1 : r[i] = p[i]
  BY <1>3, Lengthened
<1>5. PICK s \in [1 .. (k + 1) + 1 -> Nat] : s[(k + 1) + 1] = m /\ \A i \in 1 .. k + 1 : s[i] = n[i]
  BY <1>3, Lengthened
<1>6. Begins(r, s)'
  <2>1. 1 \in 1 .. k + 1  OBVIOUS
  <2>. QED  BY <1>4, <1>5, <2>1 DEF Begins, Path
<1>7. EndsAt(r[Len(toPeer) + 1], s[Len(toPeer) + 1])'
  BY <1>2, <1>4, <1>5 DEF EndsAt
<1>8. Leads(r, s)'
  <2>1. ASSUME NEW i \in 1 .. k PROVE Follows(r[i], s[i], toPeer[i], r[i + 1], s[i + 1])'
    <3>1. i \in 1 .. k + 1 /\ i + 1 \in 1 .. k + 1  OBVIOUS
    <3>2. Follows(p[i], n[i], toPeer[i], p[i + 1], n[i + 1])  BY <1>1 DEF Path, Leads
    <3>3. Follows(r[i], s[i], toPeer[i], r[i + 1], s[i + 1])  BY <1>4, <1>5, <3>1, <3>2
    <3>. QED  BY <1>2, <3>3 DEF Follows
  <2>2. Follows(r[k + 1], s[k + 1], toPeer[k + 1], r[(k + 1) + 1], s[(k + 1) + 1])'
    <3>1. k + 1 \in 1 .. k + 1  OBVIOUS
    <3>2. r[k + 1] = a /\ s[k + 1] = b  BY <1>3, <1>4, <1>5, <3>1
    <3>. QED  BY <1>2, <1>4, <1>5, <3>2
  <2>3. \A i \in 1 .. k + 1 : i \in 1 .. k \/ i = k + 1  OBVIOUS
  <2>. QED  BY <1>2, <2>1, <2>2, <2>3 DEF Leads
<1>9. NotAfter(a, b, q, m)
  BY FollowsRises DEF Follows, NotAfter
<1>10. Rises(r, s)'
  <2>. SUFFICES ASSUME NEW i \in 1 .. (k + 1) + 1, NEW j \in 1 .. (k + 1) + 1, i <= j
                PROVE  NotAfter(r[i], s[i], r[j], s[j])
    BY <1>2 DEF Rises, NotAfter
  <2>1. CASE j \in 1 .. k + 1
    <3>1. i \in 1 .. k + 1  BY <2>1
    <3>2. NotAfter(p[i], n[i], p[j], n[j])  BY <1>1, <2>1, <3>1 DEF Path, Rises
    <3>. QED  BY <1>4, <1>5, <2>1, <3>1, <3>2
  <2>2. CASE i \in 1 .. k + 1 /\ j = (k + 1) + 1
    <3>1. i <= k + 1 /\ k + 1 \in 1 .. k + 1  BY <2>2
    <3>2. NotAfter(p[i], n[i], a, b)  BY <1>1, <1>3, <2>2, <3>1 DEF Path, Rises
    <3>3. p[i] \in Nat /\ n[i] \in Nat  BY <1>3, <2>2
    <3>4. NotAfter(p[i], n[i], q, m)  BY <1>9, <3>2, <3>3 DEF NotAfter
    <3>. QED  BY <1>4, <1>5, <2>2, <3>4
  <2>3. CASE i = (k + 1) + 1 /\ j = (k + 1) + 1
    BY <1>4, <1>5, <2>3 DEF NotAfter
  <2>4. i \in 1 .. k + 1 \/ i = (k + 1) + 1  OBVIOUS
  <2>5. j \in 1 .. k + 1 \/ j = (k + 1) + 1  OBVIOUS
  <2>6. i = (k + 1) + 1 => j = (k + 1) + 1  OBVIOUS
  <2>. QED  BY <2>1, <2>2, <2>3, <2>4, <2>5, <2>6
<1>11. Supplied(r, s)'
  <2>0. /\ \A j \in CFs : j \in CFs' /\ j \in 1 .. k
        /\ f.kind = "CF" => k + 1 \in CFs'
    <3>1. \A i \in 1 .. k : i \in 1 .. k + 1  OBVIOUS
    <3>2. k + 1 \in 1 .. k + 1  OBVIOUS
    <3>. QED  BY <1>1, <1>2, <3>1, <3>2 DEF CFs, IsCF
  <2>. SUFFICES ASSUME NEW i \in 1 .. (k + 1) + 1, s[i] > 0,
                       ~(r[i] = q /\ s[i] = m)
                PROVE  \E j \in CFs' : i <= j
    BY <1>2, <1>4, <1>5 DEF Supplied
  <2>1. i \in 1 .. k + 1 /\ r[i] = p[i] /\ s[i] = n[i]
    <3>1. i # (k + 1) + 1  BY <1>4, <1>5
    <3>. QED  BY <1>4, <1>5, <3>1
  <2>2. CASE p[i] = a /\ n[i] = b
    <3>1. f.kind = "CF"  BY <2>1, <2>2
    <3>2. i <= k + 1  BY <2>1
    <3>. QED  BY <2>0, <3>1, <3>2
  <2>3. CASE \E j \in CFs : i <= j
    BY <2>0, <2>3
  <2>. QED  BY <1>1, <1>3, <2>1, <2>2, <2>3 DEF Path, Supplied
<1>12. r \in [1 .. Len(toPeer') + 1 -> Nat] /\ s \in [1 .. Len(toPeer') + 1 -> Nat]
  BY <1>2, <1>4, <1>5
<1>13. Path(r, s)'  BY <1>6, <1>7, <1>8, <1>10, <1>11 DEF Path
<1>. QED  BY <1>12, <1>13 DEF Joined

LEMMA PathTaken ==
  ASSUME Types, UNCHANGED <<lens, phase, offset, seqNum, returned>>,
         toPeer # <<>>, toPeer' = Tail(toPeer),
         NEW p \in [1 .. Len(toPeer) + 1 -> Nat], NEW n \in [1 .. Len(toPeer) + 1 -> Nat],
         Path(p, n), Len(delivered') + 1 = p[2], Len(reception'.frames) = n[2]
  PROVE  Joined'
<1>1. PICK k \in Nat \ {0} : /\ k = Len(toPeer) /\ DOMAIN toPeer = 1 .. k
                             /\ Len(toPeer') = k - 1 /\ DOMAIN toPeer' = 1 .. k - 1
                             /\ \A i \in 1 .. k - 1 : toPeer'[i] = toPeer[i + 1]
  <2>1. toPeer \in Seq(Wire)  BY DEF Types
  <2>. QED  BY <2>1, Tailed
<1>2. p \in [1 .. k + 1 -> Nat] /\ n \in [1 .. k + 1 -> Nat]  BY <1>1
<1>3. PICK r \in [1 .. (k - 1) + 1 -> Nat] : \A i \in 1 .. (k - 1) + 1 : r[i] = p[i + 1]
  BY <1>2, Shifted
<1>4. PICK s \in [1 .. (k - 1) + 1 -> Nat] : \A i \in 1 .. (k - 1) + 1 : s[i] = n[i + 1]
  BY <1>2, Shifted
<1>5. Begins(r, s)'
  <2>1. 1 \in 1 .. (k - 1) + 1 /\ 1 + 1 = 2  OBVIOUS
  <2>. QED  BY <1>3, <1>4, <2>1 DEF Begins
<1>6. r[(k - 1) + 1] = p[k + 1] /\ s[(k - 1) + 1] = n[k + 1]
  <2>1. (k - 1) + 1 \in 1 .. (k - 1) + 1 /\ ((k - 1) + 1) + 1 = k + 1  OBVIOUS
  <2>. QED  BY <1>3, <1>4, <2>1
<1>7. EndsAt(r[Len(toPeer) + 1], s[Len(toPeer) + 1])'
  <2>1. EndsAt(p[k + 1], n[k + 1])  BY <1>1 DEF Path
  <2>. QED  BY <1>1, <1>6, <2>1 DEF EndsAt, Position
<1>8. Leads(r, s)'
  <2>1. ASSUME NEW i \in 1 .. k - 1 PROVE Follows(r[i], s[i], toPeer[i], r[i + 1], s[i + 1])'
    <3>1. i \in 1 .. (k - 1) + 1 /\ i + 1 \in 1 .. (k - 1) + 1 /\ i + 1 \in 1 .. k  OBVIOUS
    <3>2. Follows(p[i + 1], n[i + 1], toPeer[i + 1], p[(i + 1) + 1], n[(i + 1) + 1])
      BY <1>1, <3>1 DEF Path, Leads
    <3>3. Follows(r[i], s[i], toPeer'[i], r[i + 1], s[i + 1])  BY <1>1, <1>3, <1>4, <3>1, <3>2
    <3>. QED  BY <3>3 DEF Follows
  <2>. QED  BY <1>1, <2>1 DEF Leads
<1>9. Rises(r, s)'
  <2>. SUFFICES ASSUME NEW i \in 1 .. (k - 1) + 1, NEW j \in 1 .. (k - 1) + 1, i <= j
                PROVE  NotAfter(r[i], s[i], r[j], s[j])
    BY <1>1 DEF Rises, NotAfter
  <2>1. i + 1 \in 1 .. k + 1 /\ j + 1 \in 1 .. k + 1 /\ i + 1 <= j + 1  OBVIOUS
  <2>2. NotAfter(p[i + 1], n[i + 1], p[j + 1], n[j + 1])  BY <1>1, <2>1 DEF Path, Rises
  <2>. QED  BY <1>3, <1>4, <2>2
<1>10. Supplied(r, s)'
  <2>. SUFFICES ASSUME NEW i \in 1 .. (k - 1) + 1, s[i] > 0,
                       ~(r[i] = p[k + 1] /\ s[i] = n[k + 1])
                PROVE  \E j \in CFs' : i <= j
    BY <1>1, <1>6 DEF Supplied
  <2>1. i + 1 \in 1 .. k + 1 /\ r[i] = p[i + 1] /\ s[i] = n[i + 1]  BY <1>3, <1>4
  <2>2. PICK j \in CFs : i + 1 <= j  BY <1>1, <2>1 DEF Path, Supplied
  <2>3. j \in 1 .. k /\ toPeer[j].kind = "CF"  BY <1>1 DEF CFs, IsCF
  <2>4. j - 1 \in 1 .. k - 1 /\ i <= j - 1 /\ (j - 1) + 1 = j  BY <2>2, <2>3
  <2>5. j - 1 \in CFs'  BY <1>1, <2>3, <2>4 DEF CFs, IsCF
  <2>. QED  BY <2>4, <2>5
<1>11. r \in [1 .. Len(toPeer') + 1 -> Nat] /\ s \in [1 .. Len(toPeer') + 1 -> Nat]
  BY <1>1, <1>3, <1>4
<1>12. Path(r, s)'  BY <1>5, <1>7, <1>8, <1>9, <1>10 DEF Path
<1>. QED  BY <1>11, <1>12 DEF Joined

\* Nothing of it moved, or the task is not at a PDU.
LEMMA PathKept ==
  ASSUME Joined, UNCHANGED <<lens, toPeer, delivered, reception>>,
         \/ UNCHANGED <<phase, offset, seqNum, returned>>
         \/ phase \in {"fc", "cf"} /\ phase' \in {"fc", "cf"} /\ UNCHANGED <<offset, seqNum, returned>>
         \/ phase \notin {"fc", "cf"} /\ phase' \notin {"fc", "cf"}
  PROVE  Joined'
<1>1. PICK p, n \in [1 .. Len(toPeer) + 1 -> Nat] : Path(p, n)  BY DEF Joined
<1>2. EndsAt(p[Len(toPeer) + 1], n[Len(toPeer) + 1])'
  BY <1>1 DEF Path, EndsAt, Position
<1>3. Begins(p, n)' /\ Rises(p, n)' /\ Supplied(p, n)'
  BY <1>1 DEF Path, Begins, Rises, Supplied, CFs
<1>4. Leads(p, n)'  BY <1>1 DEF Path, Leads, Follows
<1>5. Path(p, n)'  BY <1>2, <1>3, <1>4 DEF Path
<1>. QED  BY <1>1, <1>5 DEF Joined

-----------------------------------------------------------------------------
(* Consecutive frames on their way, and the last first frame *)

LEMMA PendingCounted ==
  ASSUME Types PROVE IsFiniteSet(CFs) /\ Pending \in Nat /\ (Pending = 0 <=> CFs = {})
<1>1. PICK k \in Nat : DOMAIN toPeer = 1 .. k  BY LenProperties DEF Types
<1>2. IsFiniteSet(1 .. k)  BY FS_Interval
<1>3. CFs \in SUBSET (1 .. k)  BY <1>1 DEF CFs
<1>4. IsFiniteSet(CFs)  BY <1>2, <1>3, FS_Subset
<1>. QED  BY <1>4, FS_CardinalityType, FS_EmptySet DEF Pending

LEMMA PendingAppended ==
  ASSUME Types, NEW f \in Wire, toPeer' = Append(toPeer, f)
  PROVE  /\ f.kind # "CF" => Pending' = Pending
         /\ f.kind = "CF" => Pending' = Pending + 1
         /\ \A i \in CFs' : (i \in CFs /\ toPeer'[i] = toPeer[i]) \/ (f.kind = "CF" /\ toPeer'[i] = f)
<1>1. PICK k \in Nat : k = Len(toPeer) /\ DOMAIN toPeer = 1 .. k  BY LenProperties DEF Types
<1>2. /\ DOMAIN toPeer' = 1 .. k + 1
      /\ \A i \in 1 .. k : toPeer'[i] = toPeer[i]
      /\ toPeer'[k + 1] = f
  <2>1. toPeer \in Seq(Wire)  BY DEF Types
  <2>. QED  BY <1>1, <2>1, Appended
<1>3. \A i : i \in 1 .. k + 1 <=> i \in 1 .. k \/ i = k + 1  OBVIOUS
<1>4. k + 1 \notin CFs  BY <1>1 DEF CFs
<1>5. f.kind # "CF" => CFs' = CFs  BY <1>1, <1>2, <1>3 DEF CFs, IsCF
<1>6. f.kind = "CF" => CFs' = CFs \cup {k + 1}  BY <1>1, <1>2, <1>3 DEF CFs, IsCF
<1>7. \A i \in CFs : toPeer'[i] = toPeer[i]  BY <1>1, <1>2 DEF CFs
<1>8. f.kind = "CF" => Pending' = Pending + 1
  <2>1. IsFiniteSet(CFs)  BY PendingCounted
  <2>2. Cardinality(CFs \cup {k + 1}) = Cardinality(CFs) + 1  BY <1>4, <2>1, FS_AddElement
  <2>. QED  BY <1>6, <2>2 DEF Pending
<1>9. f.kind # "CF" => Pending' = Pending  BY <1>5 DEF Pending
<1>. QED  BY <1>2, <1>5, <1>6, <1>7, <1>8, <1>9

LEMMA PendingTaken ==
  ASSUME Types, toPeer # <<>>, toPeer' = Tail(toPeer)
  PROVE  /\ Head(toPeer).kind # "CF" => Pending' = Pending
         /\ Head(toPeer).kind = "CF" => Pending = Pending' + 1 /\ 1 \in CFs
         /\ Pending' \in Nat
         /\ \A i \in CFs' : i \in Nat /\ i + 1 \in CFs /\ toPeer'[i] = toPeer[i + 1]
         /\ Head(toPeer) = toPeer[1] /\ 1 \in DOMAIN toPeer
<1>1. PICK k \in Nat \ {0} : /\ DOMAIN toPeer = 1 .. k /\ Head(toPeer) = toPeer[1]
                             /\ DOMAIN toPeer' = 1 .. k - 1
                             /\ \A i \in 1 .. k - 1 : toPeer'[i] = toPeer[i + 1]
  <2>1. toPeer \in Seq(Wire)  BY DEF Types
  <2>. QED  BY <2>1, Tailed
<1>2. \A i \in CFs' : i \in 1 .. k - 1 /\ i + 1 \in CFs /\ toPeer'[i] = toPeer[i + 1]
  <2>1. \A i \in 1 .. k - 1 : i + 1 \in 1 .. k  OBVIOUS
  <2>. QED  BY <1>1, <2>1 DEF CFs, IsCF
<1>3. \A i \in CFs \ {1} : i - 1 \in CFs' /\ (i - 1) + 1 = i
  <2>1. \A i \in 1 .. k : i # 1 => i - 1 \in 1 .. k - 1 /\ (i - 1) + 1 = i  OBVIOUS
  <2>. QED  BY <1>1, <2>1 DEF CFs, IsCF
<1>4. IsFiniteSet(CFs) /\ Pending \in Nat  BY PendingCounted
<1>5. IsFiniteSet(CFs \ {1})  BY <1>4, FS_RemoveElement
<1>6. Cardinality(CFs') = Cardinality(CFs \ {1}) /\ Cardinality(CFs') \in Nat
  <2>. DEFINE T == CFs \ {1}
              U == CFs'
              h == [i \in T |-> i - 1]
  <2>1. h \in [T -> U]  BY <1>3
  <2>2. \A i, j \in T : h[i] = h[j] => i = j
    <3>. SUFFICES ASSUME NEW i \in T, NEW j \in T, i - 1 = j - 1 PROVE i = j
      OBVIOUS
    <3>. QED  BY <1>3
  <2>3. \A j \in U : \E i \in T : h[i] = j
    <3>. SUFFICES ASSUME NEW j \in U PROVE j + 1 \in T /\ (j + 1) - 1 = j
      OBVIOUS
    <3>1. j \in Nat /\ j # 0  BY <1>2
    <3>. QED  BY <1>2, <3>1
  <2>. HIDE DEF h
  <2>4. h \in Bijection(T, U)
    BY <2>1, <2>2, <2>3 DEF Bijection, Injection, Surjection, IsInjective
  <2>5. ExistsBijection(T, U)  BY <2>4 DEF ExistsBijection
  <2>6. IsFiniteSet(T)  BY <1>5
  <2>. HIDE DEF T, U
  <2>7. IsFiniteSet(U) /\ Cardinality(U) = Cardinality(T)  BY <2>5, <2>6, FS_Bijection
  <2>8. Cardinality(U) \in Nat  BY <2>7, FS_CardinalityType
  <2>. QED  BY <2>7, <2>8 DEF T, U
<1>7. Cardinality(CFs \ {1}) = IF 1 \in CFs THEN Cardinality(CFs) - 1 ELSE Cardinality(CFs)
  BY <1>4, FS_RemoveElement
<1>8. 1 \in DOMAIN toPeer /\ (Head(toPeer).kind = "CF" <=> 1 \in CFs)
  <2>1. 1 \in 1 .. k  OBVIOUS
  <2>. QED  BY <1>1, <2>1 DEF CFs, IsCF
<1>. QED  BY <1>1, <1>2, <1>4, <1>6, <1>7, <1>8 DEF Pending

LEMMA FirstTaken ==
  ASSUME Types, FirstIsLast, UNCHANGED phase, toPeer # <<>>, toPeer' = Tail(toPeer)
  PROVE  FirstIsLast'
<1>1. PICK k \in Nat \ {0} : /\ k = Len(toPeer) /\ Len(toPeer') = k - 1
                             /\ \A i \in DOMAIN toPeer' : /\ i + 1 \in DOMAIN toPeer
                                                          /\ toPeer'[i] = toPeer[i + 1]
                                                          /\ i \in Nat
  <2>1. toPeer \in Seq(Wire)  BY DEF Types
  <2>. QED  BY <2>1, Tailed
<1>. SUFFICES ASSUME NEW i \in DOMAIN toPeer', toPeer'[i].kind = "FF"
              PROVE  i = Len(toPeer') /\ phase' = "fc"
  BY DEF FirstIsLast
<1>2. i + 1 = k /\ phase = "fc"  BY <1>1 DEF FirstIsLast
<1>. QED  BY <1>1, <1>2

LEMMA FirstAppended ==
  ASSUME Types, \A i \in DOMAIN toPeer : toPeer[i].kind # "FF",
         NEW f \in Wire, toPeer' = Append(toPeer, f), f.kind = "FF" => phase' = "fc"
  PROVE  FirstIsLast'
<1>1. /\ Len(toPeer') = Len(toPeer) + 1
      /\ \A i \in DOMAIN toPeer : toPeer'[i] = toPeer[i]
      /\ \A i \in DOMAIN toPeer' : i \in DOMAIN toPeer \/ i = Len(toPeer) + 1
      /\ toPeer'[Len(toPeer) + 1] = f
  <2>1. toPeer \in Seq(Wire)  BY DEF Types
  <2>. QED  BY <2>1, Appended
<1>. QED  BY <1>1 DEF FirstIsLast

\* While the peer is at the task's last PDU, none is about to begin.
LEMMA NoneBegins ==
  ASSUME Types, Joined, OnLast PROVE \A i \in DOMAIN toPeer : toPeer[i].kind # "FF"
<1>1. PICK p, n \in [1 .. Len(toPeer) + 1 -> Nat] : Path(p, n)  BY DEF Joined
<1>. PICK k \in Nat : k = Len(toPeer) /\ DOMAIN toPeer = 1 .. k  BY LenProperties DEF Types
<1>. SUFFICES ASSUME NEW i \in 1 .. k, toPeer[i].kind = "FF" PROVE FALSE
  OBVIOUS
<1>2. n[i] = 0 /\ p[i] \in DOMAIN lens  BY <1>1 DEF Path, Leads, Follows
<1>3. 1 \in 1 .. k + 1 /\ i \in 1 .. k + 1 /\ 1 <= i  OBVIOUS
<1>4. NotAfter(p[1], n[1], p[i], n[i])  BY <1>1, <1>3 DEF Path, Rises
<1>5. p[1] = Len(lens) /\ n[1] = Len(reception.frames) /\ n[1] \in Nat /\ n[1] # 0
  <2>1. reception.frames # <<>> /\ reception.frames \in Seq(Wire)  BY DEF OnLast, Types
  <2>2. Len(reception.frames) \in Nat /\ Len(reception.frames) # 0  BY <2>1, LenProperties, EmptySeq
  <2>. QED  BY <1>1, <2>2 DEF Path, Begins, OnLast
<1>6. p[i] \in 1 .. Len(lens) /\ Len(lens) \in Nat  BY <1>2, LengthsBounded
<1>. QED  BY <1>2, <1>4, <1>5, <1>6 DEF NotAfter

-----------------------------------------------------------------------------
(* Clear to send *)

LEMMA ClearedShrinks ==
  ASSUME ClearedOnce, Shrinks, UNCHANGED <<phase, lens, delivered, reception, toPeer>>
  PROVE  ClearedOnce'
<1>1. PICK h \in [DOMAIN inbox' -> DOMAIN inbox] :
        /\ \A i, j \in DOMAIN inbox' : h[i] = h[j] => i = j
        /\ \A i \in DOMAIN inbox' : inbox'[i] = inbox[h[i]]
  BY DEF Shrinks
<1>2. OnLast' = OnLast /\ Pending' = Pending  BY DEF OnLast, Pending, CFs
<1>. SUFFICES ASSUME Cleared'
              PROVE  /\ phase' = "fc" /\ OnLast' /\ Pending' = 0 /\ reception'.inBlock = 0
                     /\ \A i \in DOMAIN inbox' : Clears(inbox'[i]) => inbox'[i].bs = reception'.bs
                     /\ \A i, j \in DOMAIN inbox' : Clears(inbox'[i]) /\ Clears(inbox'[j]) => i = j
  BY DEF ClearedOnce, Clears
<1>3. Cleared  BY <1>1 DEF Cleared, Clears
<1>. QED  BY <1>1, <1>2, <1>3 DEF ClearedOnce

LEMMA NotClearedShrinks == ASSUME ~Cleared, Shrinks PROVE ~Cleared'
BY DEF Cleared, Shrinks, Clears

LEMMA ClearedGrows ==
  ASSUME Types, ClearedOnce, UNCHANGED <<phase, lens, delivered, reception, toPeer>>,
         NEW f \in Inbox, inbox' = Append(inbox, f), ~Clears(f)
  PROVE  ClearedOnce' /\ (~Cleared => ~Cleared')
<1>1. OnLast' = OnLast /\ Pending' = Pending  BY DEF OnLast, Pending, CFs
<1>2. \A i \in DOMAIN inbox' : Clears(inbox'[i]) => i \in DOMAIN inbox /\ inbox'[i] = inbox[i]
  BY AppendGrows
<1>3. Cleared' => Cleared  BY <1>2 DEF Cleared, Clears
<1>. QED  BY <1>1, <1>2, <1>3 DEF ClearedOnce, Clears

-----------------------------------------------------------------------------
(* What the task does *)

LEMMA LengthAppended ==
  ASSUME Types, NEW len \in PduLens, lens' = Append(lens, len)
  PROVE  /\ Len(lens) \in Nat /\ Len(lens') = Len(lens) + 1 /\ DOMAIN lens = 1 .. Len(lens)
         /\ \A i \in DOMAIN lens : i \in DOMAIN lens' /\ lens'[i] = lens[i]
         /\ Len(lens) + 1 \in DOMAIN lens' /\ lens'[Len(lens) + 1] = len
<1>1. lens \in Seq(PduLens)  BY DEF Types
<1>. QED  BY <1>1, Appended

LEMMA OrderKept ==
  ASSUME UNCHANGED <<delivered, reception>>, DeliveredInOrder, BegunInOrder,
         \A i \in DOMAIN lens : i \in DOMAIN lens' /\ lens'[i] = lens[i]
  PROVE  DeliveredInOrder' /\ BegunInOrder'
BY DEF DeliveredInOrder, BegunInOrder

\* In recv_pdu, or on the way into it or out of it.
LEMMA InStepReceiving ==
  ASSUME Types, InStep, UNCHANGED <<lens, toPeer, delivered, reception>>, Shrinks,
         phase \notin {"fc", "cf"}, phase' \notin {"fc", "cf"}
  PROVE  InStep'
<1>. USE DEF InStep
<1>1. Joined'  BY PathKept
<1>2. DeliveredInOrder' /\ BegunInOrder'  BY OrderKept
<1>3. Pending' = Pending /\ CFs' = CFs  BY DEF Pending, CFs
<1>4. BlockAgreed'  BY <1>3 DEF BlockAgreed
<1>5. CFsAwaited' /\ FirstIsLast'  BY <1>3 DEF CFsAwaited, FirstIsLast
<1>6. ClearedOnce'
  <2>1. ~Cleared  BY DEF ClearedOnce
  <2>2. ~Cleared'  BY <2>1, NotClearedShrinks
  <2>. QED  BY <2>2 DEF ClearedOnce
<1>. QED  BY <1>1, <1>2, <1>4, <1>5, <1>6

\* Only the inbox changes, and no more in it clears the task to send.
LEMMA InStepHolds ==
  ASSUME InStep, UNCHANGED <<phase, sendVars, toPeer, delivered, reception>>, ClearedOnce'
  PROVE  InStep'
<1>. USE DEF InStep, sendVars
<1>1. Joined'  BY PathKept
<1>2. DeliveredInOrder' /\ BegunInOrder'  BY OrderKept
<1>3. Pending' = Pending /\ CFs' = CFs /\ OnLast' = OnLast  BY DEF Pending, CFs, OnLast
<1>4. BlockAgreed'  BY <1>3 DEF BlockAgreed
<1>5. CFsAwaited' /\ FirstIsLast'  BY <1>3 DEF CFsAwaited, FirstIsLast
<1>. QED  BY <1>1, <1>2, <1>4, <1>5

LEMMA EndOfPath ==
  ASSUME Types, Joined
  PROVE  \E p, n \in [1 .. Len(toPeer) + 1 -> Nat] :
           /\ Path(p, n) /\ p[Len(toPeer) + 1] \in Nat /\ n[Len(toPeer) + 1] \in Nat
           /\ EndsAt(p[Len(toPeer) + 1], n[Len(toPeer) + 1])
<1>1. PICK p, n \in [1 .. Len(toPeer) + 1 -> Nat] : Path(p, n)  BY DEF Joined
<1>2. Len(toPeer) \in Nat  BY LenProperties DEF Types
<1>3. Len(toPeer) + 1 \in 1 .. Len(toPeer) + 1  BY <1>2
<1>. QED  BY <1>1, <1>3 DEF Path

LEMMA SendSingleInStep ==
  ASSUME Types, InStep, NEW len \in PduLens, SendSingle(len) PROVE InStep'
<1>. USE DEF InStep
<1>1. /\ phase = "idle" /\ lens' = Append(lens, len)
      /\ toPeer' = Append(toPeer, Frame("SF", Len(lens'), 0, len, 0))
      /\ UNCHANGED <<phase, delivered, reception, inbox>>
  BY DEF SendSingle, peerVars
<1>2. /\ Len(lens) \in Nat /\ Len(lens') = Len(lens) + 1 /\ DOMAIN lens = 1 .. Len(lens)
      /\ \A i \in DOMAIN lens : i \in DOMAIN lens' /\ lens'[i] = lens[i]
  BY <1>1, LengthAppended
<1>3. PICK f \in Wire : toPeer' = Append(toPeer, f) /\ f.kind = "SF" /\ f.pdu = Len(lens) + 1
  <2>. DEFINE g == Frame("SF", Len(lens'), 0, len, 0)
  <2>1. len \in Nat /\ Len(lens') \in Nat  BY <1>2, LengthsBounded
  <2>2. g \in Wire /\ g.kind = "SF" /\ g.pdu = Len(lens) + 1
    BY <1>2, <2>1 DEF Frame, Wire, OtherFrames
  <2>. HIDE DEF g
  <2>3. toPeer' = Append(toPeer, g)  BY <1>1 DEF g
  <2>. QED  BY <2>2, <2>3
<1>4. Joined'
  <2>1. PICK p, n \in [1 .. Len(toPeer) + 1 -> Nat] :
          /\ Path(p, n) /\ p[Len(toPeer) + 1] \in Nat /\ n[Len(toPeer) + 1] \in Nat
          /\ EndsAt(p[Len(toPeer) + 1], n[Len(toPeer) + 1])
    BY EndOfPath
  <2>2. PICK a \in Nat, b \in Nat : a = p[Len(toPeer) + 1] /\ b = n[Len(toPeer) + 1]  BY <2>1
  <2>3. a = Len(lens) + 1 /\ b = 0  BY <1>1, <2>1, <2>2 DEF EndsAt
  <2>4. a + 1 \in Nat /\ 0 \in Nat  OBVIOUS
  <2>5. EndsAt(a + 1, 0)'  BY <1>1, <1>2, <2>3 DEF EndsAt
  <2>6. Follows(a, b, f, a + 1, 0)'  BY <1>3, <2>3 DEF Follows
  <2>7. b > 0 /\ f.kind # "CF" => a + 1 = a /\ 0 = b  BY <2>3
  <2>. QED  BY <1>1, <1>2, <1>3, <2>1, <2>2, <2>4, <2>5, <2>6, <2>7, PathAppended
<1>5. DeliveredInOrder' /\ BegunInOrder'  BY <1>1, <1>2, OrderKept
<1>6. /\ Pending' = Pending
      /\ \A i \in CFs' : i \in CFs /\ toPeer'[i] = toPeer[i]
  BY <1>1, <1>3, PendingAppended
<1>7. BlockAgreed' /\ CFsAwaited'  BY <1>1, <1>6 DEF BlockAgreed, CFsAwaited
<1>8. FirstIsLast'
  <2>1. \A i \in DOMAIN toPeer : toPeer[i].kind # "FF"  BY <1>1 DEF FirstIsLast
  <2>. QED  BY <1>1, <1>3, <2>1, FirstAppended
<1>9. ClearedOnce'  BY <1>1 DEF ClearedOnce, Cleared, Clears
<1>. QED  BY <1>4, <1>5, <1>7, <1>8, <1>9

LEMMA SendFirstInStep ==
  ASSUME Types, InStep, NEW len \in PduLens, SendFirst(len) PROVE InStep'
<1>. USE DEF InStep
<1>1. /\ phase = "idle" /\ phase' = "fc" /\ lens' = Append(lens, len)
      /\ toPeer' = Append(toPeer, FirstFrame(Len(lens'), len))
      /\ UNCHANGED <<delivered, reception, inbox>>
  BY DEF SendFirst, peerVars
<1>2. /\ Len(lens) \in Nat /\ Len(lens') = Len(lens) + 1 /\ DOMAIN lens = 1 .. Len(lens)
      /\ \A i \in DOMAIN lens : i \in DOMAIN lens' /\ lens'[i] = lens[i]
      /\ Len(lens) + 1 \in DOMAIN lens' /\ lens'[Len(lens) + 1] = len
  BY <1>1, LengthAppended
<1>3. PICK f \in Wire : /\ toPeer' = Append(toPeer, f)
                        /\ f.kind = "FF" /\ f.pdu = Len(lens) + 1 /\ f.len = len
  <2>. DEFINE g == FirstFrame(Len(lens'), len)
  <2>1. Len(lens') \in Nat  BY <1>2
  <2>2. g \in Wire /\ g.kind = "FF" /\ g.pdu = Len(lens) + 1 /\ g.len = len
    BY <1>2, <2>1, FirstFrameTyped
  <2>. HIDE DEF g
  <2>3. toPeer' = Append(toPeer, g)  BY <1>1 DEF g
  <2>. QED  BY <2>2, <2>3
<1>4. Joined'
  <2>1. PICK p, n \in [1 .. Len(toPeer) + 1 -> Nat] :
          /\ Path(p, n) /\ p[Len(toPeer) + 1] \in Nat /\ n[Len(toPeer) + 1] \in Nat
          /\ EndsAt(p[Len(toPeer) + 1], n[Len(toPeer) + 1])
    BY EndOfPath
  <2>2. PICK a \in Nat, b \in Nat : a = p[Len(toPeer) + 1] /\ b = n[Len(toPeer) + 1]  BY <2>1
  <2>3. a = Len(lens) + 1 /\ b = 0  BY <1>1, <2>1, <2>2 DEF EndsAt
  <2>4. Position(1)'  BY PositionOfFirst
  <2>5. EndsAt(a, 1)'  BY <1>1, <1>2, <2>3, <2>4 DEF EndsAt
  <2>6. Follows(a, b, f, a, 1)'  BY <1>2, <1>3, <2>3 DEF Follows
  <2>7. b > 0 /\ f.kind # "CF" => a = a /\ 1 = b  BY <2>3
  <2>. QED  BY <1>1, <1>2, <1>3, <2>1, <2>2, <2>5, <2>6, <2>7, PathAppended
<1>5. DeliveredInOrder' /\ BegunInOrder'  BY <1>1, <1>2, OrderKept
<1>6. /\ Pending' = Pending
      /\ \A i \in CFs' : i \in CFs /\ toPeer'[i] = toPeer[i]
  BY <1>1, <1>3, PendingAppended
<1>7. ~OnLast'
  <2>1. Len(delivered) \in Nat  BY LenProperties DEF Types
  <2>2. reception.frames # <<>> => Len(delivered) + 1 \in 1 .. Len(lens)  BY <1>2 DEF BegunInOrder
  <2>. QED  BY <1>1, <1>2, <2>1, <2>2 DEF OnLast
<1>8. BlockAgreed' /\ CFsAwaited'  BY <1>1, <1>6, <1>7 DEF BlockAgreed, CFsAwaited
<1>9. FirstIsLast'
  <2>1. \A i \in DOMAIN toPeer : toPeer[i].kind # "FF"  BY <1>1 DEF FirstIsLast
  <2>. QED  BY <1>1, <1>3, <2>1, FirstAppended
<1>10. ClearedOnce'  BY <1>1 DEF ClearedOnce, Cleared, Clears
<1>. QED  BY <1>4, <1>5, <1>8, <1>9, <1>10

LEMMA SendConsecutiveInStep ==
  ASSUME Types, Sending, InStep, SendConsecutive PROVE InStep'
<1>. USE DEF InStep
<1>1. /\ phase = "cf" /\ toPeer' = Append(toPeer, Chunk(Len(lens), offset))
      /\ offset' = offset + Chunk(Len(lens), offset).n
      /\ inBlock' = inBlock + 1
      /\ phase' = IF offset' >= lens[Len(lens)] THEN "idle"
                  ELSE IF BlockFull(bs, inBlock') THEN "fc" ELSE "cf"
      /\ UNCHANGED <<lens, bs, delivered, reception, inbox>>
  BY DEF SendConsecutive, peerVars
<1>2. PICK p, n \in [1 .. Len(toPeer) + 1 -> Nat] :
        /\ Path(p, n) /\ p[Len(toPeer) + 1] \in Nat /\ n[Len(toPeer) + 1] \in Nat
        /\ EndsAt(p[Len(toPeer) + 1], n[Len(toPeer) + 1])
  BY EndOfPath
<1>3. PICK a \in Nat, b \in Nat : a = p[Len(toPeer) + 1] /\ b = n[Len(toPeer) + 1]  BY <1>2
<1>4. a = Len(lens) /\ Position(b)  BY <1>1, <1>2, <1>3 DEF EndsAt
<1>5. PICK f \in Wire :
        /\ toPeer' = Append(toPeer, f) /\ f.kind = "CF" /\ f.pdu = a /\ f.sn = b % SnRange
        /\ a \in DOMAIN lens /\ offset' = offset + f.n /\ offset + f.n \in Int
        /\ offset + f.n >= lens[a] <=> FirstBytes + FrameBytes * b >= lens[a]
  <2>. DEFINE g == Chunk(Len(lens), offset)
  <2>1. /\ g \in Wire /\ g.kind = "CF" /\ g.pdu = a /\ g.sn = b % SnRange
        /\ a \in DOMAIN lens /\ offset + g.n \in Int
        /\ offset + g.n >= lens[a] <=> FirstBytes + FrameBytes * b >= lens[a]
    BY <1>4, NextChunk
  <2>2. toPeer' = Append(toPeer, g) /\ offset' = offset + g.n  BY <1>1
  <2>. HIDE DEF g
  <2>. QED  BY <2>1, <2>2
<1>6. b # 0  BY <1>4 DEF Position
<1>7. \A i \in DOMAIN lens : i \in DOMAIN lens' /\ lens'[i] = lens[i]  BY <1>1
<1>8. Joined'
  <2>1. CASE offset' >= lens[a]
    <3>1. phase' = "idle"  BY <1>1, <1>4, <2>1
    <3>2. EndsAt(a + 1, 0)'  BY <1>1, <1>4, <3>1 DEF EndsAt
    <3>3. FirstBytes + FrameBytes * b >= lens[a]  BY <1>5, <2>1
    <3>4. Follows(a, b, f, a + 1, 0)'  BY <1>1, <1>5, <1>6, <3>3 DEF Follows
    <3>5. a + 1 \in Nat /\ 0 \in Nat  OBVIOUS
    <3>. QED  BY <1>1, <1>2, <1>3, <1>5, <1>7, <3>2, <3>4, <3>5, PathAppended
  <2>2. CASE ~(offset' >= lens[a])
    <3>1. phase' \in {"fc", "cf"}  BY <1>1, <1>4, <2>2
    <3>2. Position(b + 1)'  BY <1>4, <3>1, PositionAfterChunk
    <3>3. EndsAt(a, b + 1)'  BY <1>1, <1>4, <3>1, <3>2 DEF EndsAt
    <3>4. ~(FirstBytes + FrameBytes * b >= lens[a])  BY <1>5, <2>2
    <3>5. Follows(a, b, f, a, b + 1)'  BY <1>1, <1>5, <1>6, <3>4 DEF Follows
    <3>6. b + 1 \in Nat  OBVIOUS
    <3>. QED  BY <1>1, <1>2, <1>3, <1>5, <1>7, <3>3, <3>5, <3>6, PathAppended
  <2>. QED  BY <2>1, <2>2
<1>9. DeliveredInOrder' /\ BegunInOrder'  BY <1>1, <1>7, OrderKept
<1>10. /\ Pending' = Pending + 1
       /\ \A i \in CFs' : (i \in CFs /\ toPeer'[i] = toPeer[i]) \/ toPeer'[i] = f
  BY <1>5, PendingAppended
<1>11. /\ OnLast /\ bs = reception.bs /\ inBlock = reception.inBlock + Pending
       /\ bs # 0 => inBlock < bs
  BY <1>1 DEF BlockAgreed
<1>12. OnLast' /\ a = Len(delivered) + 1 /\ reception.frames # <<>>
  BY <1>1, <1>4, <1>11 DEF OnLast
<1>13. CFsAwaited'  BY <1>1, <1>5, <1>10, <1>12 DEF CFsAwaited
<1>14. BlockAgreed'
  <2>1. PICK c \in Nat, g \in Nat, w \in Nat :
          c = Pending /\ g = reception.inBlock /\ w = reception.bs
    <3>1. Pending \in Nat  BY PendingCounted
    <3>2. reception.inBlock \in Nat /\ reception.bs \in 0 .. 255  BY DEF Types
    <3>3. \A w \in 0 .. 255 : w \in Nat  OBVIOUS
    <3>4. reception.bs \in Nat  BY <3>2, <3>3
    <3>. QED  BY <3>1, <3>2, <3>4
  <2>2. inBlock = g + c /\ inBlock' = (g + c) + 1 /\ Pending' = c + 1 /\ bs' = w /\ bs = w
        /\ reception'.bs = w /\ reception'.inBlock = g /\ (w # 0 => g + c < w)
    BY <1>1, <1>10, <1>11, <2>1
  <2>3. w # 0 => g + (c + 1) <= w  BY <2>2
  <2>4. phase' = "cf" => (w # 0 => (g + c) + 1 < w)
    BY <1>1, <2>2 DEF BlockFull
  <2>5. phase' = "fc" => w # 0 /\ g + (c + 1) = w
    BY <1>1, <2>2 DEF BlockFull
  <2>6. (g + c) + 1 = g + (c + 1)  OBVIOUS
  <2>. QED  BY <1>12, <2>2, <2>3, <2>4, <2>5, <2>6 DEF BlockAgreed
<1>15. FirstIsLast'
  <2>1. \A i \in DOMAIN toPeer : toPeer[i].kind # "FF"  BY <1>11, NoneBegins
  <2>. QED  BY <1>5, <2>1, FirstAppended
<1>16. ClearedOnce'  BY <1>1 DEF ClearedOnce, Cleared, Clears
<1>. QED  BY <1>8, <1>9, <1>13, <1>14, <1>15, <1>16

LEMMA TakeFlowControlInStep ==
  ASSUME Types, InStep \/ TurnedDown, TakeFlowControl PROVE InStep'
<1>1. /\ phase = "fc" /\ phase' = "cf" /\ inbox # <<>> /\ Clears(Head(inbox))
      /\ bs' = Head(inbox).bs /\ inBlock' = 0 /\ inbox' = Tail(inbox)
      /\ UNCHANGED <<lens, offset, seqNum, returned, toPeer, delivered, reception>>
  BY DEF TakeFlowControl, Clears, peerVars
<1>2. 1 \in DOMAIN inbox /\ Head(inbox) = inbox[1]
  <2>1. inbox \in Seq(Inbox)  BY DEF Types
  <2>. QED  BY <1>1, <2>1, Tailed
<1>3. Cleared  BY <1>1, <1>2 DEF Cleared
<1>4. InStep  BY <1>3 DEF TurnedDown
<1>. USE DEF InStep
<1>5. /\ OnLast /\ Pending = 0 /\ reception.inBlock = 0
      /\ \A i \in DOMAIN inbox : Clears(inbox[i]) => inbox[i].bs = reception.bs
      /\ \A i, j \in DOMAIN inbox : Clears(inbox[i]) /\ Clears(inbox[j]) => i = j
  BY <1>3, <1>4 DEF ClearedOnce
<1>6. Joined'  BY <1>1, <1>4, PathKept
<1>7. DeliveredInOrder' /\ BegunInOrder'  BY <1>1, <1>4, OrderKept
<1>8. Pending' = Pending /\ CFs' = CFs /\ OnLast'  BY <1>1, <1>5 DEF Pending, CFs, OnLast
<1>9. BlockAgreed'
  <2>1. bs' = reception.bs /\ bs' \in Nat
    <3>1. bs' = reception.bs  BY <1>1, <1>2, <1>5
    <3>2. reception.bs \in 0 .. 255  BY DEF Types
    <3>. QED  BY <3>1, <3>2
  <2>2. inBlock' = 0 /\ Pending' = 0 /\ reception'.inBlock = 0 /\ reception' = reception
    BY <1>1, <1>5, <1>8
  <2>. QED  BY <1>1, <1>8, <2>1, <2>2 DEF BlockAgreed
<1>10. CFsAwaited'  BY <1>1, <1>4, <1>8 DEF CFsAwaited
<1>11. FirstIsLast'
  <2>1. \A i \in DOMAIN toPeer : toPeer[i].kind # "FF"  BY <1>4, <1>5, NoneBegins
  <2>. QED  BY <1>1, <2>1 DEF FirstIsLast
<1>12. ClearedOnce'
  <2>1. ~Cleared'  BY <1>1, <1>5, TailShrinks
  <2>. QED  BY <2>1 DEF ClearedOnce
<1>. QED  BY <1>6, <1>7, <1>9, <1>10, <1>11, <1>12

LEMMA TakeFirstInStep ==
  ASSUME Types, InStep, TakeFirst PROVE InStep'
<1>. USE DEF InStep
<1>1. /\ phase = "first" /\ phase' = "cfs" /\ inbox # <<>> /\ inbox' = Tail(inbox)
      /\ toPeer' = Append(toPeer, Flow("CTS", OwnBlockSize))
      /\ UNCHANGED <<lens, delivered, reception>>
  BY DEF TakeFirst, sendVars, peerVars
<1>2. PICK f \in Wire : toPeer' = Append(toPeer, f) /\ f.kind = "FC"
  <2>. DEFINE g == Flow("CTS", OwnBlockSize)
  <2>1. g \in Wire /\ g.kind = "FC"  BY OwnFlowTyped
  <2>. HIDE DEF g
  <2>2. toPeer' = Append(toPeer, g)  BY <1>1 DEF g
  <2>. QED  BY <2>1, <2>2
<1>3. \A i \in DOMAIN lens : i \in DOMAIN lens' /\ lens'[i] = lens[i]  BY <1>1
<1>4. Joined'
  <2>1. PICK p, n \in [1 .. Len(toPeer) + 1 -> Nat] :
          /\ Path(p, n) /\ p[Len(toPeer) + 1] \in Nat /\ n[Len(toPeer) + 1] \in Nat
          /\ EndsAt(p[Len(toPeer) + 1], n[Len(toPeer) + 1])
    BY EndOfPath
  <2>2. PICK a \in Nat, b \in Nat : a = p[Len(toPeer) + 1] /\ b = n[Len(toPeer) + 1]  BY <2>1
  <2>3. a = Len(lens) + 1 /\ b = 0  BY <1>1, <2>1, <2>2 DEF EndsAt
  <2>4. EndsAt(a, b)'  BY <1>1, <2>3 DEF EndsAt
  <2>5. Follows(a, b, f, a, b)'  BY <1>2 DEF Follows
  <2>. QED  BY <1>1, <1>2, <1>3, <2>1, <2>2, <2>4, <2>5, PathAppended
<1>5. DeliveredInOrder' /\ BegunInOrder'  BY <1>1, <1>3, OrderKept
<1>6. /\ Pending' = Pending
      /\ \A i \in CFs' : i \in CFs /\ toPeer'[i] = toPeer[i]
  BY <1>2, PendingAppended
<1>7. BlockAgreed' /\ CFsAwaited'  BY <1>1, <1>6 DEF BlockAgreed, CFsAwaited
<1>8. FirstIsLast'
  <2>1. \A i \in DOMAIN toPeer : toPeer[i].kind # "FF"  BY <1>1 DEF FirstIsLast
  <2>. QED  BY <1>2, <2>1, FirstAppended
<1>9. ClearedOnce'
  <2>1. ~Cleared /\ Shrinks  BY <1>1, TailShrinks DEF ClearedOnce
  <2>2. ~Cleared'  BY <2>1, NotClearedShrinks
  <2>. QED  BY <2>2 DEF ClearedOnce
<1>. QED  BY <1>4, <1>5, <1>7, <1>8, <1>9

-----------------------------------------------------------------------------
(* What the peer does *)

LEMMA HeadOfPath ==
  ASSUME Types, Joined, toPeer # <<>>
  PROVE  \E p, n \in [1 .. Len(toPeer) + 1 -> Nat] :
           /\ Path(p, n)
           /\ p[1] = Len(delivered) + 1 /\ n[1] = Len(reception.frames)
           /\ p[1] \in Nat /\ n[1] \in Nat /\ p[2] \in Nat /\ n[2] \in Nat
           /\ Follows(p[1], n[1], Head(toPeer), p[2], n[2])
           /\ EndsAt(p[Len(toPeer) + 1], n[Len(toPeer) + 1])
           /\ Len(toPeer) \in Nat \ {0} /\ DOMAIN toPeer = 1 .. Len(toPeer)
<1>1. PICK k \in Nat \ {0} : k = Len(toPeer) /\ DOMAIN toPeer = 1 .. k /\ Head(toPeer) = toPeer[1]
  <2>1. toPeer \in Seq(Wire)  BY DEF Types
  <2>. QED  BY <2>1, Tailed
<1>2. PICK p, n \in [1 .. Len(toPeer) + 1 -> Nat] : Path(p, n)  BY DEF Joined
<1>3. 1 \in 1 .. k /\ 1 \in 1 .. k + 1 /\ 2 \in 1 .. k + 1 /\ 1 + 1 = 2  OBVIOUS
<1>4. Follows(p[1], n[1], Head(toPeer), p[2], n[2])
  <2>1. Follows(p[1], n[1], toPeer[1], p[1 + 1], n[1 + 1])  BY <1>1, <1>2, <1>3 DEF Path, Leads
  <2>. QED  BY <1>1, <1>3, <2>1
<1>5. p[1] \in Nat /\ n[1] \in Nat /\ p[2] \in Nat /\ n[2] \in Nat  BY <1>1, <1>2, <1>3
<1>. QED  BY <1>1, <1>2, <1>4, <1>5 DEF Path, Begins

\* The order of what is delivered, when the peer has put one PDU more together.
LEMMA OrderDelivers ==
  ASSUME Types, DeliveredInOrder, NEW frames \in Seq(Wire), PeerDelivers(frames),
         frames # <<>>, frames[1].pdu = Len(delivered) + 1
  PROVE  /\ DeliveredInOrder' /\ BegunInOrder' /\ ~OnLast'
         /\ Len(delivered') = Len(delivered) + 1 /\ Len(reception'.frames) = 0
         /\ reception'.bs = 0
<1>1. delivered \in Seq(Seq(Wire)) /\ delivered' = Append(delivered, frames)
  BY DEF Types, PeerDelivers
<1>2. /\ \A i \in DOMAIN delivered : delivered'[i] = delivered[i]
      /\ delivered'[Len(delivered) + 1] = frames
      /\ \A i \in DOMAIN delivered' : i \in DOMAIN delivered \/ i = Len(delivered) + 1
      /\ Len(delivered') = Len(delivered) + 1
  BY <1>1, Appended
<1>3. reception'.frames = <<>> /\ Len(reception'.frames) = 0 /\ reception'.bs = 0
  <2>1. reception' = NoReception  BY DEF PeerDelivers
  <2>2. reception'.frames = <<>> /\ reception'.bs = 0  BY <2>1 DEF NoReception
  <2>. QED  BY <2>2, EmptySeq
<1>4. DeliveredInOrder'  BY <1>2 DEF DeliveredInOrder
<1>. QED  BY <1>2, <1>3, <1>4 DEF BegunInOrder, OnLast

LEMMA PeerTakesSingleInStep ==
  ASSUME Types, InStep, PeerTakesSingle PROVE InStep'
<1>. USE DEF InStep
<1>1. /\ toPeer # <<>> /\ Head(toPeer).kind = "SF" /\ toPeer' = Tail(toPeer)
      /\ PeerDelivers(<<Head(toPeer)>>)
      /\ UNCHANGED <<phase, lens, offset, seqNum, bs, inBlock, returned, inbox>>
  BY DEF PeerTakesSingle, sendVars
<1>2. PICK p, n \in [1 .. Len(toPeer) + 1 -> Nat] :
        /\ Path(p, n) /\ p[1] = Len(delivered) + 1 /\ n[1] = Len(reception.frames)
        /\ p[1] \in Nat /\ p[2] \in Nat
        /\ Follows(p[1], n[1], Head(toPeer), p[2], n[2])
  BY <1>1, HeadOfPath
<1>3. n[1] = 0 /\ n[2] = 0 /\ p[2] = p[1] + 1 /\ Head(toPeer).pdu = p[1]
  BY <1>1, <1>2 DEF Follows
<1>4. reception.frames = <<>>
  <2>1. reception.frames \in Seq(Wire)  BY DEF Types
  <2>. QED  BY <1>2, <1>3, <2>1, EmptySeq
<1>5. /\ DeliveredInOrder' /\ BegunInOrder' /\ ~OnLast'
      /\ Len(delivered') = Len(delivered) + 1 /\ Len(reception'.frames) = 0 /\ reception'.bs = 0
  <2>1. Head(toPeer) \in Wire
    <3>1. toPeer \in Seq(Wire)  BY DEF Types
    <3>. QED  BY <1>1, <3>1, HeadTailProperties
  <2>2. <<>> \in Seq(Wire) /\ Append(<<>>, Head(toPeer)) = <<Head(toPeer)>>  BY EmptySeq
  <2>3. <<Head(toPeer)>> \in Seq(Wire)  BY <2>1, <2>2, AppendProperties
  <2>4. <<Head(toPeer)>> # <<>> /\ <<Head(toPeer)>>[1].pdu = Len(delivered) + 1
    BY <1>2, <1>3
  <2>. QED  BY <1>1, <2>3, <2>4, OrderDelivers
<1>6. Joined'  BY <1>1, <1>2, <1>3, <1>5, PathTaken
<1>7. CFs' = {}
  <2>1. CFs = {}  BY <1>4 DEF CFsAwaited
  <2>. QED  BY <1>1, <2>1, PendingTaken
<1>8. Pending' = 0 /\ CFsAwaited'
  <2>1. Cardinality({}) = 0  BY FS_EmptySet
  <2>. QED  BY <1>7, <2>1 DEF Pending, CFsAwaited
<1>9. ~OnLast  BY <1>4 DEF OnLast
<1>10. BlockAgreed'  BY <1>1, <1>5, <1>9 DEF BlockAgreed
<1>11. FirstIsLast'  BY <1>1, FirstTaken
<1>12. ClearedOnce'
  <2>1. ~Cleared  BY <1>9 DEF ClearedOnce
  <2>. QED  BY <1>1, <2>1 DEF ClearedOnce, Cleared, Clears
<1>. QED  BY <1>5, <1>6, <1>8, <1>10, <1>11, <1>12

LEMMA PeerTakesFirstTogether ==
  ASSUME Types, InStep, PeerTakesFirst PROVE InStep' \/ TurnedDown'
<1>. USE DEF InStep
<1>1. /\ toPeer # <<>> /\ Head(toPeer).kind = "FF" /\ toPeer' = Tail(toPeer)
      /\ UNCHANGED <<phase, lens, offset, seqNum, bs, inBlock, returned, delivered>>
  BY DEF PeerTakesFirst, sendVars
<1>2. PICK p, n \in [1 .. Len(toPeer) + 1 -> Nat] :
        /\ Path(p, n) /\ p[1] = Len(delivered) + 1 /\ n[1] = Len(reception.frames)
        /\ p[1] \in Nat /\ p[2] \in Nat
        /\ Follows(p[1], n[1], Head(toPeer), p[2], n[2])
        /\ EndsAt(p[Len(toPeer) + 1], n[Len(toPeer) + 1])
  BY <1>1, HeadOfPath
<1>3. /\ n[1] = 0 /\ n[2] = 1 /\ p[2] = p[1] /\ Head(toPeer).pdu = p[1]
      /\ p[1] \in DOMAIN lens /\ Head(toPeer).len = lens[p[1]]
  BY <1>1, <1>2 DEF Follows
<1>4. reception.frames = <<>>
  <2>1. reception.frames \in Seq(Wire)  BY DEF Types
  <2>. QED  BY <1>2, <1>3, <2>1, EmptySeq
<1>5. phase = "fc" /\ Len(toPeer) = 1
  <2>1. Head(toPeer) = toPeer[1] /\ 1 \in DOMAIN toPeer  BY <1>1, PendingTaken
  <2>. QED  BY <1>1, <2>1 DEF FirstIsLast
<1>6. toPeer' = <<>>
  <2>1. toPeer \in Seq(Wire)  BY DEF Types
  <2>2. toPeer' \in Seq(Wire) /\ Len(toPeer') = Len(toPeer) - 1  BY <1>1, <2>1, Tailed
  <2>3. Len(toPeer') = 0  BY <1>5, <2>2
  <2>. QED  BY <2>2, <2>3, EmptySeq
<1>7. Len(lens) = Len(delivered) + 1
  <2>1. Len(toPeer) + 1 = 2  BY <1>5
  <2>. QED  BY <1>2, <1>3, <1>5, <2>1 DEF EndsAt
<1>8. ~Cleared  BY <1>4 DEF ClearedOnce, OnLast
<1>9. CFs' = {} /\ Pending' = 0
  <2>1. DOMAIN <<>> = {} /\ Cardinality({}) = 0  BY FS_EmptySet
  <2>2. CFs' = {}  BY <1>6, <2>1 DEF CFs
  <2>. QED  BY <2>1, <2>2 DEF Pending
<1>10. ASSUME NEW size \in BlockSizes, NEW wait \in {<<>>, <<Flow("WT", 0)>>},
              reception' = [frames |-> <<Head(toPeer)>>, bs |-> size, inBlock |-> 0],
              inbox' = Append(inbox \o wait, Flow("CTS", size))
       PROVE  InStep'
  <2>1. /\ reception'.frames = <<Head(toPeer)>> /\ Len(reception'.frames) = 1
        /\ reception'.frames # <<>> /\ reception'.frames[1] = Head(toPeer)
        /\ reception'.bs = size /\ reception'.inBlock = 0
    BY <1>10
  <2>2. size \in Nat /\ size \in 0 .. 255
    <3>1. \A w \in 0 .. 255 : w \in Nat  OBVIOUS
    <3>. QED  BY <3>1, IsoTpAssumption
  <2>3. Joined'  BY <1>1, <1>2, <1>3, <2>1, PathTaken
  <2>4. DeliveredInOrder'  BY <1>1 DEF DeliveredInOrder
  <2>5. BegunInOrder'  BY <1>1, <1>2, <1>3, <2>1 DEF BegunInOrder
  <2>6. OnLast'  BY <1>1, <1>7, <2>1 DEF OnLast
  <2>7. BlockAgreed'  BY <1>1, <1>5, <1>9, <2>1, <2>2 DEF BlockAgreed
  <2>8. CFsAwaited'  BY <1>9 DEF CFsAwaited
  <2>9. FirstIsLast'  BY <1>1, FirstTaken
  <2>10. PICK last \in DOMAIN inbox' :
           /\ inbox'[last] = Flow("CTS", size)
           /\ \A i \in DOMAIN inbox' :
                i = last \/ inbox'[i] = Flow("WT", 0) \/ \E j \in DOMAIN inbox : inbox'[i] = inbox[j]
    BY <1>10, <2>2, ClearanceGrows
  <2>11. \A i \in DOMAIN inbox' : Clears(inbox'[i]) => i = last
    <3>1. ~Clears(Flow("WT", 0))  BY DEF Clears, Flow
    <3>2. \A j \in DOMAIN inbox : ~Clears(inbox[j])  BY <1>8 DEF Cleared
    <3>. QED  BY <2>10, <3>1, <3>2
  <2>12. Flow("CTS", size).bs = size  BY DEF Flow
  <2>13. ClearedOnce'
    BY <1>1, <1>5, <1>9, <2>1, <2>6, <2>10, <2>11, <2>12 DEF ClearedOnce, Clears
  <2>. QED  BY <2>3, <2>4, <2>5, <2>7, <2>8, <2>9, <2>13
<1>11. ASSUME reception' = NoReception, inbox' = Append(inbox, Flow("OVFLW", 0)) PROVE TurnedDown'
  <2>1. ~Cleared'
    <3>. DEFINE g == Flow("OVFLW", 0)
    <3>1. g \in Inbox /\ ~Clears(g)
      <4>1. "OVFLW" \in {"CTS", "WT", "OVFLW"} /\ 0 \in 0 .. 255 /\ "OVFLW" # "CTS"  OBVIOUS
      <4>. QED  BY <4>1, FlowTyped DEF Clears
    <3>. HIDE DEF g
    <3>2. inbox' = Append(inbox, g)  BY <1>11 DEF g
    <3>3. \A i \in DOMAIN inbox' : (i \in DOMAIN inbox /\ inbox'[i] = inbox[i]) \/ inbox'[i] = g
      BY <3>1, <3>2, AppendGrows
    <3>. QED  BY <1>8, <3>1, <3>3 DEF Cleared, Clears
  <2>2. DeliveredInOrder'  BY <1>1 DEF DeliveredInOrder
  <2>. QED  BY <1>1, <1>5, <1>6, <1>7, <1>11, <2>1, <2>2 DEF TurnedDown, NoReception
<1>. QED  BY <1>10, <1>11 DEF PeerTakesFirst

LEMMA PeerTakesFlowControlInStep ==
  ASSUME Types, InStep, PeerTakesFlowControl PROVE InStep'
<1>. USE DEF InStep
<1>1. /\ toPeer # <<>> /\ Head(toPeer).kind = "FC" /\ toPeer' = Tail(toPeer)
      /\ UNCHANGED <<phase, lens, offset, seqNum, bs, inBlock, returned, inbox, reception, delivered>>
  BY DEF PeerTakesFlowControl, sendVars
<1>2. PICK p, n \in [1 .. Len(toPeer) + 1 -> Nat] :
        /\ Path(p, n) /\ p[1] = Len(delivered) + 1 /\ n[1] = Len(reception.frames)
        /\ Follows(p[1], n[1], Head(toPeer), p[2], n[2])
  BY <1>1, HeadOfPath
<1>3. p[2] = p[1] /\ n[2] = n[1]  BY <1>1, <1>2 DEF Follows
<1>4. Joined'  BY <1>1, <1>2, <1>3, PathTaken
<1>5. \A i \in DOMAIN lens : i \in DOMAIN lens' /\ lens'[i] = lens[i]  BY <1>1
<1>6. DeliveredInOrder' /\ BegunInOrder'  BY <1>1, <1>5, OrderKept
<1>7. /\ Pending' = Pending /\ OnLast' = OnLast
      /\ \A i \in CFs' : i + 1 \in CFs /\ toPeer'[i] = toPeer[i + 1]
  BY <1>1, PendingTaken DEF OnLast
<1>8. BlockAgreed' /\ CFsAwaited'  BY <1>1, <1>7 DEF BlockAgreed, CFsAwaited
<1>9. FirstIsLast'  BY <1>1, FirstTaken
<1>10. ClearedOnce'  BY <1>1, <1>7 DEF ClearedOnce, Cleared, Clears
<1>. QED  BY <1>4, <1>6, <1>8, <1>9, <1>10

LEMMA PeerTakesConsecutiveInStep ==
  ASSUME Types, InStep, PeerTakesConsecutive PROVE InStep'
<1>. USE DEF InStep
<1>. DEFINE f == Head(toPeer)
            frames == Append(reception.frames, f)
            full == reception.inBlock + 1 = reception.bs
<1>1. /\ toPeer # <<>> /\ f.kind = "CF" /\ toPeer' = Tail(toPeer)
      /\ UNCHANGED <<phase, lens, offset, seqNum, bs, inBlock, returned>>
  BY DEF PeerTakesConsecutive, sendVars
<1>2. PICK p, n \in [1 .. Len(toPeer) + 1 -> Nat] :
        /\ Path(p, n) /\ p[1] = Len(delivered) + 1 /\ n[1] = Len(reception.frames)
        /\ p[1] \in Nat /\ n[1] \in Nat /\ p[2] \in Nat /\ n[2] \in Nat
        /\ Follows(p[1], n[1], f, p[2], n[2])
        /\ EndsAt(p[Len(toPeer) + 1], n[Len(toPeer) + 1])
        /\ Len(toPeer) \in Nat \ {0} /\ DOMAIN toPeer = 1 .. Len(toPeer)
  BY <1>1, HeadOfPath
<1>3. /\ n[1] > 0 /\ f.sn = n[1] % SnRange /\ p[1] \in DOMAIN lens
      /\ FirstBytes + FrameBytes * n[1] >= lens[p[1]] => p[2] = p[1] + 1 /\ n[2] = 0
      /\ ~(FirstBytes + FrameBytes * n[1] >= lens[p[1]]) => p[2] = p[1] /\ n[2] = n[1] + 1
  BY <1>1, <1>2 DEF Follows
<1>4. /\ reception.frames # <<>> /\ reception.frames \in Seq(Wire) /\ f \in Wire
      /\ frames \in Seq(Wire) /\ frames # <<>> /\ Len(frames) = n[1] + 1
      /\ frames[1] = reception.frames[1] /\ Head(frames) = frames[1]
  <2>1. reception.frames \in Seq(Wire) /\ toPeer \in Seq(Wire)  BY DEF Types
  <2>2. f \in Wire  BY <1>1, <2>1, HeadTailProperties
  <2>3. reception.frames # <<>>  BY <1>2, <1>3, EmptySeq
  <2>4. 1 \in DOMAIN reception.frames  BY <2>1, <2>3, Tailed
  <2>5. /\ frames \in Seq(Wire) /\ frames # <<>> /\ Len(frames) = n[1] + 1
        /\ frames[1] = reception.frames[1]
    BY <1>2, <2>1, <2>2, <2>4, Appended
  <2>6. Head(frames) = frames[1]  BY <2>5, Tailed
  <2>. QED  BY <2>1, <2>2, <2>3, <2>5, <2>6
<1>5. /\ frames[1].pdu = Len(delivered) + 1 /\ Head(frames).len = lens[p[1]]
      /\ Room(frames) = FirstBytes + FrameBytes * n[1]
  <2>1. Len(frames) - 1 = n[1]  BY <1>2, <1>4
  <2>. QED  BY <1>2, <1>4, <2>1 DEF BegunInOrder, Room
<1>6. f.sn = Len(reception.frames) % SnRange  BY <1>2, <1>3
<1>7. /\ Pending \in Nat /\ Pending' \in Nat /\ Pending = Pending' + 1
      /\ \A i \in CFs' : i \in Nat /\ i + 1 \in CFs /\ toPeer'[i] = toPeer[i + 1]
  BY <1>1, PendingCounted, PendingTaken
<1>8. ~Cleared /\ FirstIsLast'
  <2>1. PICK c \in Nat : Pending = c + 1  BY <1>7
  <2>2. c + 1 # 0  OBVIOUS
  <2>. QED  BY <1>1, <2>1, <2>2, FirstTaken DEF ClearedOnce
<1>. HIDE DEF frames, f
<1>9. ASSUME Room(frames) >= Head(frames).len, PeerDelivers(frames), UNCHANGED inbox PROVE InStep'
  <2>1. p[2] = p[1] + 1 /\ n[2] = 0  BY <1>3, <1>5, <1>9
  <2>2. /\ DeliveredInOrder' /\ BegunInOrder' /\ ~OnLast'
        /\ Len(delivered') = Len(delivered) + 1 /\ Len(reception'.frames) = 0 /\ reception'.bs = 0
    BY <1>4, <1>5, <1>9, OrderDelivers
  <2>3. Joined'  BY <1>1, <1>2, <2>1, <2>2, PathTaken
  <2>4. ASSUME NEW i \in 2 .. Len(toPeer) + 1 PROVE p[1] < p[i]
    <3>1. 2 \in 1 .. Len(toPeer) + 1 /\ i \in 1 .. Len(toPeer) + 1 /\ 2 <= i  BY <1>2
    <3>2. NotAfter(p[2], n[2], p[i], n[i])  BY <1>2, <3>1 DEF Path, Rises
    <3>3. p[i] \in Nat  BY <1>2, <3>1
    <3>. QED  BY <1>2, <2>1, <3>2, <3>3 DEF NotAfter
  <2>5. CFs' = {}
    <3>. SUFFICES ASSUME NEW i \in CFs' PROVE FALSE
      OBVIOUS
    <3>1. i + 1 \in CFs /\ i \in Nat  BY <1>7
    <3>2. i + 1 \in 1 .. Len(toPeer) /\ toPeer[i + 1].kind = "CF"  BY <1>2, <3>1 DEF CFs, IsCF
    <3>3. i # 0
      <4>1. toPeer \in Seq(Wire)  BY DEF Types
      <4>2. DOMAIN toPeer' = 1 .. Len(toPeer) - 1  BY <1>1, <4>1, Tailed
      <4>3. i \in 1 .. Len(toPeer) - 1  BY <4>2 DEF CFs
      <4>. QED  BY <1>2, <4>3
    <3>4. i + 1 \in 2 .. Len(toPeer) + 1  BY <1>2, <3>1, <3>2, <3>3
    <3>5. p[1] < p[i + 1]  BY <2>4, <3>4
    <3>6. toPeer[i + 1].pdu = p[i + 1]  BY <1>2, <3>2 DEF Path, Leads, Follows
    <3>7. toPeer[i + 1].pdu = p[1]  BY <1>2, <3>1 DEF CFsAwaited
    <3>. QED  BY <1>2, <3>5, <3>6, <3>7
  <2>6. Pending' = 0 /\ CFsAwaited'
    <3>1. Cardinality({}) = 0  BY FS_EmptySet
    <3>. QED  BY <2>5, <3>1 DEF Pending, CFsAwaited
  <2>7. phase # "cf"
    <3>. SUFFICES ASSUME phase = "cf" PROVE FALSE
      OBVIOUS
    <3>1. Len(delivered) + 1 = Len(lens)  BY DEF BlockAgreed, OnLast
    <3>2. p[Len(toPeer) + 1] = p[1]  BY <1>2, <3>1 DEF EndsAt
    <3>3. Len(toPeer) + 1 \in 2 .. Len(toPeer) + 1  BY <1>2
    <3>4. p[1] < p[Len(toPeer) + 1]  BY <2>4, <3>3
    <3>. QED  BY <1>2, <3>2, <3>4
  <2>8. BlockAgreed'  BY <1>1, <2>2, <2>6, <2>7 DEF BlockAgreed
  <2>9. ClearedOnce'  BY <1>8, <1>9 DEF ClearedOnce, Cleared, Clears
  <2>. QED  BY <1>8, <2>2, <2>3, <2>6, <2>8, <2>9
<1>10. ASSUME ~(Room(frames) >= Head(frames).len), UNCHANGED delivered,
              reception'.frames = frames, reception'.bs = reception.bs
       PROVE  /\ Joined' /\ DeliveredInOrder' /\ BegunInOrder' /\ CFsAwaited' /\ OnLast' = OnLast
              /\ p[2] = p[1] /\ n[2] > 0
  <2>1. p[2] = p[1] /\ n[2] = n[1] + 1  BY <1>3, <1>5, <1>10
  <2>2. Joined'  BY <1>1, <1>2, <1>4, <1>10, <2>1, PathTaken
  <2>3. DeliveredInOrder'  BY <1>10 DEF DeliveredInOrder
  <2>4. BegunInOrder'  BY <1>1, <1>4, <1>10 DEF BegunInOrder
  <2>5. CFsAwaited'  BY <1>4, <1>7, <1>10 DEF CFsAwaited
  <2>6. OnLast' = OnLast  BY <1>1, <1>4, <1>10 DEF OnLast
  <2>7. n[2] > 0  BY <1>2, <2>1
  <2>. QED  BY <2>1, <2>2, <2>3, <2>4, <2>5, <2>6, <2>7
<1>11. PICK c \in Nat, g \in Nat, w \in Nat :
         /\ c = Pending' /\ Pending = c + 1 /\ g = reception.inBlock /\ w = reception.bs
         /\ w # 0 => g + (c + 1) <= w
  <2>1. reception.inBlock \in Nat /\ reception.bs \in 0 .. 255  BY DEF Types
  <2>2. \A v \in 0 .. 255 : v \in Nat  OBVIOUS
  <2>3. reception.bs \in Nat  BY <2>1, <2>2
  <2>. QED  BY <1>7, <2>1, <2>3 DEF BlockAgreed
<1>12. ASSUME ~(Room(frames) >= Head(frames).len), UNCHANGED <<delivered, inbox>>, ~full,
              reception'.frames = frames, reception'.bs = w, reception'.inBlock = g + 1
       PROVE  InStep'
  <2>1. /\ Joined' /\ DeliveredInOrder' /\ BegunInOrder' /\ CFsAwaited' /\ OnLast' = OnLast
    BY <1>10, <1>11, <1>12
  <2>2. (g + 1) + c = g + (c + 1)  OBVIOUS
  <2>3. BlockAgreed'
    <3>1. w # 0 => (g + 1) + c <= w  BY <1>11, <2>2
    <3>2. phase = "cf" => OnLast /\ bs = w /\ inBlock = (g + 1) + c /\ (bs # 0 => inBlock < bs)
      BY <1>11, <2>2 DEF BlockAgreed
    <3>3. phase = "fc" /\ OnLast => w # 0 /\ (g + 1) + c = w
      <4>1. c + 1 > 0  OBVIOUS
      <4>. QED  BY <1>11, <2>2, <4>1 DEF BlockAgreed
    <3>. QED  BY <1>1, <1>11, <1>12, <2>1, <3>1, <3>2, <3>3 DEF BlockAgreed
  <2>4. ClearedOnce'  BY <1>8, <1>12 DEF ClearedOnce, Cleared, Clears
  <2>. QED  BY <1>8, <2>1, <2>3, <2>4
<1>13. ASSUME ~(Room(frames) >= Head(frames).len), UNCHANGED delivered, full,
              reception'.frames = frames, reception'.bs = w, reception'.inBlock = 0,
              inbox' = Append(inbox, Flow("CTS", w))
       PROVE  InStep'
  <2>1. /\ Joined' /\ DeliveredInOrder' /\ BegunInOrder' /\ CFsAwaited' /\ OnLast' = OnLast
        /\ p[2] = p[1] /\ n[2] > 0
    BY <1>10, <1>11, <1>13
  <2>2. g + 1 = w  BY <1>11, <1>13
  <2>3. w # 0 /\ c = 0  BY <1>11, <2>2
  <2>4. Pending' = 0 /\ CFs' = {}
    <3>1. IsFiniteSet(CFs')
      <4>1. toPeer \in Seq(Wire)  BY DEF Types
      <4>2. DOMAIN toPeer' = 1 .. Len(toPeer) - 1  BY <1>1, <4>1, Tailed
      <4>3. IsFiniteSet(1 .. Len(toPeer) - 1)  BY <1>2, FS_Interval
      <4>4. CFs' \in SUBSET (1 .. Len(toPeer) - 1)  BY <4>2 DEF CFs
      <4>. QED  BY <4>3, <4>4, FS_Subset
    <3>. QED  BY <1>11, <2>3, <3>1, FS_EmptySet DEF Pending
  <2>5. phase = "fc" /\ OnLast
    <3>1. 2 \in 1 .. Len(toPeer) + 1  BY <1>2
    <3>2. ~\E j \in CFs : 2 <= j
      <4>. SUFFICES ASSUME NEW j \in CFs, 2 <= j PROVE FALSE
        OBVIOUS
      <4>1. toPeer \in Seq(Wire)  BY DEF Types
      <4>2. DOMAIN toPeer' = 1 .. Len(toPeer) - 1 /\ \A i \in DOMAIN toPeer' : toPeer'[i] = toPeer[i + 1]
        BY <1>1, <4>1, Tailed
      <4>3. j \in 1 .. Len(toPeer) /\ toPeer[j].kind = "CF"  BY <1>2 DEF CFs, IsCF
      <4>4. j - 1 \in 1 .. Len(toPeer) - 1 /\ (j - 1) + 1 = j  BY <1>2, <4>3
      <4>5. j - 1 \in CFs'  BY <4>2, <4>3, <4>4 DEF CFs, IsCF
      <4>. QED  BY <2>4, <4>5
    <3>3. p[2] = p[Len(toPeer) + 1] /\ n[2] = n[Len(toPeer) + 1]
      BY <1>2, <2>1, <3>1, <3>2 DEF Path, Supplied
    <3>4. phase \in {"fc", "cf"} /\ p[2] = Len(lens)
      BY <1>2, <2>1, <3>3 DEF EndsAt
    <3>5. phase # "cf"
      <4>1. phase = "cf" => w # 0 /\ g + (c + 1) < w  BY <1>11, <2>3 DEF BlockAgreed
      <4>2. g + (c + 1) = w  BY <2>2, <2>3
      <4>. QED  BY <1>11, <4>1, <4>2
    <3>6. OnLast  BY <1>2, <1>4, <2>1, <3>4 DEF OnLast
    <3>. QED  BY <3>4, <3>5, <3>6
  <2>6. BlockAgreed'  BY <1>1, <1>13, <2>4, <2>5 DEF BlockAgreed
  <2>7. ClearedOnce'
    <3>1. PICK k \in Inbox : inbox' = Append(inbox, k) /\ k.bs = w
      <4>. DEFINE h == Flow("CTS", w)
      <4>1. "CTS" \in {"CTS", "WT", "OVFLW"} /\ w \in 0 .. 255  BY <1>11 DEF Types
      <4>2. h \in Inbox /\ h.bs = w  BY <4>1, FlowTyped
      <4>. HIDE DEF h
      <4>3. inbox' = Append(inbox, h)  BY <1>13 DEF h
      <4>. QED  BY <4>2, <4>3
    <3>2. /\ \A i \in DOMAIN inbox' : i \in DOMAIN inbox \/ i = Len(inbox) + 1
          /\ \A i \in DOMAIN inbox : inbox'[i] = inbox[i]
          /\ inbox'[Len(inbox) + 1] = k
      BY <3>1, AppendGrows
    <3>3. \A i \in DOMAIN inbox' : Clears(inbox'[i]) => i = Len(inbox) + 1
      BY <1>8, <3>2 DEF Cleared
    <3>. QED
      BY <1>1, <1>13, <2>1, <2>4, <2>5, <3>1, <3>2, <3>3 DEF ClearedOnce, Clears
  <2>. QED  BY <1>8, <2>1, <2>6, <2>7
<1>14. \/ Room(frames) >= Head(frames).len /\ PeerDelivers(frames) /\ UNCHANGED inbox
       \/ /\ ~(Room(frames) >= Head(frames).len) /\ UNCHANGED delivered
          /\ reception' = [reception EXCEPT !.frames = frames, !.inBlock = IF full THEN 0 ELSE @ + 1]
          /\ inbox' = IF full THEN Append(inbox, Flow("CTS", reception.bs)) ELSE inbox
  BY <1>4, <1>6 DEF PeerTakesConsecutive, frames, f
<1>15. CASE Room(frames) >= Head(frames).len  BY <1>9, <1>14, <1>15
<1>16. CASE ~(Room(frames) >= Head(frames).len)
  <2>1. reception \in [frames : Seq(Wire), bs : 0 .. 255, inBlock : Nat]  BY DEF Types
  <2>2. /\ UNCHANGED delivered /\ reception'.frames = frames /\ reception'.bs = w
        /\ reception'.inBlock = IF full THEN 0 ELSE g + 1
        /\ inbox' = IF full THEN Append(inbox, Flow("CTS", w)) ELSE inbox
    BY <1>11, <1>14, <1>16, <2>1
  <2>. HIDE DEF full
  <2>3. CASE full  BY <1>13, <1>16, <2>2, <2>3
  <2>4. CASE ~full  BY <1>12, <1>16, <2>2, <2>4
  <2>. QED  BY <2>3, <2>4
<1>. QED  BY <1>15, <1>16

-----------------------------------------------------------------------------
(* The invariant, and what it is for *)

LEMMA NextTogether == IInv /\ Next => Together'
<1>. SUFFICES ASSUME IInv, Next, ~gaveUp' PROVE InStep' \/ TurnedDown'
  BY DEF Together
<1>. USE DEF IInv
<1>1. ASSUME UNCHANGED gaveUp PROVE InStep \/ TurnedDown
  BY <1>1 DEF Together
<1>2. ASSUME UNCHANGED <<phase, sendVars, toPeer, delivered, reception>>,
             ClearedOnce => ClearedOnce', ~Cleared => ~Cleared'
      PROVE  InStep' \/ TurnedDown'
  <2>1. InStep \/ TurnedDown  BY <1>1, <1>2 DEF sendVars
  <2>2. CASE InStep  BY <1>2, <2>2, InStepHolds DEF InStep
  <2>3. CASE TurnedDown
    BY <1>2, <2>3 DEF TurnedDown, DeliveredInOrder, sendVars
  <2>. QED  BY <2>1, <2>2, <2>3
<1>3. CASE \E len \in PduLens : SendSingle(len)
  <2>. PICK len \in PduLens : SendSingle(len)  BY <1>3
  <2>1. InStep  BY <1>1 DEF SendSingle, TurnedDown
  <2>. QED  BY <2>1, SendSingleInStep
<1>4. CASE \E len \in PduLens : SendFirst(len)
  <2>. PICK len \in PduLens : SendFirst(len)  BY <1>4
  <2>1. InStep  BY <1>1 DEF SendFirst, TurnedDown
  <2>. QED  BY <2>1, SendFirstInStep
<1>5. CASE TakeFlowControl
  <2>1. InStep \/ TurnedDown  BY <1>1, <1>5 DEF TakeFlowControl
  <2>. QED  BY <1>5, <2>1, TakeFlowControlInStep
<1>6. CASE TakeOtherFrame \/ FlowControlTimeout
  BY <1>6 DEF TakeOtherFrame, FlowControlTimeout
<1>7. CASE SendConsecutive
  <2>1. InStep  BY <1>1, <1>7 DEF SendConsecutive, TurnedDown
  <2>. QED  BY <1>7, <2>1, SendConsecutiveInStep
<1>8. CASE RecvPdu \/ FirstTimeout \/ ConsecutiveTimeout
  <2>1. /\ InStep /\ UNCHANGED <<lens, toPeer, delivered, reception, inbox>>
        /\ phase \notin {"fc", "cf"} /\ phase' \notin {"fc", "cf"}
    BY <1>1, <1>8
    DEF RecvPdu, FirstTimeout, ConsecutiveTimeout, TurnedDown, sendVars, peerVars
  <2>. QED  BY <2>1, SameShrinks, InStepReceiving
<1>9. CASE TakeLast \/ SkipForeign \/ TakeConsecutive
  <2>1. /\ InStep /\ UNCHANGED <<lens, toPeer, delivered, reception>>
        /\ phase \notin {"fc", "cf"} /\ phase' \notin {"fc", "cf"}
        /\ inbox # <<>> /\ inbox' = Tail(inbox)
    BY <1>1, <1>9 DEF TakeLast, SkipForeign, TakeConsecutive, TurnedDown, sendVars, peerVars
  <2>2. Shrinks  BY <2>1, TailShrinks
  <2>. QED  BY <2>1, <2>2, InStepReceiving
<1>10. CASE TakeFirst
  <2>1. InStep  BY <1>1, <1>10 DEF TakeFirst, TurnedDown, sendVars
  <2>. QED  BY <1>10, <2>1, TakeFirstInStep
<1>11. CASE PeerTakesSingle
  <2>1. InStep  BY <1>1, <1>11 DEF PeerTakesSingle, TurnedDown, sendVars
  <2>. QED  BY <1>11, <2>1, PeerTakesSingleInStep
<1>12. CASE PeerTakesFirst
  <2>1. InStep  BY <1>1, <1>12 DEF PeerTakesFirst, TurnedDown, sendVars
  <2>. QED  BY <1>12, <2>1, PeerTakesFirstTogether
<1>13. CASE PeerTakesConsecutive
  <2>1. InStep  BY <1>1, <1>13 DEF PeerTakesConsecutive, TurnedDown, sendVars
  <2>. QED  BY <1>13, <2>1, PeerTakesConsecutiveInStep
<1>14. CASE PeerTakesFlowControl
  <2>1. InStep  BY <1>1, <1>14 DEF PeerTakesFlowControl, TurnedDown, sendVars
  <2>. QED  BY <1>14, <2>1, PeerTakesFlowControlInStep
<1>15. ASSUME UNCHANGED <<phase, sendVars, toPeer, delivered, reception>>, Shrinks
       PROVE  InStep' \/ TurnedDown'
  <2>1. ClearedOnce => ClearedOnce'  BY <1>15, ClearedShrinks DEF sendVars
  <2>2. ~Cleared => ~Cleared'  BY <1>15, NotClearedShrinks
  <2>. QED  BY <1>2, <1>15, <2>1, <2>2
<1>16. ASSUME UNCHANGED <<phase, sendVars, toPeer, delivered, reception>>,
              NEW f \in Inbox, inbox' = Append(inbox, f), f.kind # "FC"
       PROVE  InStep' \/ TurnedDown'
  <2>1. ~Clears(f)  BY <1>16 DEF Clears
  <2>2. ClearedOnce => ClearedOnce'  BY <1>16, <2>1, ClearedGrows DEF sendVars
  <2>3. ~Cleared => ~Cleared'
    <3>1. \A i \in DOMAIN inbox' : (i \in DOMAIN inbox /\ inbox'[i] = inbox[i]) \/ inbox'[i] = f
      BY <1>16, AppendGrows
    <3>. QED  BY <2>1, <3>1 DEF Cleared, Clears
  <2>. QED  BY <1>2, <1>16, <2>2, <2>3
<1>17. CASE PeerForgets
  BY <1>15, <1>17, SameShrinks DEF PeerForgets
<1>18. CASE LoseFrame
  <2>1. UNCHANGED <<phase, sendVars, toPeer, delivered, reception>>  BY <1>18 DEF LoseFrame
  <2>2. Shrinks  BY <1>18, LostShrinks DEF LoseFrame
  <2>. QED  BY <1>15, <2>1, <2>2
<1>19. CASE PeerAnswers
  <2>1. PICK cfs \in AnswerCfs :
          inbox' = Append(inbox, Frame(IF cfs = 0 THEN "SF" ELSE "FF", answer.done + 1, 0, FirstBytes, 0))
    BY <1>19 DEF PeerAnswers
  <2>2. PICK f \in Inbox : inbox' = Append(inbox, f) /\ f.kind # "FC"
    <3>. DEFINE g == Frame(IF cfs = 0 THEN "SF" ELSE "FF", answer.done + 1, 0, FirstBytes, 0)
    <3>1. answer.done + 1 \in Nat /\ FirstBytes \in Nat
          /\ (IF cfs = 0 THEN "SF" ELSE "FF") \in {"SF", "FF", "CF"}
      BY DEF FirstBytes, Types
    <3>2. g \in Inbox /\ g.kind # "FC"  BY <3>1 DEF Frame, Inbox, OtherFrames
    <3>. HIDE DEF g
    <3>3. inbox' = Append(inbox, g)  BY <2>1 DEF g
    <3>. QED  BY <3>2, <3>3
  <2>3. UNCHANGED <<phase, sendVars, toPeer, delivered, reception>>  BY <1>19 DEF PeerAnswers
  <2>. QED  BY <1>16, <2>2, <2>3
<1>20. CASE PeerContinues
  <2>1. PICK f \in Inbox : inbox' = Append(inbox, f) /\ f.kind # "FC"
    <3>. DEFINE g == Frame("CF", answer.done, 0, FrameBytes, answer.sn)
    <3>1. answer.sn \in Nat /\ answer.done \in Nat /\ FrameBytes \in Nat  BY DEF Types, FrameBytes
    <3>2. g \in Inbox /\ g.kind # "FC"  BY <3>1 DEF Frame, Inbox, OtherFrames
    <3>3. inbox' = Append(inbox, g)  BY <1>20 DEF PeerContinues
    <3>. HIDE DEF g
    <3>. QED  BY <3>2, <3>3
  <2>2. UNCHANGED <<phase, sendVars, toPeer, delivered, reception>>  BY <1>20 DEF PeerContinues
  <2>. QED  BY <1>16, <2>1, <2>2
<1>. QED
  BY <1>3, <1>4, <1>5, <1>6, <1>7, <1>8, <1>9, <1>10, <1>11, <1>12, <1>13, <1>14, <1>17, <1>18,
     <1>19, <1>20
  DEF Next, SendStep, RecvStep, PeerStep

LEMMA InitInv == Init => IInv
<1>. SUFFICES ASSUME Init PROVE IInv
  OBVIOUS
<1>. USE DEF Init
<1>1. \A S : <<>> \in Seq(S) /\ Len(<<>>) = 0 /\ DOMAIN <<>> = {}  BY EmptySeq
<1>2. Types
  <2>1. MaxPdus \in Nat /\ MaxRecvs \in Nat /\ MaxLost \in Nat  BY IsoTpAssumption
  <2>2. reception \in [frames : Seq(Wire), bs : 0 .. 255, inBlock : Nat]  BY <1>1 DEF NoReception
  <2>3. offset \in 0 .. LengthRange + FrameBytes /\ seqNum \in 0 .. SnRange - 1
    BY DEF LengthRange, FrameBytes, SnRange
  <2>4. bs \in 0 .. 255 /\ recvs \in 0 .. MaxRecvs /\ lost \in 0 .. MaxLost /\ Len(lens) <= MaxPdus
    BY <1>1, <2>1
  <2>5. lens \in Seq(PduLens) /\ inbox \in Seq(Inbox) /\ toPeer \in Seq(Wire)
        /\ delivered \in Seq(Seq(Wire))
    BY <1>1
  <2>6. answer \in [done : Nat, cfs : Nat, sn : Nat] /\ inBlock \in Nat  OBVIOUS
  <2>7. phase \in {"idle", "fc", "cf", "first", "cfs"} /\ received \in {<<"none">>, <<"nothing">>, <<"raised">>}
        /\ returned \subseteq DOMAIN lens /\ gaveUp \in BOOLEAN
    OBVIOUS
  <2>. QED  BY <2>2, <2>3, <2>4, <2>5, <2>6, <2>7 DEF Types
<1>3. Sending  BY DEF Sending
<1>4. reception.frames = <<>> /\ reception.bs = 0  BY DEF NoReception
<1>5. Len(delivered) = 0 /\ Len(lens) = 0 /\ TakenUp = 0  BY <1>1, <1>4 DEF TakenUp
<1>6. PdusRise /\ AnswersKnown  BY <1>1, <1>5 DEF PdusRise, AnswersKnown
<1>7. Joined
  <2>. DEFINE p == [i \in 1 .. Len(toPeer) + 1 |-> 1]
              n == [i \in 1 .. Len(toPeer) + 1 |-> 0]
  <2>1. p \in [1 .. Len(toPeer) + 1 -> Nat] /\ n \in [1 .. Len(toPeer) + 1 -> Nat]  OBVIOUS
  <2>2. Len(toPeer) + 1 = 1 /\ 1 \in 1 .. 1 /\ \A i \in 1 .. 1 : i = 1  BY <1>1
  <2>3. \A i \in 1 .. 1 : p[i] = 1 /\ n[i] = 0  BY <2>2
  <2>. HIDE DEF p, n
  <2>4. Begins(p, n) /\ EndsAt(p[Len(toPeer) + 1], n[Len(toPeer) + 1])
    BY <1>1, <1>4, <1>5, <2>2, <2>3 DEF Begins, EndsAt
  <2>5. Leads(p, n)  BY <1>1 DEF Leads
  <2>6. Rises(p, n) /\ Supplied(p, n)  BY <2>2, <2>3 DEF Rises, Supplied, NotAfter
  <2>7. Path(p, n)  BY <2>4, <2>5, <2>6 DEF Path
  <2>. QED  BY <2>1, <2>7 DEF Joined
<1>8. DeliveredInOrder /\ BegunInOrder  BY <1>1, <1>4 DEF DeliveredInOrder, BegunInOrder
<1>9. BlockAgreed /\ CFsAwaited /\ FirstIsLast /\ ClearedOnce
  BY <1>1, <1>4 DEF BlockAgreed, CFsAwaited, CFs, FirstIsLast, ClearedOnce, Cleared
<1>10. Together  BY <1>7, <1>8, <1>9 DEF Together, InStep
<1>. QED  BY <1>2, <1>3, <1>6, <1>10 DEF IInv

LEMMA StutterInv == IInv /\ UNCHANGED vars => IInv'
<1>. SUFFICES ASSUME IInv, UNCHANGED vars PROVE IInv'
  OBVIOUS
<1>. USE DEF IInv, vars, sendVars, recvVars, peerVars
<1>1. Types'  BY DEF Types
<1>2. Sending' /\ PdusRise' /\ AnswersKnown'
  BY DEF Sending, Position, PdusRise, TakenUp, AnswersKnown
<1>3. ASSUME InStep PROVE InStep'
  <2>1. ClearedOnce'  BY <1>3, SameShrinks, ClearedShrinks DEF InStep
  <2>. QED  BY <1>3, <2>1, InStepHolds
<1>4. ASSUME TurnedDown PROVE TurnedDown'
  BY <1>4 DEF TurnedDown, DeliveredInOrder, Cleared
<1>5. Together'  BY <1>3, <1>4 DEF Together
<1>. QED  BY <1>1, <1>2, <1>5

LEMMA NextInv == IInv /\ [Next]_vars => IInv'
<1>. SUFFICES ASSUME IInv, Next PROVE IInv'
  BY StutterInv
<1>1. Types'
  BY TypesSend, TypesRecv, TypesPeer DEF Next
<1>. QED  BY <1>1, NextSending, NextRises, NextAnswers, NextTogether DEF IInv

LEMMA Invariance == Spec => []IInv
BY InitInv, NextInv, PTL DEF Spec

\* Every variable keeps its type; in a block there is something left to send,
\* and no PDU is received that the peer did not answer.
THEOREM IsoTpTypeCorrect == Spec => []TypeOK
<1>1. IInv => TypeOK
  <2>. SUFFICES ASSUME IInv PROVE TypeOK
    OBVIOUS
  <2>. USE DEF IInv
  <2>1. phase = "cf" => offset < Last(lens)  BY DEF Sending, Position, Last
  <2>2. \A i \in DOMAIN inbox : inbox[i].kind \in {"SF", "FF", "CF", "FC"}
    <3>1. inbox \in Seq(Inbox)  BY DEF Types
    <3>2. \A i \in DOMAIN inbox : inbox[i] \in Inbox  BY <3>1, ElementOfSeq, LenProperties
    <3>. QED  BY <3>2, FramesTyped
  <2>. QED  BY <2>1, <2>2 DEF Types, TypeOK
<1>. QED  BY <1>1, Invariance, PTL

\* The peer is never sent more frames than the block it granted, whatever the
\* length of the PDU and the size of the block.
THEOREM BlocksAreHonoured == Spec => []BlockHonoured
<1>1. IInv => BlockHonoured
  <2>. SUFFICES ASSUME IInv, ~gaveUp, reception.bs # 0
                PROVE  reception.inBlock + Pending <= reception.bs
    BY DEF BlockHonoured, Pending, CFs, IsCF
  <2>1. CASE InStep  BY <2>1 DEF InStep, BlockAgreed
  <2>2. CASE TurnedDown  BY <2>2 DEF TurnedDown, NoReception
  <2>. QED  BY <2>1, <2>2 DEF IInv, Together
<1>. QED  BY <1>1, Invariance, PTL

\* Once the peer has read it all, it has every PDU whose send_pdu returned.
THEOREM SentPdusAreDelivered == Spec => []SentIsDelivered
<1>1. IInv => SentIsDelivered
  <2>. SUFFICES ASSUME IInv, ~gaveUp, toPeer = <<>>, NEW q \in returned
                PROVE  \E i \in DOMAIN delivered : Head(delivered[i]).pdu = q
    BY DEF SentIsDelivered, ToSet
  <2>. USE DEF IInv
  <2>1. PICK k \in Nat, d \in Nat : k = Len(lens) /\ d = Len(delivered) /\ DOMAIN delivered = 1 .. d
    BY LenProperties DEF Types
  <2>2. q \in 1 .. k  BY <2>1, LengthsBounded DEF Types
  <2>3. DeliveredInOrder  BY DEF Together, InStep, TurnedDown
  <2>4. phase \in {"fc", "cf"} => q # k  BY <2>1 DEF Sending, Position
  <2>5. (d + 1 = k /\ phase \in {"fc", "cf"}) \/ d = k
    <3>1. CASE TurnedDown  BY <2>1, <3>1 DEF TurnedDown
    <3>2. CASE InStep
      <4>1. PICK p, n \in [1 .. Len(toPeer) + 1 -> Nat] : Path(p, n)  BY <3>2 DEF InStep, Joined
      <4>2. Len(toPeer) + 1 = 1  BY EmptySeq
      <4>3. p[1] = d + 1 /\ EndsAt(p[1], n[1])  BY <2>1, <4>1, <4>2 DEF Path, Begins
      <4>4. (p[1] = k /\ phase \in {"fc", "cf"}) \/ p[1] = k + 1  BY <2>1, <4>3 DEF EndsAt
      <4>. QED  BY <2>1, <4>3, <4>4
    <3>. QED  BY <3>1, <3>2 DEF Together
  <2>6. q \in DOMAIN delivered  BY <2>1, <2>2, <2>4, <2>5
  <2>7. delivered[q] # <<>> /\ delivered[q][1].pdu = q  BY <2>3, <2>6 DEF DeliveredInOrder
  <2>8. Head(delivered[q]) = delivered[q][1]
    <3>1. delivered \in Seq(Seq(Wire))  BY DEF Types
    <3>2. delivered[q] \in Seq(Wire)  BY <2>1, <2>6, <3>1, ElementOfSeq
    <3>. QED  BY <2>7, <3>2, Tailed
  <2>. QED  BY <2>6, <2>7, <2>8
<1>. QED  BY <1>1, Invariance, PTL

-----------------------------------------------------------------------------
(* Frames are put together in the order they were sent in *)

\* A frame of a PDU that send_pdu was given, cut where it is cut there.  The
\* one that ends the PDU is sent by the step in which send_pdu returns.
Genuine(f, sent, done) ==
  f.kind # "FC" =>
    /\ f.pdu \in DOMAIN sent
    /\ f.kind = "SF" => f.from = 0 /\ f.n = sent[f.pdu] /\ f.pdu \in done
    /\ f.kind = "FF" =>
         f.from = 0 /\ f.n = FirstBytes /\ f.len = sent[f.pdu] /\ sent[f.pdu] > FrameBytes
    /\ f.kind = "CF" =>
         /\ f.from < sent[f.pdu]
         /\ f.n = IF sent[f.pdu] - f.from < FrameBytes THEN sent[f.pdu] - f.from ELSE FrameBytes
         /\ End(f) >= sent[f.pdu] => f.pdu \in done

\* What comes before a consecutive frame is the frame before it.
Precedes(g, f) ==
  f.kind = "CF" => g.kind \in {"FF", "CF"} /\ f.pdu = g.pdu /\ f.from = End(g)

OnTheWire ==
  /\ \A i \in DOMAIN toPeer : Genuine(toPeer[i], lens, returned)
  /\ \A i \in DOMAIN toPeer : i + 1 \in DOMAIN toPeer => Precedes(toPeer[i], toPeer[i + 1])
  /\ reception.frames # <<>> /\ toPeer # <<>> => Precedes(Last(reception.frames), toPeer[1])

\* The task goes on where the last frame it sent ends.
Current(f, p, end) == f.kind \in {"FF", "CF"} /\ f.pdu = p /\ End(f) = end

GoesOn ==
  phase \in {"fc", "cf"} =>
    /\ toPeer # <<>> => Current(Last(toPeer), Len(lens), offset)
    /\ toPeer = <<>> /\ reception.frames # <<>> => Current(Last(reception.frames), Len(lens), offset)

\* The beginning of a PDU: all its frames but the last one are full.
Beginning(frames, sent, done) ==
  /\ frames[1].kind = "FF"
  /\ \A i \in DOMAIN frames : Genuine(frames[i], sent, done) /\ frames[i].pdu = frames[1].pdu
  /\ \A i \in DOMAIN frames :
       i > 1 => /\ frames[i].kind = "CF" /\ frames[i].from = End(frames[i - 1])
                /\ frames[i].from = FirstBytes + FrameBytes * (i - 2)

AllIntact ==
  \A i \in DOMAIN delivered :
    delivered[i] # <<>> /\ delivered[i][1].pdu \in DOMAIN lens /\ Intact(delivered[i])

\* The PDU that arrived last, and the one that the peer began last.
Arrived == IF delivered = <<>> THEN 0 ELSE Head(Last(delivered)).pdu
Newest == IF reception.frames = <<>> THEN Arrived ELSE reception.frames[1].pdu

PdusArriveInOrder ==
  /\ Arrived <= Len(lens)
  /\ reception.frames # <<>> => Arrived < Newest
  /\ \A i \in DOMAIN toPeer : Starts(toPeer[i]) => Newest < toPeer[i].pdu

Unbroken ==
  /\ OnTheWire /\ GoesOn /\ AllIntact /\ PdusArriveInOrder
  /\ reception.frames # <<>> => Beginning(reception.frames, lens, returned)

-----------------------------------------------------------------------------
(* How the parts of Unbroken are kept *)

Grown ==
  /\ Len(lens) <= Len(lens')
  /\ \A p \in DOMAIN lens : p \in DOMAIN lens' /\ lens'[p] = lens[p]
  /\ returned \subseteq returned'

LEMMA GenuineKept ==
  ASSUME Grown, NEW f, Genuine(f, lens, returned) PROVE Genuine(f, lens', returned')
BY DEF Grown, Genuine

LEMMA BeginningKept ==
  ASSUME Grown, NEW frames, Beginning(frames, lens, returned)
  PROVE  Beginning(frames, lens', returned')
BY GenuineKept DEF Beginning

LEMMA IntactKept ==
  ASSUME Grown, UNCHANGED delivered, AllIntact PROVE AllIntact'
<1>. SUFFICES ASSUME NEW i \in DOMAIN delivered
              PROVE  /\ delivered[i] # <<>> /\ delivered[i][1].pdu \in DOMAIN lens'
                     /\ Intact(delivered[i])'
  BY DEF AllIntact
<1>1. delivered[i] # <<>> /\ delivered[i][1].pdu \in DOMAIN lens /\ Intact(delivered[i])
  BY DEF AllIntact
<1>2. delivered[i][1] = Head(delivered[i])  OBVIOUS
<1>3. lens'[Head(delivered[i]).pdu] = lens[Head(delivered[i]).pdu]  BY <1>1, <1>2 DEF Grown
<1>4. Intact(delivered[i])'  BY <1>1, <1>3 DEF Intact
<1>. QED  BY <1>1, <1>4 DEF Grown

LEMMA InOrderTyped ==
  ASSUME Types, Unbroken
  PROVE  Arrived \in Nat /\ Newest \in Nat /\ Arrived <= Newest /\ Newest <= Len(lens)
<1>1. \A p \in DOMAIN lens : p \in Nat /\ p <= Len(lens)  BY LengthsBounded
<1>2. Arrived \in Nat
  <2>1. CASE delivered = <<>>  BY <2>1 DEF Arrived
  <2>2. CASE delivered # <<>>
    <3>1. delivered \in Seq(Seq(Wire))  BY DEF Types
    <3>2. PICK k \in Nat \ {0} : k = Len(delivered) /\ DOMAIN delivered = 1 .. k
      BY <2>2, <3>1, EmptySeq, LenProperties
    <3>3. k \in DOMAIN delivered /\ Last(delivered) = delivered[k]  BY <3>2 DEF Last
    <3>4. delivered[k] # <<>> /\ delivered[k][1].pdu \in DOMAIN lens
      BY <3>3 DEF Unbroken, AllIntact
    <3>5. Head(delivered[k]) = delivered[k][1]  OBVIOUS
    <3>. QED  BY <1>1, <2>2, <3>3, <3>4, <3>5 DEF Arrived
  <2>. QED  BY <2>1, <2>2
<1>3. CASE reception.frames = <<>>
  <2>1. Newest = Arrived  BY <1>3 DEF Newest
  <2>. QED  BY <1>2, <2>1 DEF Unbroken, PdusArriveInOrder
<1>4. CASE reception.frames # <<>>
  <2>1. reception.frames \in Seq(Wire)  BY DEF Types
  <2>2. 1 \in DOMAIN reception.frames  BY <1>4, <2>1, Tailed
  <2>3. reception.frames[1].pdu \in DOMAIN lens
    BY <1>4, <2>2 DEF Unbroken, Beginning, Genuine
  <2>4. Newest \in Nat /\ Newest <= Len(lens)  BY <1>1, <1>4, <2>3 DEF Newest
  <2>5. Arrived < Newest  BY <1>4 DEF Unbroken, PdusArriveInOrder
  <2>. QED  BY <1>2, <2>4, <2>5
<1>. QED  BY <1>3, <1>4

LEMMA UnbrokenQuiet ==
  ASSUME Unbroken, UNCHANGED <<toPeer, reception, delivered, lens, returned, offset>>,
         phase' \in {"fc", "cf"} => phase \in {"fc", "cf"}
  PROVE  Unbroken'
<1>1. OnTheWire'  BY DEF Unbroken, OnTheWire
<1>2. GoesOn'  BY DEF Unbroken, GoesOn
<1>3. AllIntact'
  <2>1. Grown  BY DEF Grown
  <2>. QED  BY <2>1, IntactKept DEF Unbroken
<1>4. PdusArriveInOrder'  BY DEF Unbroken, PdusArriveInOrder, Arrived, Newest
<1>5. (reception.frames # <<>> => Beginning(reception.frames, lens, returned))'  BY DEF Unbroken
<1>. QED  BY <1>1, <1>2, <1>3, <1>4, <1>5 DEF Unbroken

\* The task sends f.
LEMMA UnbrokenSends ==
  ASSUME Types, Unbroken, Grown, UNCHANGED <<reception, delivered>>,
         NEW f \in Wire, toPeer' = Append(toPeer, f), Genuine(f, lens', returned'),
         toPeer # <<>> => Precedes(Last(toPeer), f),
         toPeer = <<>> /\ reception.frames # <<>> => Precedes(Last(reception.frames), f),
         Starts(f) => Newest < f.pdu,
         phase' \in {"fc", "cf"} => Current(f, Len(lens'), offset'),
         Len(lens) \in Nat, Len(lens') \in Nat
  PROVE  Unbroken'
<1>1. PICK k \in Nat : k = Len(toPeer) /\ DOMAIN toPeer = 1 .. k
  <2>1. toPeer \in Seq(Wire)  BY DEF Types
  <2>. QED  BY <2>1, LenProperties
<1>2. /\ toPeer' \in Seq(Wire) /\ Len(toPeer') = k + 1 /\ DOMAIN toPeer' = 1 .. k + 1
      /\ toPeer'[k + 1] = f /\ toPeer' # <<>>
      /\ \A i \in 1 .. k : toPeer'[i] = toPeer[i]
  <2>1. toPeer \in Seq(Wire)  BY DEF Types
  <2>. QED  BY <1>1, <2>1, Appended
<1>3. k # 0 => toPeer # <<>> /\ Last(toPeer) = toPeer[k]
  <2>1. Len(<<>>) = 0  BY EmptySeq
  <2>. QED  BY <1>1, <2>1 DEF Last
<1>4. k = 0 => toPeer = <<>>
  <2>1. toPeer \in Seq(Wire)  BY DEF Types
  <2>. QED  BY <1>1, <2>1, EmptySeq
<1>5. OnTheWire'
  <2>1. \A i \in DOMAIN toPeer' : Genuine(toPeer'[i], lens', returned')
    <3>. TAKE i \in DOMAIN toPeer'
    <3>1. CASE i \in 1 .. k
      <4>1. Genuine(toPeer[i], lens, returned)  BY <1>1, <3>1 DEF Unbroken, OnTheWire
      <4>2. Genuine(toPeer[i], lens', returned')  BY <4>1, GenuineKept
      <4>. QED  BY <1>2, <3>1, <4>2
    <3>2. CASE i \notin 1 .. k
      <4>1. i = k + 1  BY <1>1, <1>2, <3>2
      <4>. QED  BY <1>2, <4>1
    <3>. QED  BY <3>1, <3>2
  <2>2. ASSUME NEW i \in DOMAIN toPeer', i + 1 \in DOMAIN toPeer'
        PROVE  Precedes(toPeer'[i], toPeer'[i + 1])
    <3>1. i \in 1 .. k  BY <1>1, <1>2, <2>2
    <3>2. CASE i = k
      <4>1. Precedes(toPeer[k], f)  BY <1>3, <3>1, <3>2
      <4>. QED  BY <1>2, <3>1, <3>2, <4>1
    <3>3. CASE i # k
      <4>1. i + 1 \in 1 .. k  BY <1>1, <3>1, <3>3
      <4>2. Precedes(toPeer[i], toPeer[i + 1])  BY <1>1, <3>1, <4>1 DEF Unbroken, OnTheWire
      <4>. QED  BY <1>2, <3>1, <4>1, <4>2
    <3>. QED  BY <3>2, <3>3
  <2>3. ASSUME reception.frames # <<>> PROVE Precedes(Last(reception.frames), toPeer'[1])
    <3>1. CASE k = 0  BY <1>2, <1>4, <2>3, <3>1
    <3>2. CASE k # 0
      <4>1. 1 \in 1 .. k  BY <1>1, <3>2
      <4>2. Precedes(Last(reception.frames), toPeer[1])
        BY <1>3, <2>3, <3>2 DEF Unbroken, OnTheWire
      <4>. QED  BY <1>2, <4>1, <4>2
    <3>. QED  BY <3>1, <3>2
  <2>. QED  BY <2>1, <2>2, <2>3 DEF OnTheWire
<1>6. GoesOn'
  <2>1. Last(toPeer') = f  BY <1>1, <1>2 DEF Last
  <2>. QED  BY <1>2, <2>1 DEF GoesOn
<1>7. AllIntact'  BY IntactKept DEF Unbroken
<1>8. PdusArriveInOrder'
  <2>1. Arrived' = Arrived /\ Newest' = Newest  BY DEF Arrived, Newest
  <2>2. Arrived \in Nat /\ Newest \in Nat /\ Arrived <= Len(lens)
    BY InOrderTyped DEF Unbroken, PdusArriveInOrder
  <2>3. Arrived <= Len(lens')  BY <2>2 DEF Grown
  <2>4. ASSUME NEW i \in DOMAIN toPeer', Starts(toPeer'[i]) PROVE Newest < toPeer'[i].pdu
    <3>1. CASE i \in 1 .. k
      BY <1>1, <1>2, <2>4, <3>1 DEF Unbroken, PdusArriveInOrder
    <3>2. CASE i \notin 1 .. k
      <4>1. i = k + 1  BY <1>1, <1>2, <3>2
      <4>. QED  BY <1>2, <2>4, <4>1
    <3>. QED  BY <3>1, <3>2
  <2>5. reception.frames # <<>> => Arrived < Newest  BY DEF Unbroken, PdusArriveInOrder
  <2>. QED  BY <2>1, <2>3, <2>4, <2>5 DEF PdusArriveInOrder
<1>9. reception.frames # <<>> => Beginning(reception.frames, lens', returned')
  BY BeginningKept DEF Unbroken
<1>. QED  BY <1>5, <1>6, <1>7, <1>8, <1>9 DEF Unbroken

LEMMA SendsUnbroken ==
  ASSUME Types, Sending, Unbroken,
         \/ \E len \in PduLens : SendSingle(len) \/ SendFirst(len)
         \/ SendConsecutive \/ TakeFirst
  PROVE  Unbroken'
<1>1. lens \in Seq(PduLens) /\ Len(lens) \in Nat /\ DOMAIN lens = 1 .. Len(lens)
  BY LengthsBounded DEF Types
<1>2. ASSUME NEW len \in PduLens, lens' = Append(lens, len), returned \subseteq returned'
      PROVE  /\ Grown /\ Len(lens') = Len(lens) + 1 /\ Len(lens') \in Nat /\ len \in Nat
             /\ Len(lens') \in DOMAIN lens' /\ lens'[Len(lens')] = len
             /\ Newest < Len(lens')
  <2>1. /\ Len(lens') = Len(lens) + 1 /\ DOMAIN lens' = 1 .. Len(lens) + 1
        /\ \A i \in DOMAIN lens : i \in DOMAIN lens' /\ lens'[i] = lens[i]
        /\ lens'[Len(lens) + 1] = len
    BY <1>1, <1>2, Appended
  <2>2. len \in 0 .. LengthRange - 1  BY IsoTpAssumption
  <2>3. len \in Nat  BY <2>2 DEF LengthRange
  <2>4. Newest \in Nat /\ Newest <= Len(lens)  BY InOrderTyped
  <2>. QED  BY <1>1, <1>2, <2>1, <2>3, <2>4 DEF Grown
<1>3. CASE \E len \in PduLens : SendSingle(len)
  <2>. PICK len \in PduLens : SendSingle(len)  BY <1>3
  <2>1. /\ lens' = Append(lens, len) /\ toPeer' = Append(toPeer, Frame("SF", Len(lens'), 0, len, 0))
        /\ returned' = returned \cup {Len(lens')} /\ phase' = "idle"
        /\ UNCHANGED <<reception, delivered>>
    BY DEF SendSingle, peerVars
  <2>2. /\ Grown /\ Len(lens') \in Nat /\ len \in Nat /\ Newest < Len(lens')
        /\ Len(lens') \in DOMAIN lens' /\ lens'[Len(lens')] = len
    BY <1>2, <2>1
  <2>3. PICK f \in Wire : f = Frame("SF", Len(lens'), 0, len, 0)  BY <2>2, FrameTyped
  <2>4. f.kind = "SF" /\ f.pdu = Len(lens') /\ f.from = 0 /\ f.n = len  BY <2>3 DEF Frame
  <2>5. Genuine(f, lens', returned')  BY <2>1, <2>2, <2>4 DEF Genuine
  <2>6. \A g : Precedes(g, f)  BY <2>4 DEF Precedes
  <2>. QED  BY <1>1, <2>1, <2>2, <2>3, <2>4, <2>5, <2>6, UnbrokenSends
<1>4. CASE \E len \in PduLens : SendFirst(len)
  <2>. PICK len \in PduLens : SendFirst(len)  BY <1>4
  <2>1. /\ lens' = Append(lens, len) /\ toPeer' = Append(toPeer, FirstFrame(Len(lens'), len))
        /\ returned' = returned /\ offset' = FirstBytes /\ len > FrameBytes
        /\ UNCHANGED <<reception, delivered>>
    BY DEF SendFirst, peerVars
  <2>2. /\ Grown /\ Len(lens') \in Nat /\ len \in Nat /\ Newest < Len(lens')
        /\ Len(lens') \in DOMAIN lens' /\ lens'[Len(lens')] = len
    BY <1>2, <2>1
  <2>3. PICK f \in Wire : f = FirstFrame(Len(lens'), len) /\ f.len = len  BY <2>2, FirstFrameTyped
  <2>4. f.kind = "FF" /\ f.pdu = Len(lens') /\ f.from = 0 /\ f.n = FirstBytes  BY <2>3 DEF FirstFrame
  <2>5. Genuine(f, lens', returned')  BY <2>1, <2>2, <2>3, <2>4 DEF Genuine
  <2>6. \A g : Precedes(g, f)  BY <2>4 DEF Precedes
  <2>7. Current(f, Len(lens'), offset')  BY <2>1, <2>4 DEF Current, End, FirstBytes
  <2>. QED  BY <1>1, <2>1, <2>2, <2>3, <2>4, <2>5, <2>6, <2>7, UnbrokenSends
<1>5. CASE SendConsecutive
  <2>. DEFINE p == Len(lens)
  <2>0. /\ phase = "cf" /\ toPeer' = Append(toPeer, Chunk(p, offset)) /\ UNCHANGED lens
        /\ offset' = offset + Chunk(p, offset).n /\ UNCHANGED <<reception, delivered>>
        /\ returned' = IF offset' >= lens[p] THEN returned \cup {p} ELSE returned
    BY <1>5 DEF SendConsecutive, peerVars
  <2>1. PICK n \in Nat : Position(n)  BY <2>0 DEF Sending
  <2>2. PICK f \in Wire : f = Chunk(p, offset)  BY <2>1, NextChunk
  <2>3. /\ f.kind = "CF" /\ f.pdu = p /\ f.from = offset
        /\ f.n = IF lens[p] - offset < FrameBytes THEN lens[p] - offset ELSE FrameBytes
    BY <2>2 DEF Chunk, Frame
  <2>4. p \in DOMAIN lens /\ offset < lens[p]  BY <2>1, NextChunk DEF Position
  <2>5. End(f) = offset' /\ (offset' >= lens[p] => p \in returned')  BY <2>0, <2>2, <2>3 DEF End
  <2>6. Genuine(f, lens', returned')
    <3>. HIDE DEF p
    <3>. QED  BY <2>0, <2>3, <2>4, <2>5 DEF Genuine
  <2>7. Grown  BY <1>1, <2>0 DEF Grown
  <2>8. \A g : Current(g, p, offset) => Precedes(g, f)  BY <2>3 DEF Current, Precedes
  <2>9. /\ toPeer # <<>> => Precedes(Last(toPeer), f)
        /\ toPeer = <<>> /\ reception.frames # <<>> => Precedes(Last(reception.frames), f)
    BY <2>0, <2>8 DEF Unbroken, GoesOn
  <2>10. ~Starts(f) /\ Current(f, Len(lens'), offset')  BY <2>0, <2>3, <2>5 DEF Starts, Current
  <2>. QED  BY <1>1, <2>0, <2>2, <2>6, <2>7, <2>9, <2>10, UnbrokenSends
<1>6. CASE TakeFirst
  <2>1. /\ toPeer' = Append(toPeer, Flow("CTS", OwnBlockSize)) /\ phase' = "cfs"
        /\ UNCHANGED <<lens, returned, reception, delivered>>
    BY <1>6 DEF TakeFirst, sendVars, peerVars
  <2>2. PICK f \in Wire : f = Flow("CTS", OwnBlockSize) /\ f.kind = "FC"
    BY OwnFlowTyped
  <2>3. Grown  BY <1>1, <2>1 DEF Grown
  <2>4. Genuine(f, lens', returned') /\ ~Starts(f) /\ \A g : Precedes(g, f)
    BY <2>2 DEF Genuine, Starts, Precedes
  <2>. QED  BY <1>1, <2>1, <2>2, <2>3, <2>4, UnbrokenSends
<1>. QED  BY <1>3, <1>4, <1>5, <1>6

\* The peer takes a frame: it has it as the last one of what it receives, or
\* drops what it was receiving.
LEMMA UnbrokenTakes ==
  ASSUME Types, PdusRise, Unbroken, toPeer # <<>>, toPeer' = Tail(toPeer),
         UNCHANGED <<phase, lens, returned, offset>>, AllIntact',
         \/ reception'.frames = <<>>
         \/ /\ Beginning(reception'.frames, lens, returned)
            /\ \/ Last(reception'.frames) = Head(toPeer)
               \/ Head(toPeer).kind = "FC" /\ reception'.frames = reception.frames,
         Arrived' \in Nat, Newest' \in Nat, Arrived' <= Len(lens),
         reception'.frames # <<>> => Arrived' < Newest',
         Newest' <= Newest \/ (Starts(Head(toPeer)) /\ Newest' = Head(toPeer).pdu)
  PROVE  Unbroken'
<1>1. PICK k \in Nat \ {0} : k = Len(toPeer) /\ DOMAIN toPeer = 1 .. k
  <2>1. toPeer \in Seq(Wire)  BY DEF Types
  <2>. QED  BY <2>1, Tailed
<1>2. /\ toPeer' \in Seq(Wire) /\ Len(toPeer') = k - 1 /\ DOMAIN toPeer' = 1 .. k - 1
      /\ Head(toPeer) = toPeer[1] /\ \A i \in 1 .. k - 1 : toPeer'[i] = toPeer[i + 1]
      /\ \A i \in 1 .. k : toPeer[i] \in Wire
  <2>1. toPeer \in Seq(Wire)  BY DEF Types
  <2>2. \A i \in 1 .. k : toPeer[i] \in Wire  BY <1>1, <2>1, ElementOfSeq
  <2>. QED  BY <1>1, <2>1, <2>2, Tailed
<1>3. toPeer' = <<>> => k = 1
  <2>. SUFFICES ASSUME toPeer' = <<>> PROVE k = 1
    OBVIOUS
  <2>1. k - 1 = 0  BY <1>2, EmptySeq
  <2>. QED  BY <2>1
<1>4. toPeer' # <<>> => 1 \in 1 .. k - 1 /\ 2 \in 1 .. k
  <2>1. toPeer' # <<>> => k - 1 # 0  BY <1>2, EmptySeq
  <2>. QED  BY <2>1
<1>5. \A i \in 1 .. k - 1 : i + 1 \in 1 .. k /\ 1 < i + 1  OBVIOUS
<1>6. OnTheWire'
  <2>1. \A i \in DOMAIN toPeer' : Genuine(toPeer'[i], lens', returned')
    BY <1>1, <1>2, <1>5 DEF Unbroken, OnTheWire
  <2>2. ASSUME NEW i \in DOMAIN toPeer', i + 1 \in DOMAIN toPeer'
        PROVE  Precedes(toPeer'[i], toPeer'[i + 1])
    <3>1. i + 1 \in 1 .. k /\ (i + 1) + 1 \in 1 .. k  BY <1>2, <1>5, <2>2
    <3>2. Precedes(toPeer[i + 1], toPeer[(i + 1) + 1])  BY <1>1, <3>1 DEF Unbroken, OnTheWire
    <3>. QED  BY <1>2, <2>2, <3>2
  <2>3. ASSUME reception'.frames # <<>>, toPeer' # <<>>
        PROVE  Precedes(Last(reception'.frames), toPeer'[1])
    <3>1. toPeer'[1] = toPeer[2]
      <4>1. 1 + 1 = 2  OBVIOUS
      <4>. QED  BY <1>2, <1>4, <2>3, <4>1
    <3>2. Precedes(toPeer[1], toPeer[2])
      <4>1. 1 \in 1 .. k /\ 1 + 1 = 2  BY <1>1
      <4>2. Precedes(toPeer[1], toPeer[1 + 1])
        BY <1>1, <1>4, <2>3, <4>1 DEF Unbroken, OnTheWire
      <4>. QED  BY <4>1, <4>2
    <3>3. CASE Last(reception'.frames) = Head(toPeer)  BY <1>2, <3>1, <3>2, <3>3
    <3>4. CASE Head(toPeer).kind = "FC"
      <4>1. toPeer[2].kind # "CF"  BY <1>2, <3>2, <3>4 DEF Precedes
      <4>. QED  BY <3>1, <4>1 DEF Precedes
    <3>. QED  BY <2>3, <3>3, <3>4
  <2>. QED  BY <2>1, <2>2, <2>3 DEF OnTheWire
<1>7. GoesOn'
  <2>. SUFFICES ASSUME phase \in {"fc", "cf"}
                PROVE  /\ toPeer' # <<>> => Current(Last(toPeer'), Len(lens), offset)
                       /\ toPeer' = <<>> /\ reception'.frames # <<>> =>
                            Current(Last(reception'.frames), Len(lens), offset)
    BY DEF GoesOn
  <2>1. Current(toPeer[k], Len(lens), offset)  BY <1>1 DEF Unbroken, GoesOn, Last
  <2>2. ASSUME toPeer' # <<>> PROVE Last(toPeer') = toPeer[k]
    <3>1. k - 1 \in 1 .. k - 1 /\ (k - 1) + 1 = k  BY <1>4, <2>2
    <3>2. toPeer'[k - 1] = toPeer[k]  BY <1>2, <3>1
    <3>. QED  BY <1>2, <3>2 DEF Last
  <2>3. ASSUME toPeer' = <<>>, reception'.frames # <<>>
        PROVE  Current(Last(reception'.frames), Len(lens), offset)
    <3>1. toPeer[k] = Head(toPeer)  BY <1>2, <1>3, <2>3
    <3>2. Head(toPeer).kind # "FC"  BY <2>1, <3>1 DEF Current
    <3>. QED  BY <2>1, <2>3, <3>1, <3>2
  <2>. QED  BY <2>1, <2>2, <2>3
<1>8. PdusArriveInOrder'
  <2>1. ASSUME NEW i \in DOMAIN toPeer', Starts(toPeer'[i]) PROVE Newest' < toPeer'[i].pdu
    <3>1. /\ toPeer'[i] = toPeer[i + 1] /\ i + 1 \in DOMAIN toPeer /\ 1 \in DOMAIN toPeer /\ 1 < i + 1
          /\ Starts(toPeer[i + 1])
      BY <1>1, <1>2, <1>5, <2>1
    <3>2. toPeer[i + 1].pdu \in Nat
      <4>1. toPeer[i + 1] \in Wire  BY <1>1, <1>2, <3>1
      <4>2. toPeer[i + 1].kind # "FC"  BY <3>1 DEF Starts
      <4>. QED  BY <4>1, <4>2, FramesTyped
    <3>3. CASE Newest' <= Newest
      <4>1. Newest < toPeer[i + 1].pdu  BY <3>1 DEF Unbroken, PdusArriveInOrder
      <4>2. Newest \in Nat  BY InOrderTyped
      <4>. QED  BY <3>1, <3>2, <3>3, <4>1, <4>2
    <3>4. CASE Starts(Head(toPeer)) /\ Newest' = Head(toPeer).pdu
      <4>1. toPeer[1].pdu < toPeer[i + 1].pdu  BY <1>2, <3>1, <3>4 DEF PdusRise
      <4>. QED  BY <1>2, <3>1, <3>4, <4>1
    <3>. QED  BY <3>3, <3>4
  <2>. QED  BY <2>1 DEF PdusArriveInOrder
<1>. QED  BY <1>6, <1>7, <1>8 DEF Unbroken

LEMMA BeginningContinues ==
  ASSUME Types, NEW fs \in Seq(Wire), fs # <<>>, NEW f \in Wire, f.kind = "CF",
         Beginning(fs, lens, returned), Genuine(f, lens, returned), Precedes(Last(fs), f),
         NEW frames, frames = Append(fs, f)
  PROVE  /\ frames \in Seq(Wire) /\ frames # <<>> /\ Last(frames) = f
         /\ frames[1] = fs[1] /\ frames[1].pdu \in DOMAIN lens
         /\ Beginning(frames, lens, returned)
         /\ Room(frames) >= Head(frames).len => Intact(frames) /\ f.pdu \in returned
<1>1. PICK k \in Nat \ {0} : k = Len(fs) /\ DOMAIN fs = 1 .. k  BY EmptySeq, LenProperties
<1>2. /\ frames \in Seq(Wire) /\ frames # <<>> /\ Len(frames) = k + 1 /\ DOMAIN frames = 1 .. k + 1
      /\ frames[k + 1] = f /\ \A i \in 1 .. k : frames[i] = fs[i]
  BY <1>1, Appended
<1>3. Last(frames) = f /\ Last(fs) = fs[k] /\ frames[1] = fs[1] /\ Head(frames) = fs[1]
  BY <1>1, <1>2 DEF Last
<1>4. PICK p \in DOMAIN lens, l \in Nat :
        /\ p = fs[1].pdu /\ l = lens[p] /\ fs[1].kind = "FF" /\ fs[1].from = 0
        /\ fs[1].n = 6 /\ fs[1].len = l
  <2>1. 1 \in DOMAIN fs  BY <1>1
  <2>2. Genuine(fs[1], lens, returned) /\ fs[1].kind = "FF"  BY <2>1 DEF Beginning
  <2>3. /\ fs[1].pdu \in DOMAIN lens /\ fs[1].from = 0 /\ fs[1].n = 6
        /\ fs[1].len = lens[fs[1].pdu]
    BY <2>2 DEF Genuine, FirstBytes
  <2>4. lens[fs[1].pdu] \in Nat
    <3>1. lens[fs[1].pdu] \in 0 .. LengthRange - 1  BY <2>3, LengthsBounded
    <3>. QED  BY <3>1 DEF LengthRange
  <2>. QED  BY <2>2, <2>3, <2>4
<1>5. /\ f.pdu = p /\ f.from = End(fs[k]) /\ f.from \in Nat /\ f.from < l
      /\ f.n = IF l - f.from < 7 THEN l - f.from ELSE 7
      /\ End(f) >= l => p \in returned
  <2>1. k \in DOMAIN fs  BY <1>1
  <2>2. fs[k].pdu = p  BY <1>4, <2>1 DEF Beginning
  <2>3. f.pdu = p /\ f.from = End(fs[k])  BY <1>3, <2>2 DEF Precedes
  <2>4. f.from \in Nat  BY DEF Wire, FlowFrames, FirstFrames, OtherFrames
  <2>. QED  BY <1>4, <2>3, <2>4 DEF Genuine, FrameBytes
<1>6. f.from = 6 + 7 * (k - 1)
  <2>1. CASE k = 1  BY <1>4, <1>5, <2>1 DEF End
  <2>2. CASE k # 1
    <3>1. k \in DOMAIN fs /\ k > 1  BY <1>1, <2>2
    <3>2. fs[k].kind = "CF" /\ fs[k].from = 6 + 7 * (k - 2) /\ fs[k].pdu = p
          /\ Genuine(fs[k], lens, returned)
      BY <1>4, <3>1 DEF Beginning, FirstBytes, FrameBytes
    <3>3. PICK g \in Nat : g = fs[k].from /\ g = 6 + 7 * (k - 2)
      <4>1. 6 + 7 * (k - 2) \in Nat  BY <3>1
      <4>. QED  BY <3>2, <4>1
    <3>4. fs[k].n = IF l - g < 7 THEN l - g ELSE 7
      BY <1>4, <3>2, <3>3 DEF Genuine, FrameBytes
    <3>5. f.from = g + (IF l - g < 7 THEN l - g ELSE 7)  BY <1>5, <3>3, <3>4 DEF End
    <3>6. f.from = g + 7  BY <1>5, <3>5
    <3>. QED  BY <3>3, <3>6
  <2>. QED  BY <2>1, <2>2
<1>7. Beginning(frames, lens, returned)
  <2>1. ASSUME NEW i \in DOMAIN frames
        PROVE  /\ Genuine(frames[i], lens, returned) /\ frames[i].pdu = p
               /\ i > 1 => /\ frames[i].kind = "CF" /\ frames[i].from = End(frames[i - 1])
                           /\ frames[i].from = FirstBytes + FrameBytes * (i - 2)
    <3>1. CASE i \in 1 .. k
      <4>1. /\ Genuine(fs[i], lens, returned) /\ fs[i].pdu = p
            /\ i > 1 => /\ fs[i].kind = "CF" /\ fs[i].from = End(fs[i - 1])
                        /\ fs[i].from = FirstBytes + FrameBytes * (i - 2)
        BY <1>1, <1>4, <3>1 DEF Beginning
      <4>2. i > 1 => i - 1 \in 1 .. k  BY <3>1
      <4>. QED  BY <1>2, <3>1, <4>1, <4>2
    <3>2. CASE i \notin 1 .. k
      <4>1. i = k + 1 /\ i - 1 = k /\ i - 2 = k - 1 /\ k \in 1 .. k  BY <1>2, <3>2
      <4>2. frames[i] = f /\ frames[i - 1] = fs[k]  BY <1>2, <4>1
      <4>. QED  BY <1>5, <1>6, <4>1, <4>2 DEF FirstBytes, FrameBytes
    <3>. QED  BY <3>1, <3>2
  <2>. QED  BY <1>3, <1>4, <2>1 DEF Beginning
<1>8. ASSUME Room(frames) >= Head(frames).len PROVE Intact(frames) /\ f.pdu \in returned
  <2>1. 6 + 7 * k >= l
    <3>1. Room(frames) = 6 + 7 * ((k + 1) - 1)  BY <1>2 DEF Room, FirstBytes, FrameBytes
    <3>2. (k + 1) - 1 = k  OBVIOUS
    <3>. QED  BY <1>3, <1>4, <1>8, <3>1, <3>2
  <2>2. End(f) >= l
    <3>1. PICK g \in Nat : g = f.from /\ g = 6 + 7 * (k - 1)  BY <1>5, <1>6
    <3>2. End(f) = g + (IF l - g < 7 THEN l - g ELSE 7)  BY <1>5, <3>1 DEF End
    <3>3. g + 7 = 6 + 7 * k  BY <3>1
    <3>. QED  BY <2>1, <3>1, <3>2, <3>3
  <2>3. \A i \in DOMAIN frames :
          frames[i].pdu = Head(frames).pdu /\ (i > 1 => frames[i].from = End(frames[i - 1]))
    BY <1>3, <1>7 DEF Beginning
  <2>4. Intact(frames)  BY <1>3, <1>4, <2>2, <2>3 DEF Intact
  <2>. QED  BY <1>5, <2>2, <2>4
<1>. QED  BY <1>2, <1>3, <1>4, <1>7, <1>8

LEMMA ReceptionContinues ==
  ASSUME Types, Unbroken, reception.frames # <<>>,
         NEW f \in Wire, f.kind = "CF", Genuine(f, lens, returned),
         Precedes(Last(reception.frames), f),
         NEW frames, frames = Append(reception.frames, f)
  PROVE  /\ frames \in Seq(Wire) /\ frames # <<>> /\ Last(frames) = f
         /\ frames[1].pdu = Newest /\ frames[1].pdu \in DOMAIN lens /\ frames[1].pdu = f.pdu
         /\ Beginning(frames, lens, returned)
         /\ Room(frames) >= Head(frames).len => Intact(frames) /\ f.pdu \in returned
<1>1. PICK fs \in Seq(Wire) : fs = reception.frames  BY DEF Types
<1>2. /\ fs # <<>> /\ Beginning(fs, lens, returned) /\ Precedes(Last(fs), f)
      /\ frames = Append(fs, f) /\ fs[1].pdu = Newest
  BY <1>1 DEF Unbroken, Newest
<1>3. /\ frames \in Seq(Wire) /\ frames # <<>> /\ Last(frames) = f /\ frames[1] = fs[1]
      /\ frames[1].pdu \in DOMAIN lens /\ Beginning(frames, lens, returned)
  BY <1>2, BeginningContinues
<1>4. Room(frames) >= Head(frames).len => Intact(frames) /\ f.pdu \in returned
  BY <1>2, BeginningContinues
<1>5. f.pdu = frames[1].pdu
  <2>1. Len(frames) \in DOMAIN frames /\ frames[Len(frames)] = f
    <3>1. Len(frames) \in Nat \ {0} /\ DOMAIN frames = 1 .. Len(frames)
      BY <1>3, EmptySeq, LenProperties
    <3>. QED  BY <1>3, <3>1 DEF Last
  <2>. QED  BY <1>3, <2>1 DEF Beginning
<1>. QED  BY <1>2, <1>3, <1>4, <1>5

\* The peer has put one PDU more together.
LEMMA UnbrokenDelivers ==
  ASSUME Types, Unbroken, UNCHANGED <<lens, returned>>, NEW frames \in Seq(Wire), frames # <<>>,
         PeerDelivers(frames), frames[1].pdu \in DOMAIN lens, Intact(frames)
  PROVE  /\ AllIntact' /\ reception'.frames = <<>>
         /\ Arrived' = frames[1].pdu /\ Newest' = frames[1].pdu
         /\ frames[1].pdu \in Nat /\ frames[1].pdu <= Len(lens)
<1>1. delivered \in Seq(Seq(Wire)) /\ delivered' = Append(delivered, frames)
  BY DEF Types, PeerDelivers
<1>2. /\ \A i \in DOMAIN delivered : delivered'[i] = delivered[i]
      /\ delivered'[Len(delivered) + 1] = frames /\ delivered' # <<>>
      /\ \A i \in DOMAIN delivered' : i \in DOMAIN delivered \/ i = Len(delivered) + 1
      /\ Len(delivered') = Len(delivered) + 1
  BY <1>1, Appended
<1>3. Intact(frames)'  BY DEF Intact
<1>4. AllIntact'
  <2>1. ASSUME NEW i \in DOMAIN delivered'
        PROVE  /\ delivered'[i] # <<>> /\ delivered'[i][1].pdu \in DOMAIN lens
               /\ Intact(delivered[i])'
    <3>1. CASE i \in DOMAIN delivered
      <4>1. delivered[i] # <<>> /\ delivered[i][1].pdu \in DOMAIN lens /\ Intact(delivered[i])
        BY <3>1 DEF Unbroken, AllIntact
      <4>2. Intact(delivered[i])'  BY <1>2, <3>1, <4>1 DEF Intact
      <4>. QED  BY <1>2, <3>1, <4>1, <4>2
    <3>2. CASE i = Len(delivered) + 1
      <4>1. Intact(delivered[i])'  BY <1>2, <1>3, <3>2 DEF Intact
      <4>. QED  BY <1>2, <3>2, <4>1
    <3>. QED  BY <1>2, <3>1, <3>2
  <2>. QED  BY <2>1 DEF AllIntact
<1>5. reception'.frames = <<>>  BY DEF PeerDelivers, NoReception
<1>6. Arrived' = frames[1].pdu
  <2>1. Last(delivered') = frames  BY <1>2 DEF Last
  <2>2. Head(frames) = frames[1]  BY Tailed
  <2>. QED  BY <1>2, <2>1, <2>2 DEF Arrived
<1>7. Newest' = frames[1].pdu  BY <1>5, <1>6 DEF Newest
<1>8. \A p \in DOMAIN lens : p \in Nat /\ p <= Len(lens)  BY LengthsBounded
<1>. QED  BY <1>4, <1>5, <1>6, <1>7, <1>8

\* What the peer puts together was sent to its end, after what arrived before it.
LEMMA Delivery ==
  ASSUME Types, Unbroken, PeerTakesSingle \/ PeerTakesConsecutive
  PROVE  \/ UNCHANGED delivered
         \/ \E frames \in Seq(Wire) :
              /\ PeerDelivers(frames) /\ frames # <<>> /\ Intact(frames)
              /\ frames[1].pdu \in DOMAIN lens /\ frames[1].pdu \in returned
              /\ frames[1].pdu = Head(toPeer).pdu /\ Arrived < frames[1].pdu
              /\ frames[1].pdu = Newest \/ Starts(Head(toPeer))
<1>1. toPeer # <<>>  BY DEF PeerTakesSingle, PeerTakesConsecutive
<1>2. PICK f \in Wire : f = Head(toPeer) /\ f = toPeer[1] /\ Genuine(f, lens, returned)
                        /\ 1 \in DOMAIN toPeer
                        /\ (reception.frames # <<>> => Precedes(Last(reception.frames), f))
  <2>1. toPeer \in Seq(Wire)  BY DEF Types
  <2>2. Head(toPeer) = toPeer[1] /\ toPeer[1] \in Wire /\ 1 \in DOMAIN toPeer
    BY <1>1, <2>1, Tailed
  <2>. QED  BY <1>1, <2>2 DEF Unbroken, OnTheWire
<1>3. CASE PeerTakesSingle
  <2>1. f.kind = "SF" /\ PeerDelivers(<<f>>)  BY <1>2, <1>3 DEF PeerTakesSingle
  <2>2. f.pdu \in DOMAIN lens /\ f.from = 0 /\ f.n = lens[f.pdu] /\ f.pdu \in returned
    BY <1>2, <2>1 DEF Genuine
  <2>3. PICK frames \in Seq(Wire) :
          /\ frames = <<f>> /\ frames # <<>> /\ Len(frames) = 1 /\ DOMAIN frames = 1 .. 1
          /\ frames[1] = f
    <3>1. <<f>> \in Seq(Wire) /\ Len(<<f>>) = 1 /\ <<f>>[1] = f  OBVIOUS
    <3>2. <<f>> # <<>>  OBVIOUS
    <3>. QED  BY <3>1, <3>2, LenProperties
  <2>4. Intact(frames)
    <3>1. Head(frames) = f /\ Last(frames) = f  BY <2>3 DEF Last
    <3>2. End(f) >= lens[f.pdu]
      <4>1. lens[f.pdu] \in 0 .. LengthRange - 1  BY <2>2, LengthsBounded
      <4>2. PICK l \in Nat : l = lens[f.pdu]  BY <4>1 DEF LengthRange
      <4>3. End(f) = 0 + l  BY <2>2, <4>2 DEF End
      <4>. QED  BY <4>2, <4>3
    <3>3. \A i \in DOMAIN frames : i = 1  BY <2>3
    <3>. QED  BY <2>2, <2>3, <3>1, <3>2, <3>3 DEF Intact
  <2>5. Starts(Head(toPeer)) /\ Arrived < f.pdu
    <3>1. Starts(f)  BY <2>1 DEF Starts
    <3>2. Newest < f.pdu  BY <1>2, <3>1 DEF Unbroken, PdusArriveInOrder
    <3>3. Arrived \in Nat /\ Newest \in Nat /\ Arrived <= Newest  BY InOrderTyped
    <3>4. f.pdu \in Nat  BY <2>1, FramesTyped
    <3>. QED  BY <1>2, <3>1, <3>2, <3>3, <3>4
  <2>6. PeerDelivers(frames)  BY <2>1, <2>3
  <2>. QED  BY <1>2, <2>2, <2>3, <2>4, <2>5, <2>6
<1>4. CASE PeerTakesConsecutive
  <2>1. f.kind = "CF"  BY <1>2, <1>4 DEF PeerTakesConsecutive
  <2>2. PICK frames : frames = Append(reception.frames, f)  OBVIOUS
  <2>3. \/ UNCHANGED delivered
        \/ reception.frames # <<>> /\ Room(frames) >= Head(frames).len /\ PeerDelivers(frames)
    BY <1>2, <1>4, <2>2 DEF PeerTakesConsecutive
  <2>4. ASSUME reception.frames # <<>>, Room(frames) >= Head(frames).len
        PROVE  /\ frames \in Seq(Wire) /\ frames # <<>> /\ Intact(frames)
               /\ frames[1].pdu \in DOMAIN lens /\ frames[1].pdu \in returned
               /\ frames[1].pdu = f.pdu /\ frames[1].pdu = Newest
    BY <1>2, <2>1, <2>2, <2>4, ReceptionContinues
  <2>5. reception.frames # <<>> => Arrived < Newest  BY DEF Unbroken, PdusArriveInOrder
  <2>. QED  BY <1>2, <2>3, <2>4, <2>5
<1>. QED  BY <1>3, <1>4

LEMMA PeerUnbroken ==
  ASSUME Types, PdusRise, Unbroken,
         PeerTakesSingle \/ PeerTakesFirst \/ PeerTakesConsecutive \/ PeerTakesFlowControl
  PROVE  Unbroken'
<1>1. /\ toPeer # <<>> /\ toPeer' = Tail(toPeer) /\ UNCHANGED <<phase, lens, returned, offset>>
  BY DEF PeerTakesSingle, PeerTakesFirst, PeerTakesConsecutive, PeerTakesFlowControl, sendVars
<1>2. PICK f \in Wire : f = Head(toPeer) /\ f = toPeer[1] /\ Genuine(f, lens, returned)
                        /\ 1 \in DOMAIN toPeer
                        /\ (reception.frames # <<>> => Precedes(Last(reception.frames), f))
  <2>1. toPeer \in Seq(Wire)  BY DEF Types
  <2>2. Head(toPeer) = toPeer[1] /\ toPeer[1] \in Wire /\ 1 \in DOMAIN toPeer
    BY <1>1, <2>1, Tailed
  <2>. QED  BY <1>1, <2>2 DEF Unbroken, OnTheWire
<1>3. /\ Arrived \in Nat /\ Newest \in Nat /\ Arrived <= Newest /\ Arrived <= Len(lens)
      /\ AllIntact
  BY InOrderTyped DEF Unbroken, PdusArriveInOrder
<1>4. ASSUME UNCHANGED delivered PROVE AllIntact' /\ Arrived' = Arrived
  BY <1>1, <1>3, <1>4 DEF AllIntact, Intact, Arrived
<1>5. ASSUME UNCHANGED delivered, reception' = NoReception PROVE Unbroken'
  <2>1. reception'.frames = <<>>  BY <1>5 DEF NoReception
  <2>2. Newest' = Arrived  BY <1>4, <1>5, <2>1 DEF Newest
  <2>. QED  BY <1>1, <1>3, <1>4, <1>5, <2>1, <2>2, UnbrokenTakes
<1>6. ASSUME NEW frames \in Seq(Wire), PeerDelivers(frames), frames # <<>>, Intact(frames),
             frames[1].pdu \in DOMAIN lens, frames[1].pdu = Head(toPeer).pdu,
             frames[1].pdu = Newest \/ Starts(Head(toPeer))
      PROVE  Unbroken'
  <2>1. /\ AllIntact' /\ reception'.frames = <<>>
        /\ Arrived' = frames[1].pdu /\ Newest' = frames[1].pdu
        /\ frames[1].pdu \in Nat /\ frames[1].pdu <= Len(lens)
    BY <1>1, <1>6, UnbrokenDelivers
  <2>2. Newest' <= Newest \/ (Starts(Head(toPeer)) /\ Newest' = Head(toPeer).pdu)
    BY <1>3, <1>6, <2>1
  <2>. QED  BY <1>1, <2>1, <2>2, UnbrokenTakes
<1>7. CASE PeerTakesSingle
  <2>1. delivered' # delivered
    <3>1. delivered \in Seq(Seq(Wire)) /\ delivered' = Append(delivered, <<f>>) /\ <<f>> \in Seq(Wire)
      BY <1>2, <1>7 DEF PeerTakesSingle, PeerDelivers, Types
    <3>2. Len(delivered) \in Nat /\ Len(delivered') = Len(delivered) + 1
      BY <3>1, AppendProperties, LenProperties
    <3>. QED  BY <3>2
  <2>. QED  BY <1>6, <1>7, <2>1, Delivery
<1>8. CASE PeerTakesFirst
  <2>1. UNCHANGED delivered /\ f.kind = "FF"  BY <1>2, <1>8 DEF PeerTakesFirst
  <2>2. reception' = NoReception \/ reception'.frames = <<f>>
    BY <1>2, <1>8 DEF PeerTakesFirst
  <2>3. ASSUME reception'.frames = <<f>> PROVE Unbroken'
    <3>1. reception'.frames # <<>> /\ reception'.frames[1] = f /\ Len(reception'.frames) = 1
      BY <2>3
    <3>2. DOMAIN reception'.frames = 1 .. 1  BY <2>3
    <3>3. Last(reception'.frames) = Head(toPeer)  BY <1>2, <3>1 DEF Last
    <3>4. Beginning(reception'.frames, lens, returned)
      <4>1. \A i \in DOMAIN reception'.frames : i = 1 /\ ~(i > 1)  BY <3>2
      <4>. QED  BY <1>2, <2>1, <3>1, <4>1 DEF Beginning
    <3>5. Starts(Head(toPeer)) /\ Newest' = Head(toPeer).pdu
      BY <1>2, <2>1, <3>1 DEF Starts, Newest
    <3>6. f.pdu \in Nat /\ Newest < f.pdu
      <4>1. f.pdu \in Nat  BY <2>1, FramesTyped
      <4>. QED  BY <1>2, <3>5, <4>1 DEF Unbroken, PdusArriveInOrder
    <3>7. Arrived' < Newest'  BY <1>2, <1>3, <1>4, <2>1, <3>5, <3>6
    <3>. QED  BY <1>1, <1>2, <1>3, <1>4, <2>1, <3>3, <3>4, <3>5, <3>6, <3>7, UnbrokenTakes
  <2>. QED  BY <1>5, <2>1, <2>2, <2>3
<1>9. CASE PeerTakesConsecutive
  <2>1. f.kind = "CF"  BY <1>2, <1>9 DEF PeerTakesConsecutive
  <2>2. PICK frames : frames = Append(reception.frames, f)  OBVIOUS
  <2>3. \/ UNCHANGED delivered /\ reception' = NoReception
        \/ delivered' # delivered
        \/ reception.frames # <<>> /\ UNCHANGED delivered /\ reception'.frames = frames
    <3>1. reception \in [frames : Seq(Wire), bs : 0 .. 255, inBlock : Nat]  BY DEF Types
    <3>2. CASE UNCHANGED delivered
      <4>1. reception' = NoReception \/ (reception.frames # <<>> /\ reception'.frames = frames)
        BY <1>2, <1>9, <2>2, <3>1, <3>2 DEF PeerTakesConsecutive, PeerDelivers
      <4>. QED  BY <3>2, <4>1
    <3>. QED  BY <3>2
  <2>4. ASSUME reception.frames # <<>>, UNCHANGED delivered, reception'.frames = frames
        PROVE  Unbroken'
    <3>1. /\ frames # <<>> /\ Last(frames) = f /\ frames[1].pdu = Newest
          /\ Beginning(frames, lens, returned)
      BY <1>2, <2>1, <2>2, <2>4, ReceptionContinues
    <3>2. Newest' = Newest  BY <2>4, <3>1 DEF Newest
    <3>3. Arrived < Newest  BY <2>4 DEF Unbroken, PdusArriveInOrder
    <3>4. Newest' <= Newest  BY <1>3, <3>2
    <3>. QED  BY <1>1, <1>2, <1>3, <1>4, <2>4, <3>1, <3>2, <3>3, <3>4, UnbrokenTakes
  <2>. QED  BY <1>5, <1>6, <1>9, <2>3, <2>4, Delivery
<1>10. CASE PeerTakesFlowControl
  <2>1. f.kind = "FC" /\ UNCHANGED <<reception, delivered>>
    BY <1>2, <1>10 DEF PeerTakesFlowControl
  <2>2. Newest' = Newest /\ Newest' <= Newest  BY <1>3, <1>4, <2>1 DEF Newest
  <2>3. \/ reception'.frames = <<>>
        \/ Beginning(reception'.frames, lens, returned) /\ reception'.frames = reception.frames
    BY <2>1 DEF Unbroken
  <2>4. reception'.frames # <<>> => Arrived' < Newest'
    BY <1>4, <2>1, <2>2 DEF Unbroken, PdusArriveInOrder
  <2>. QED  BY <1>1, <1>2, <1>3, <1>4, <2>1, <2>2, <2>3, <2>4, UnbrokenTakes
<1>. QED  BY <1>7, <1>8, <1>9, <1>10

LEMMA NextUnbroken == IInv /\ Unbroken /\ [Next]_vars => Unbroken'
<1>. SUFFICES ASSUME Types, Sending, PdusRise, Unbroken, [Next]_vars PROVE Unbroken'
  BY DEF IInv
<1>1. CASE \/ \E len \in PduLens : SendSingle(len) \/ SendFirst(len)
           \/ SendConsecutive \/ TakeFirst
  BY <1>1, SendsUnbroken
<1>2. CASE PeerTakesSingle \/ PeerTakesFirst \/ PeerTakesConsecutive \/ PeerTakesFlowControl
  BY <1>2, PeerUnbroken
<1>3. CASE TakeFlowControl \/ TakeOtherFrame \/ FlowControlTimeout
  BY <1>3, UnbrokenQuiet
  DEF TakeFlowControl, TakeOtherFrame, FlowControlTimeout, peerVars
<1>4. CASE \/ RecvPdu \/ TakeLast \/ FirstTimeout \/ SkipForeign \/ TakeConsecutive
           \/ ConsecutiveTimeout
  BY <1>4, UnbrokenQuiet
  DEF RecvPdu, TakeLast, FirstTimeout, SkipForeign, TakeConsecutive, ConsecutiveTimeout, sendVars,
      peerVars
<1>5. CASE PeerAnswers \/ PeerContinues \/ PeerForgets \/ LoseFrame
  BY <1>5, UnbrokenQuiet DEF PeerAnswers, PeerContinues, PeerForgets, LoseFrame, sendVars
<1>6. CASE UNCHANGED vars
  BY <1>6, UnbrokenQuiet DEF vars, sendVars, peerVars
<1>. QED
  BY <1>1, <1>2, <1>3, <1>4, <1>5, <1>6 DEF Next, SendStep, RecvStep, PeerStep

LEMMA InitUnbroken == Init => Unbroken
<1>. SUFFICES ASSUME Init PROVE Unbroken
  OBVIOUS
<1>1. /\ toPeer = <<>> /\ delivered = <<>> /\ lens = <<>> /\ phase = "idle"
      /\ reception.frames = <<>>
  BY DEF Init, NoReception
<1>2. DOMAIN <<>> = {} /\ Len(<<>>) = 0  BY EmptySeq
<1>3. OnTheWire /\ GoesOn /\ AllIntact  BY <1>1, <1>2 DEF OnTheWire, GoesOn, AllIntact
<1>4. PdusArriveInOrder  BY <1>1, <1>2 DEF PdusArriveInOrder, Arrived
<1>. QED  BY <1>1, <1>3, <1>4 DEF Unbroken

-----------------------------------------------------------------------------
(* The PDUs that frames start.  What FoldLeft computes is found without      *)
(* induction: were it wrong, there would be a first place where it is.       *)

LEMMA LeastNatural ==
  ASSUME NEW T \in SUBSET Nat, T # {}
  PROVE  \E n \in T : \A m \in T : n <= m
<1>. DEFINE R == OpToRel(<, Nat)
<1>1. \A x, y \in Nat : x < y => <<x, y>> \in R  BY DEF OpToRel
<1>2. IsWellFoundedOn(R, Nat)  BY NatLessThanWellFounded
<1>. HIDE DEF R
<1>3. PICK n \in T : \A m \in T : ~(<<m, n>> \in R)  BY <1>2, WFMin
<1>4. \A m \in T : n <= m
  <2>. TAKE m \in T
  <2>1. m \in Nat /\ n \in Nat /\ ~(m < n)  BY <1>1, <1>3
  <2>. QED  BY <2>1
<1>. QED  BY <1>4

\* A set of naturals that holds 0, and n + 1 with every n < k of it, holds all
\* naturals up to k.
LEMMA UpTo ==
  ASSUME NEW k \in Nat, NEW G, 0 \in G, \A n \in 0 .. k - 1 : n \in G => n + 1 \in G
  PROVE  \A n \in 0 .. k : n \in G
<1>. SUFFICES ASSUME NEW n \in 0 .. k, n \notin G PROVE FALSE
  OBVIOUS
<1>. DEFINE T == {m \in 0 .. k : m \notin G}
<1>1. T \in SUBSET Nat /\ T # {}  OBVIOUS
<1>2. PICK m \in T : \A j \in T : m <= j  BY <1>1, LeastNatural
<1>3. m # 0 /\ m \in 0 .. k /\ m \notin G  OBVIOUS
<1>4. m - 1 \in 0 .. k - 1 /\ ~(m <= m - 1) /\ (m - 1) + 1 = m  BY <1>3
<1>5. m - 1 \in G  BY <1>2, <1>4
<1>. QED  BY <1>3, <1>4, <1>5

Begun(s) == FoldLeft(AddStarted, <<>>, s)

\* One more frame of s at a time.
Steps(s, w) ==
  /\ w[0] = <<>>
  /\ \A k \in 1 .. Len(s) : w[k] = AddStarted(w[k - 1], s[k])

LEMMA LargestIs == \A k \in Nat : k >= 1 => Max(1 .. k) = k
<1>. SUFFICES ASSUME NEW k \in Nat, k >= 1 PROVE Max(1 .. k) = k
  OBVIOUS
<1>1. k \in 1 .. k /\ \A y \in 1 .. k : k >= y  OBVIOUS
<1>2. \A x \in 1 .. k : (\A y \in 1 .. k : x >= y) => x = k  BY <1>1
<1>. QED  BY <1>1, <1>2 DEF Max

\* FoldLeft takes the elements from the largest index on.
LEMMA FoldExists ==
  ASSUME NEW S, NEW s \in Seq(S)
  PROVE  \E w : Steps(s, w) /\ Begun(s) = w[Len(s)]
<1>. DEFINE L == Len(s)
            D == DOMAIN s
            Body(i) == [t \in SUBSET D |-> IF t = {} THEN <<>> ELSE AddStarted(i[t \ {Max(t)}], s[Max(t)])]
            Extends(k, i) ==
              \A t \in SUBSET (1 .. k) :
                i[t] = IF t = {} THEN <<>> ELSE AddStarted(i[t \ {Max(t)}], s[Max(t)])
<1>1. L \in Nat /\ D = 1 .. L  BY LenProperties
<1>. HIDE DEF L, D
<1>2. 1 .. 0 = {} /\ \A t \in SUBSET (1 .. 0) : t = {}  OBVIOUS
<1>3. \E i : Extends(0, i)
  <2>. DEFINE i == [t \in SUBSET (1 .. 0) |-> <<>>]
  <2>1. Extends(0, i)  BY <1>2
  <2>. QED  BY <2>1
<1>4. ASSUME NEW k \in Nat, NEW i, Extends(k, i) PROVE \E j : Extends(k + 1, j)
  <2>. DEFINE above(t) == IF k + 1 \in t THEN AddStarted(i[t \ {k + 1}], s[k + 1]) ELSE i[t]
              j == [t \in SUBSET (1 .. k + 1) |-> above(t)]
  <2>1. ASSUME NEW t \in SUBSET (1 .. k + 1), k + 1 \in t
        PROVE  Max(t) = k + 1 /\ t \ {k + 1} \in SUBSET (1 .. k) /\ t # {}
    <3>1. \A y \in t : y \in 1 .. k + 1 /\ k + 1 >= y  OBVIOUS
    <3>2. \A x \in t : (\A y \in t : x >= y) => x = k + 1  BY <2>1, <3>1
    <3>3. Max(t) = k + 1  BY <2>1, <3>1, <3>2 DEF Max
    <3>. QED  BY <2>1, <3>3
  <2>2. ASSUME NEW t \in SUBSET (1 .. k + 1), k + 1 \notin t
        PROVE  t \in SUBSET (1 .. k) /\ t \ {Max(t)} \in SUBSET (1 .. k)
    <3>1. \A y \in t : y \in 1 .. k + 1 /\ y # k + 1  BY <2>2
    <3>2. \A y \in t : y \in 1 .. k  BY <3>1
    <3>. QED  BY <3>2
  <2>3. \A t \in SUBSET (1 .. k) : t \in SUBSET (1 .. k + 1) /\ k + 1 \notin t  OBVIOUS
  <2>4. \A t \in SUBSET (1 .. k) : j[t] = i[t]  BY <2>3
  <2>5. \A t \in SUBSET (1 .. k + 1) : j[t] = above(t)  OBVIOUS
  <2>. HIDE DEF j
  <2>6. ASSUME NEW t \in SUBSET (1 .. k + 1)
        PROVE  j[t] = IF t = {} THEN <<>> ELSE AddStarted(j[t \ {Max(t)}], s[Max(t)])
    <3>1. CASE k + 1 \in t
      <4>1. j[t] = AddStarted(i[t \ {k + 1}], s[k + 1])  BY <2>5, <3>1
      <4>. QED  BY <2>1, <2>4, <3>1, <4>1
    <3>2. CASE k + 1 \notin t
      <4>1. j[t] = i[t]  BY <2>5, <3>2
      <4>2. i[t] = IF t = {} THEN <<>> ELSE AddStarted(i[t \ {Max(t)}], s[Max(t)])
        BY <1>4, <2>2, <3>2
      <4>3. j[t \ {Max(t)}] = i[t \ {Max(t)}]  BY <2>2, <2>4, <3>2
      <4>. QED  BY <4>1, <4>2, <4>3
    <3>. QED  BY <3>1, <3>2
  <2>7. Extends(k + 1, j)  BY <2>6
  <2>. QED  BY <2>7
<1>5. \E i : Extends(L, i)
  <2>. DEFINE G == {k \in Nat : \E i : Extends(k, i)}
  <2>1. 0 \in G  BY <1>3
  <2>2. \A k \in 0 .. L - 1 : k \in G => k + 1 \in G
    <3>. SUFFICES ASSUME NEW k \in 0 .. L - 1, k \in G PROVE k + 1 \in G
      OBVIOUS
    <3>1. k \in Nat /\ k + 1 \in Nat  BY <1>1
    <3>. HIDE DEF Extends
    <3>2. PICK i : Extends(k, i)  OBVIOUS
    <3>3. \E j : Extends(k + 1, j)  BY <1>4, <3>1, <3>2
    <3>. QED  BY <3>1, <3>3
  <2>. HIDE DEF G
  <2>3. \A n \in 0 .. L : n \in G  BY <1>1, <2>1, <2>2, UpTo
  <2>4. L \in G  BY <1>1, <2>3
  <2>. QED  BY <2>4 DEF G
<1>6. PICK i : Extends(L, i)  BY <1>5
<1>7. \E f : f = Body(f)
  <2>1. Body(i) = Body(Body(i))
    <3>1. ASSUME NEW t \in SUBSET D PROVE Body(i)[t] = Body(Body(i))[t]
      <4>1. t \ {Max(t)} \in SUBSET D  OBVIOUS
      <4>2. \A u \in SUBSET D : Body(i)[u] = i[u]  BY <1>1, <1>6
      <4>. QED  BY <4>1, <4>2
    <3>. QED  BY <3>1
  <2>. QED  BY <2>1
<1>8. PICK f : f = Body(f) /\ Begun(s) = f[D]
  <2>. DEFINE g == CHOOSE h : h = Body(h)
  <2>1. g = Body(g)  BY <1>7
  <2>2. Begun(s) = g[D]  BY DEF Begun, FoldLeft, MapThenFoldSet, D
  <2>. HIDE DEF g
  <2>. QED  BY <2>1, <2>2
<1>. DEFINE w == [k \in 0 .. L |-> f[1 .. k]]
<1>9. w[0] = <<>>
  <2>1. 1 .. 0 = {} /\ {} \in SUBSET D /\ 0 \in 0 .. L  BY <1>1
  <2>2. f[{}] = <<>>  BY <1>8, <2>1
  <2>. QED  BY <2>1, <2>2
<1>10. ASSUME NEW k \in 1 .. L PROVE w[k] = AddStarted(w[k - 1], s[k])
  <2>0. k \in Nat /\ k >= 1 /\ k - 1 \in 0 .. L /\ k \in 0 .. L  BY <1>1
  <2>1. 1 .. k \in SUBSET D /\ 1 .. k # {} /\ (1 .. k) \ {k} = 1 .. k - 1
    <3>1. \A n \in 1 .. k : n \in 1 .. L  BY <1>1
    <3>2. k \in 1 .. k  BY <2>0
    <3>3. \A n : n \in (1 .. k) \ {k} <=> n \in 1 .. k - 1  BY <2>0
    <3>. QED  BY <1>1, <3>1, <3>2, <3>3
  <2>2. Max(1 .. k) = k  BY <2>0, LargestIs
  <2>3. f[1 .. k] = AddStarted(f[(1 .. k) \ {k}], s[k])  BY <1>8, <2>1, <2>2
  <2>. QED  BY <2>0, <2>1, <2>3
<1>11. w[L] = Begun(s)
  <2>1. L \in 0 .. L /\ D = 1 .. L  BY <1>1
  <2>. QED  BY <1>8, <2>1
<1>12. Steps(s, w)  BY <1>9, <1>10 DEF Steps, L
<1>. QED  BY <1>11, <1>12 DEF L

LEMMA StepsAgree ==
  ASSUME NEW S, NEW s \in Seq(S), NEW w, NEW v, NEW k \in Nat, k <= Len(s),
         w[0] = v[0],
         \A i \in 1 .. k : w[i] = AddStarted(w[i - 1], s[i]) /\ v[i] = AddStarted(v[i - 1], s[i])
  PROVE  w[k] = v[k]
<1>. DEFINE G == {i \in 0 .. k : w[i] = v[i]}
<1>1. 0 \in G  OBVIOUS
<1>2. ASSUME NEW i \in 0 .. k - 1, i \in G PROVE i + 1 \in G
  <2>1. i + 1 \in 1 .. k /\ i + 1 \in 0 .. k /\ (i + 1) - 1 = i  OBVIOUS
  <2>2. w[i + 1] = AddStarted(w[i], s[i + 1]) /\ v[i + 1] = AddStarted(v[i], s[i + 1])  BY <2>1
  <2>. QED  BY <1>2, <2>1, <2>2
<1>. HIDE DEF G
<1>3. \A i \in 0 .. k : i \in G  BY <1>1, <1>2, UpTo
<1>4. k \in G  BY <1>3
<1>. QED  BY <1>4 DEF G

LEMMA BegunEmpty == Begun(<<>>) = <<>>
<1>1. <<>> \in Seq({}) /\ Len(<<>>) = 0  BY EmptySeq
<1>2. PICK w : Steps(<<>>, w) /\ Begun(<<>>) = w[Len(<<>>)]  BY <1>1, FoldExists
<1>. QED  BY <1>1, <1>2 DEF Steps

LEMMA BegunAppended ==
  ASSUME NEW S, NEW s \in Seq(S), NEW e \in S
  PROVE  Begun(Append(s, e)) = AddStarted(Begun(s), e)
<1>. DEFINE t == Append(s, e)
<1>1. /\ t \in Seq(S) /\ Len(t) = Len(s) + 1 /\ \A i \in DOMAIN s : t[i] = s[i]
      /\ t[Len(s) + 1] = e /\ DOMAIN s = 1 .. Len(s) /\ Len(s) \in Nat
  BY Appended
<1>. HIDE DEF t
<1>2. PICK w : Steps(s, w) /\ Begun(s) = w[Len(s)]  BY FoldExists
<1>3. PICK v : Steps(t, v) /\ Begun(t) = v[Len(t)]  BY <1>1, FoldExists
<1>4. PICK k \in Nat : k = Len(s)  BY <1>1
<1>5. w[k] = v[k]
  <2>1. w[0] = v[0]  BY <1>2, <1>3 DEF Steps
  <2>2. ASSUME NEW i \in 1 .. k
        PROVE  w[i] = AddStarted(w[i - 1], s[i]) /\ v[i] = AddStarted(v[i - 1], s[i])
    <3>1. i \in 1 .. Len(s) /\ i \in 1 .. Len(t)  BY <1>1, <1>4
    <3>2. t[i] = s[i]  BY <1>1, <3>1
    <3>. QED  BY <1>2, <1>3, <3>1, <3>2 DEF Steps
  <2>3. k <= Len(s)  BY <1>4
  <2>. QED  BY <2>1, <2>2, <2>3, StepsAgree
<1>6. v[k + 1] = AddStarted(v[k], e)
  <2>1. k + 1 \in 1 .. Len(t) /\ (k + 1) - 1 = k /\ t[k + 1] = e  BY <1>1, <1>4
  <2>. QED  BY <1>3, <2>1 DEF Steps
<1>. QED  BY <1>1, <1>2, <1>3, <1>4, <1>5, <1>6 DEF t

Starteds(S) == {Started(f) : f \in S}

LEMMA BegunTyped ==
  ASSUME NEW S, NEW s \in Seq(S) PROVE Begun(s) \in Seq(Starteds(S))
<1>1. PICK w : Steps(s, w) /\ Begun(s) = w[Len(s)]  BY FoldExists
<1>2. PICK k \in Nat : k = Len(s) /\ DOMAIN s = 1 .. k  BY LenProperties
<1>. DEFINE G == {i \in 0 .. k : w[i] \in Seq(Starteds(S))}
<1>3. 0 \in G
  <2>1. w[0] = <<>> /\ <<>> \in Seq(Starteds(S)) /\ 0 \in 0 .. k  BY <1>1, EmptySeq DEF Steps
  <2>. QED  BY <2>1
<1>4. ASSUME NEW i \in 0 .. k - 1, i \in G PROVE i + 1 \in G
  <2>1. i + 1 \in 1 .. k /\ i + 1 \in 0 .. k /\ (i + 1) - 1 = i  OBVIOUS
  <2>2. w[i + 1] = AddStarted(w[i], s[i + 1])  BY <1>1, <1>2, <2>1 DEF Steps
  <2>3. Started(s[i + 1]) \in Starteds(S)
    <3>1. s[i + 1] \in S  BY <1>2, <2>1, ElementOfSeq
    <3>. QED  BY <3>1 DEF Starteds
  <2>4. w[i + 1] \in Seq(Starteds(S))  BY <1>4, <2>2, <2>3, AppendProperties DEF AddStarted
  <2>. QED  BY <2>1, <2>4
<1>. HIDE DEF G
<1>5. \A i \in 0 .. k : i \in G  BY <1>3, <1>4, UpTo
<1>6. k \in G  BY <1>5
<1>. QED  BY <1>1, <1>2, <1>6 DEF G

LEMMA RemovedLast ==
  ASSUME NEW S, NEW s \in Seq(S), NEW e \in S
  PROVE  RemoveAt(Append(s, e), Len(s) + 1) = s
<1>. DEFINE t == Append(s, e)
            r == RemoveAt(t, Len(s) + 1)
<1>1. PICK k \in Nat : k = Len(s) /\ DOMAIN s = 1 .. k  BY LenProperties
<1>2. /\ t \in Seq(S) /\ Len(t) = k + 1 /\ DOMAIN t = 1 .. k + 1 /\ \A i \in DOMAIN s : t[i] = s[i]
      /\ Len(s) + 1 \in DOMAIN t
  BY <1>1, Appended
<1>. HIDE DEF t
<1>2a. r = RemoveAt(t, Len(s) + 1)  OBVIOUS
<1>. HIDE DEF r
<1>3. /\ r \in Seq(S) /\ Len(r) = Len(t) - 1 /\ DOMAIN r = 1 .. Len(t) - 1
      /\ \A i \in 1 .. k : r[i] = t[i]
  <2>1. r \in Seq(S) /\ Len(r) = Len(t) - 1 /\ DOMAIN r = 1 .. Len(t) - 1
    BY <1>2, <1>2a, RemovedPlaces
  <2>2. \A i \in 1 .. (Len(s) + 1) - 1 : r[i] = t[i]
    BY <1>2, <1>2a, RemovedPlaces
  <2>3. (Len(s) + 1) - 1 = k  BY <1>1
  <2>. QED  BY <2>1, <2>2, <2>3
<1>4. Len(r) = k  BY <1>2, <1>3
<1>5. \A i \in 1 .. k : r[i] = s[i]
  <2>. TAKE i \in 1 .. k
  <2>. QED  BY <1>1, <1>2, <1>3
<1>6. r = s  BY <1>1, <1>3, <1>4, <1>5, SeqEqual
<1>. QED  BY <1>6 DEF r, t

LEMMA RemovedBefore ==
  ASSUME NEW S, NEW s \in Seq(S), NEW e \in S, NEW k \in DOMAIN s
  PROVE  RemoveAt(Append(s, e), k) = Append(RemoveAt(s, k), e)
<1>. DEFINE t == Append(s, e)
            r == RemoveAt(t, k)
            q == RemoveAt(s, k)
            u == Append(q, e)
<1>1. PICK m \in Nat : m = Len(s) /\ DOMAIN s = 1 .. m /\ k \in 1 .. m  BY LenProperties
<1>2. /\ t \in Seq(S) /\ Len(t) = m + 1 /\ DOMAIN t = 1 .. m + 1 /\ \A i \in DOMAIN s : t[i] = s[i]
      /\ k \in DOMAIN t /\ t[m + 1] = e
  BY <1>1, Appended
<1>. HIDE DEF t
<1>2a. r = RemoveAt(t, k)  OBVIOUS
<1>. HIDE DEF r
<1>3. /\ r \in Seq(S) /\ Len(r) = Len(t) - 1 /\ DOMAIN r = 1 .. Len(t) - 1
      /\ \A i \in 1 .. k - 1 : r[i] = t[i]
      /\ \A i \in k .. m : r[i] = t[i + 1]
  <2>0. k \in DOMAIN t /\ t \in Seq(S) /\ r = RemoveAt(t, k)  BY <1>2, <1>2a
  <2>1. r \in Seq(S) /\ Len(r) = Len(t) - 1 /\ DOMAIN r = 1 .. Len(t) - 1
    BY <1>2, <1>2a, RemovedPlaces
  <2>2. \A i \in 1 .. k - 1 : r[i] = t[i]  BY <2>0, RemovedPlaces
  <2>3. \A i \in k .. Len(t) - 1 : r[i] = t[i + 1]  BY <2>0, RemovedPlaces
  <2>4. Len(t) - 1 = m  BY <1>1, <1>2
  <2>. QED  BY <2>1, <2>2, <2>3, <2>4
<1>4. /\ q \in Seq(S) /\ Len(q) = Len(s) - 1 /\ DOMAIN q = 1 .. Len(s) - 1
      /\ \A i \in DOMAIN q : \E j \in DOMAIN s : q[i] = s[j] /\ j = IF i < k THEN i ELSE i + 1
  BY RemovedPlaces
<1>. HIDE DEF q
<1>5. u \in Seq(S) /\ Len(u) = Len(q) + 1 /\ u[Len(q) + 1] = e /\ \A i \in DOMAIN q : u[i] = q[i]
  BY <1>4, AppendProperties
<1>. HIDE DEF u
<1>6. Len(r) = m /\ Len(q) = m - 1 /\ Len(u) = m /\ DOMAIN r = 1 .. m /\ DOMAIN q = 1 .. m - 1
  BY <1>1, <1>2, <1>3, <1>4, <1>5
<1>7. \A i \in 1 .. m : r[i] = u[i]
  <2>. TAKE i \in 1 .. m
  <2>1. r[i] = t[IF i < k THEN i ELSE i + 1]
    <3>1. CASE i < k
      <4>1. i \in 1 .. k - 1  BY <1>1, <3>1
      <4>. QED  BY <1>3, <3>1, <4>1
    <3>2. CASE ~(i < k)
      <4>1. i \in k .. m  BY <1>1, <3>2
      <4>. QED  BY <1>3, <3>2, <4>1
    <3>. QED  BY <3>1, <3>2
  <2>2. CASE i = m
    <3>1. r[i] = e  BY <1>1, <1>2, <2>1, <2>2
    <3>2. Len(q) + 1 = m  BY <1>1, <1>6
    <3>3. u[Len(q) + 1] = e  BY <1>5
    <3>4. u[i] = e  BY <2>2, <3>2, <3>3
    <3>. QED  BY <3>1, <3>4
  <2>3. CASE i # m
    <3>1. i \in DOMAIN q /\ (IF i < k THEN i ELSE i + 1) \in DOMAIN s  BY <1>1, <1>6, <2>3
    <3>2. q[i] = s[IF i < k THEN i ELSE i + 1]  BY <1>4, <3>1
    <3>3. r[i] = s[IF i < k THEN i ELSE i + 1]  BY <1>2, <2>1, <3>1
    <3>. QED  BY <1>5, <3>1, <3>2, <3>3
  <2>. QED  BY <2>2, <2>3
<1>8. r = u  BY <1>3, <1>5, <1>6, <1>7, SeqEqual
<1>. QED  BY <1>8 DEF r, u, t, q

LEMMA TailRemoves ==
  ASSUME NEW S, NEW s \in Seq(S), s # <<>> PROVE Tail(s) = RemoveAt(s, 1)
<1>1. PICK k \in Nat \ {0} : k = Len(s) /\ DOMAIN s = 1 .. k  BY EmptySeq, LenProperties
<1>2. Tail(s) = SubSeq(s, 2, k)  BY <1>1, TailIsSubSeq
<1>3. SubSeq(s, 1, 0) = <<>>  BY SubSeqEmpty
<1>4. Tail(s) \in Seq(S)  BY HeadTailProperties
<1>5. RemoveAt(s, 1) = <<>> \o Tail(s)
  <2>1. 1 - 1 = 0 /\ 1 + 1 = 2  OBVIOUS
  <2>. QED  BY <1>1, <1>2, <1>3, <2>1 DEF RemoveAt
<1>. QED  BY <1>4, <1>5, ConcatEmptySeq

\* What is left of the PDUs that frames start when the i-th frame is gone.
Losing(s, i) ==
  IF Starts(s[i])
  THEN \E k \in DOMAIN Begun(s) : /\ Begun(RemoveAt(s, i)) = RemoveAt(Begun(s), k)
                                  /\ i = 1 => k = 1 /\ Begun(s)[1] = Started(s[1])
  ELSE Begun(RemoveAt(s, i)) = Begun(s)

LEMMA LosingLast ==
  ASSUME NEW S, NEW s \in Seq(S), NEW e \in S PROVE Losing(Append(s, e), Len(s) + 1)
<1>. DEFINE t == Append(s, e)
            w == Begun(s)
<1>1. PICK k \in Nat : k = Len(s)  BY LenProperties
<1>2. t[k + 1] = e /\ RemoveAt(t, k + 1) = s  BY <1>1, Appended, RemovedLast
<1>3. Begun(t) = AddStarted(w, e) /\ w \in Seq(Starteds(S))  BY BegunAppended, BegunTyped
<1>. HIDE DEF t, w
<1>4. CASE Starts(e)
  <2>1. Begun(t) = Append(w, Started(e)) /\ Started(e) \in Starteds(S)
    BY <1>3, <1>4 DEF AddStarted, Starteds
  <2>2. /\ RemoveAt(Begun(t), Len(w) + 1) = w /\ Len(w) + 1 \in DOMAIN Begun(t)
        /\ Begun(t)[Len(w) + 1] = Started(e)
    BY <1>3, <2>1, Appended, RemovedLast
  <2>3. ASSUME k + 1 = 1 PROVE Len(w) + 1 = 1
    <3>1. k = 0  BY <2>3
    <3>2. s = <<>>  BY <1>1, <3>1, EmptySeq
    <3>3. w = <<>> /\ Len(w) = 0  BY <3>2, BegunEmpty, EmptySeq DEF w
    <3>. QED  BY <3>3
  <2>4. Begun(RemoveAt(t, k + 1)) = w  BY <1>2 DEF w
  <2>5. PICK n : n = Len(w) + 1  OBVIOUS
  <2>6. n \in DOMAIN Begun(t) /\ Begun(RemoveAt(t, k + 1)) = RemoveAt(Begun(t), n)
        /\ (k + 1 = 1 => n = 1 /\ Begun(t)[1] = Started(t[1]))
    <3>1. k + 1 = 1 => t[1] = e  BY <1>2
    <3>. QED  BY <2>2, <2>3, <2>4, <2>5, <3>1
  <2>7. Losing(t, k + 1)  BY <1>2, <1>4, <2>6 DEF Losing
  <2>. QED  BY <1>1, <2>7 DEF t
<1>5. CASE ~Starts(e)
  <2>1. Begun(t) = w  BY <1>3, <1>5 DEF AddStarted
  <2>2. Losing(t, k + 1)  BY <1>2, <1>5, <2>1 DEF Losing, w
  <2>. QED  BY <1>1, <2>2 DEF t
<1>. QED  BY <1>4, <1>5

LEMMA LosingBefore ==
  ASSUME NEW S, NEW s \in Seq(S), NEW e \in S, NEW i \in DOMAIN s, Losing(s, i)
  PROVE  Losing(Append(s, e), i)
<1>. DEFINE t == Append(s, e)
            w == Begun(s)
            r == RemoveAt(s, i)
<1>1. t[i] = s[i] /\ RemoveAt(t, i) = Append(r, e) /\ r \in Seq(S)
  <2>1. t[i] = s[i]  BY Appended
  <2>2. RemoveAt(t, i) = Append(r, e)  BY RemovedBefore
  <2>3. r \in Seq(S)
    <3>. HIDE DEF r
    <3>1. r = RemoveAt(s, i)  BY DEF r
    <3>. QED  BY <3>1, RemovedPlaces
  <2>. QED  BY <2>1, <2>2, <2>3
<1>2. /\ Begun(t) = AddStarted(w, e) /\ w \in Seq(Starteds(S))
      /\ Begun(Append(r, e)) = AddStarted(Begun(r), e)
  <2>. HIDE DEF r
  <2>. QED  BY <1>1, BegunAppended, BegunTyped
<1>3. IF Starts(s[i])
      THEN \E k \in DOMAIN w : /\ Begun(r) = RemoveAt(w, k)
                               /\ i = 1 => k = 1 /\ w[1] = Started(s[1])
      ELSE Begun(r) = w
  BY DEF Losing
<1>. HIDE DEF t, w, r
<1>4. CASE Starts(s[i])
  <2>1. PICK k \in DOMAIN w : /\ Begun(r) = RemoveAt(w, k)
                              /\ i = 1 => k = 1 /\ w[1] = Started(s[1])
    BY <1>3, <1>4
  <2>2. CASE Starts(e)
    <3>1. Begun(t) = Append(w, Started(e)) /\ Started(e) \in Starteds(S)
      BY <1>2, <2>2 DEF AddStarted, Starteds
    <3>2. RemoveAt(Begun(t), k) = Append(RemoveAt(w, k), Started(e))  BY <1>2, <3>1, RemovedBefore
    <3>3. k \in DOMAIN Begun(t) /\ Begun(t)[k] = w[k]  BY <1>2, <3>1, Appended
    <3>4. Begun(RemoveAt(t, i)) = RemoveAt(Begun(t), k)
      BY <1>1, <1>2, <2>1, <2>2, <3>2 DEF AddStarted
    <3>5. i = 1 => k = 1 /\ Begun(t)[1] = Started(t[1])  BY <1>1, <2>1, <3>3
    <3>6. Losing(t, i)  BY <1>1, <1>4, <3>3, <3>4, <3>5 DEF Losing
    <3>. QED  BY <3>6 DEF t
  <2>3. CASE ~Starts(e)
    <3>1. Begun(t) = w /\ Begun(RemoveAt(t, i)) = Begun(r)
      BY <1>1, <1>2, <2>3 DEF AddStarted
    <3>2. Losing(t, i)  BY <1>1, <1>4, <2>1, <3>1 DEF Losing
    <3>. QED  BY <3>2 DEF t
  <2>. QED  BY <2>2, <2>3
<1>5. CASE ~Starts(s[i])
  <2>1. Begun(RemoveAt(t, i)) = Begun(t)  BY <1>1, <1>2, <1>3, <1>5 DEF AddStarted
  <2>2. Losing(t, i)  BY <1>1, <1>5, <2>1 DEF Losing
  <2>. QED  BY <2>2 DEF t
<1>. QED  BY <1>4, <1>5

LEMMA FrameLost ==
  ASSUME NEW S, NEW s \in Seq(S), NEW i \in DOMAIN s PROVE Losing(s, i)
<1>. DEFINE G == {n \in Nat : \A t \in Seq(S) : Len(t) = n => \A j \in DOMAIN t : Losing(t, j)}
<1>1. 0 \in G
  <2>1. ASSUME NEW t \in Seq(S), Len(t) = 0, NEW j \in DOMAIN t PROVE FALSE
    <3>1. DOMAIN t = 1 .. 0  BY <2>1, LenProperties
    <3>. QED  BY <3>1
  <2>. QED  BY <2>1
<1>2. ASSUME NEW n \in Nat, n \in G PROVE n + 1 \in G
  <2>1. ASSUME NEW t \in Seq(S), Len(t) = n + 1, NEW j \in DOMAIN t PROVE Losing(t, j)
    <3>1. t # <<>>
      <4>1. Len(<<>>) = 0 /\ n + 1 # 0  BY EmptySeq
      <4>. QED  BY <2>1, <4>1
    <3>2. PICK u \in Seq(S), e \in S : t = Append(u, e)  BY <3>1, SequenceEmptyOrAppend
    <3>3. Len(t) = Len(u) + 1 /\ Len(u) \in Nat /\ DOMAIN u = 1 .. Len(u) /\ DOMAIN t = 1 .. Len(u) + 1
      BY <3>2, Appended
    <3>4. Len(u) = n
      <4>1. PICK m \in Nat : m = Len(u)  BY <3>3
      <4>2. m + 1 = n + 1  BY <2>1, <3>3, <4>1
      <4>. QED  BY <4>1, <4>2
    <3>5. CASE j \in DOMAIN u
      <4>1. Losing(u, j)  BY <1>2, <3>4, <3>5
      <4>. QED  BY <3>2, <3>5, <4>1, LosingBefore
    <3>6. CASE j \notin DOMAIN u
      <4>1. j = Len(u) + 1  BY <2>1, <3>3, <3>6
      <4>. QED  BY <3>2, <4>1, LosingLast
    <3>. QED  BY <3>5, <3>6
  <2>. QED  BY <2>1
<1>3. PICK k \in Nat : k = Len(s)  BY LenProperties
<1>. HIDE DEF G
<1>4. \A n \in 0 .. k : n \in G
  <2>1. \A n \in 0 .. k - 1 : n \in Nat  OBVIOUS
  <2>. QED  BY <1>1, <1>2, <2>1, UpTo
<1>5. k \in G  BY <1>4
<1>. QED  BY <1>3, <1>5 DEF G

-----------------------------------------------------------------------------
(* What send_pdu's callers see of a step *)

Items == [pdu : [of : {"task", "peer"}, no : Nat, long : BOOLEAN], whole : BOOLEAN]
Outgoing(p, sent, done) ==
  [pdu |-> [of |-> "task", no |-> p, long |-> sent[p] > FrameBytes], whole |-> p \in done]

\* All PDUs after the last one that arrived are on their way.
Seen ==
  \E a \in Nat, k \in Nat, n \in Nat :
    /\ a = Arrived /\ k = Len(lens) /\ n = k - a /\ k <= MaxPdus /\ DOMAIN lens = 1 .. k
    /\ OnTheWay \in Seq(Items) /\ Len(OnTheWay) = n
    /\ \A i \in 1 .. n : OnTheWay[i] = Outgoing(a + i, lens, returned)

LEMMA UnbrokenIsSeen == Types /\ Unbroken => Seen
<1>. SUFFICES ASSUME Types, Unbroken PROVE Seen
  OBVIOUS
<1>1. PICK a \in Nat, k \in Nat :
        a = Arrived /\ k = Len(lens) /\ a <= k /\ k <= MaxPdus /\ DOMAIN lens = 1 .. k
  <2>1. Arrived \in Nat  BY InOrderTyped
  <2>2. Len(lens) \in Nat /\ DOMAIN lens = 1 .. Len(lens)  BY LengthsBounded
  <2>3. Arrived <= Len(lens)  BY DEF Unbroken, PdusArriveInOrder
  <2>4. Len(lens) <= MaxPdus  BY DEF Types
  <2>. QED  BY <2>1, <2>2, <2>3, <2>4
<1>2. \A d \in ToSet(delivered) : Intact(d)  BY DEF Unbroken, AllIntact, ToSet
<1>3. OnTheWay = [i \in 1 .. k - a |-> [pdu |-> Sent(a + i), whole |-> a + i \in returned]]
  BY <1>1, <1>2 DEF OnTheWay, Arrived
<1>4. ASSUME NEW i \in 1 .. k - a PROVE Outgoing(a + i, lens, returned) \in Items
  <2>1. a + i \in Nat /\ a + i \in 1 .. k  BY <1>1
  <2>2. lens[a + i] \in 0 .. LengthRange - 1  BY <1>1, <2>1, LengthsBounded
  <2>3. (lens[a + i] > FrameBytes) \in BOOLEAN /\ (a + i \in returned) \in BOOLEAN  OBVIOUS
  <2>. QED  BY <2>1, <2>3 DEF Outgoing, Items
<1>5. OnTheWay = [i \in 1 .. k - a |-> Outgoing(a + i, lens, returned)]
  BY <1>3 DEF Outgoing, Sent
<1>6. PICK n \in Nat : n = k - a
  <2>1. k - a \in Nat  BY <1>1
  <2>. QED  BY <2>1
<1>. HIDE DEF Items, Outgoing
<1>7. OnTheWay \in Seq(Items) /\ Len(OnTheWay) = n
  BY <1>4, <1>5, <1>6
<1>. QED  BY <1>1, <1>5, <1>6, <1>7 DEF Seen

LEMMA UnbrokenIsSeenNext == ASSUME Types', Unbroken' PROVE Seen'
BY UnbrokenIsSeen, PTL

LEMMA OutboxSame == ASSUME UNCHANGED <<lens, returned, delivered>> PROVE OnTheWay' = OnTheWay
BY DEF OnTheWay, Intact, Sent, End

LEMMA OutboxSends ==
  ASSUME Types, Unbroken, Types', Unbroken', NEW len \in PduLens, lens' = Append(lens, len),
         UNCHANGED delivered, returned' \in {returned, returned \cup {Len(lens) + 1}}
  PROVE  /\ OnTheWay' = Append(OnTheWay, Outgoing(Len(lens) + 1, lens', returned'))
         /\ OnTheWay \in Seq(Items)
<1>1. PICK a \in Nat, k \in Nat, n \in Nat :
        /\ a = Arrived /\ k = Len(lens) /\ n = k - a /\ DOMAIN lens = 1 .. k
        /\ OnTheWay \in Seq(Items) /\ Len(OnTheWay) = n
        /\ \A i \in 1 .. n : OnTheWay[i] = Outgoing(a + i, lens, returned)
  BY UnbrokenIsSeen DEF Seen
<1>2. Len(lens') = k + 1 /\ \A p \in 1 .. k : lens'[p] = lens[p]
  BY <1>1, LengthAppended
<1>3. Arrived' = a  BY <1>1 DEF Arrived
<1>4. /\ OnTheWay' \in Seq(Items) /\ Len(OnTheWay') = n + 1
      /\ \A i \in 1 .. n + 1 : OnTheWay'[i] = Outgoing(a + i, lens', returned')
  <2>1. PICK b \in Nat, l \in Nat, m \in Nat :
          /\ b = Arrived' /\ l = Len(lens') /\ m = l - b
          /\ OnTheWay' \in Seq(Items) /\ Len(OnTheWay') = m
          /\ \A i \in 1 .. m : OnTheWay'[i] = Outgoing(b + i, lens', returned')
    BY UnbrokenIsSeenNext DEF Seen
  <2>2. b = a /\ m = n + 1  BY <1>1, <1>2, <1>3, <2>1
  <2>. QED  BY <2>1, <2>2
<1>5. PICK e : e = Outgoing(k + 1, lens', returned')  OBVIOUS
<1>6. a + (n + 1) = k + 1 /\ n + 1 \in 1 .. n + 1  BY <1>1
<1>7. e \in Items
  <2>1. OnTheWay'[n + 1] = e  BY <1>4, <1>5, <1>6
  <2>. QED  BY <1>4, <1>6, <2>1, ElementOfSeq
<1>. DEFINE t == Append(OnTheWay, e)
<1>8. t \in Seq(Items) /\ Len(t) = n + 1 /\ t[n + 1] = e /\ \A i \in 1 .. n : t[i] = OnTheWay[i]
  BY <1>1, <1>7, AppendProperties
<1>. HIDE DEF t
<1>9. ASSUME NEW i \in 1 .. n + 1 PROVE OnTheWay'[i] = t[i]
  <2>1. CASE i = n + 1  BY <1>4, <1>5, <1>6, <1>8, <2>1
  <2>2. CASE i # n + 1
    <3>0. a + n = k  BY <1>1
    <3>1. i \in 1 .. n /\ a + i \in 1 .. k /\ a + i # k + 1  BY <2>2, <3>0
    <3>2. Outgoing(a + i, lens', returned') = Outgoing(a + i, lens, returned)
      <4>1. lens'[a + i] = lens[a + i]  BY <1>2, <3>1
      <4>2. (a + i \in returned') = (a + i \in returned)  BY <1>1, <3>1
      <4>. QED  BY <4>1, <4>2 DEF Outgoing
    <3>. QED  BY <1>1, <1>4, <1>8, <3>1, <3>2
  <2>. QED  BY <2>1, <2>2
<1>10. OnTheWay' = t  BY <1>4, <1>8, <1>9, SeqEqual
<1>. QED  BY <1>1, <1>5, <1>10 DEF t

LEMMA OutboxReturns ==
  ASSUME Types, Unbroken, Types', Unbroken', UNCHANGED <<lens, delivered>>,
         Len(lens) # 0, Len(lens) \notin returned, returned' = returned \cup {Len(lens)}
  PROVE  OnTheWay' = IF OnTheWay # <<>> /\ ~Last(OnTheWay).whole
                     THEN Append(Front(OnTheWay), Transfer!Whole(Last(OnTheWay).pdu))
                     ELSE OnTheWay
<1>1. PICK a \in Nat, k \in Nat, n \in Nat :
        /\ a = Arrived /\ k = Len(lens) /\ n = k - a /\ DOMAIN lens = 1 .. k
        /\ OnTheWay \in Seq(Items) /\ Len(OnTheWay) = n
        /\ \A i \in 1 .. n : OnTheWay[i] = Outgoing(a + i, lens, returned)
  BY UnbrokenIsSeen DEF Seen
<1>2. Arrived' = a  BY <1>1 DEF Arrived
<1>3. /\ OnTheWay' \in Seq(Items) /\ Len(OnTheWay') = n
      /\ \A i \in 1 .. n : OnTheWay'[i] = Outgoing(a + i, lens, returned')
  <2>1. PICK b \in Nat, l \in Nat, m \in Nat :
          /\ b = Arrived' /\ l = Len(lens') /\ m = l - b
          /\ OnTheWay' \in Seq(Items) /\ Len(OnTheWay') = m
          /\ \A i \in 1 .. m : OnTheWay'[i] = Outgoing(b + i, lens', returned')
    BY UnbrokenIsSeenNext DEF Seen
  <2>2. b = a /\ m = n  BY <1>1, <1>2, <2>1
  <2>. QED  BY <2>1, <2>2
<1>4. CASE n = 0
  <2>1. OnTheWay = <<>> /\ OnTheWay' = <<>>  BY <1>1, <1>3, <1>4, EmptySeq
  <2>. QED  BY <2>1
<1>5. CASE n # 0
  <2>1. n \in 1 .. n /\ a + n = k  BY <1>1, <1>5
  <2>2. OnTheWay # <<>>
    <3>1. Len(<<>>) = 0  BY EmptySeq
    <3>. QED  BY <1>1, <1>5, <3>1
  <2>3. PICK g : g = Last(OnTheWay) /\ g = Outgoing(k, lens, returned)
    BY <1>1, <2>1 DEF Last
  <2>4. ~g.whole
    <3>1. g.whole = (k \in returned)  BY <2>3 DEF Outgoing
    <3>. QED  BY <1>1, <3>1
  <2>5. PICK e : e = Transfer!Whole(g.pdu) /\ e = Outgoing(k, lens, returned')
    <3>1. (k \in returned') = TRUE  BY <1>1
    <3>2. g.pdu = [of |-> "task", no |-> k, long |-> lens[k] > FrameBytes]  BY <2>3 DEF Outgoing
    <3>. QED  BY <3>1, <3>2 DEF Outgoing, Transfer!Whole
  <2>6. e \in Items
    <3>1. OnTheWay'[n] = e  BY <1>3, <2>1, <2>5
    <3>. QED  BY <1>3, <2>1, <3>1, ElementOfSeq
  <2>7. PICK f \in Seq(Items) :
          f = Front(OnTheWay) /\ Len(f) = n - 1 /\ \A i \in 1 .. n - 1 : f[i] = OnTheWay[i]
    <3>1. \A i \in 1 .. n - 1 : OnTheWay[i] \in Items  BY <1>1, ElementOfSeq
    <3>2. PICK f : f = SubSeq(OnTheWay, 1, n - 1)  OBVIOUS
    <3>3. /\ f \in Seq(Items) /\ Len(f) = IF 1 <= n - 1 THEN n - 1 - 1 + 1 ELSE 0
          /\ \A i \in 1 .. n - 1 - 1 + 1 : f[i] = OnTheWay[1 + i - 1]
      BY <3>1, <3>2, SubSeqProperties
    <3>4. Len(f) = n - 1 /\ \A i \in 1 .. n - 1 : f[i] = OnTheWay[i]  BY <1>5, <3>3
    <3>. QED  BY <1>1, <3>2, <3>3, <3>4 DEF Front
  <2>8. PICK t : t = Append(f, e)  OBVIOUS
  <2>9. t \in Seq(Items) /\ Len(t) = n /\ t[n] = e /\ \A i \in 1 .. n - 1 : t[i] = f[i]
    BY <2>6, <2>7, <2>8, AppendProperties
  <2>10. ASSUME NEW i \in 1 .. n PROVE OnTheWay'[i] = t[i]
    <3>1. CASE i = n  BY <1>3, <2>1, <2>5, <2>9, <3>1
    <3>2. CASE i # n
      <4>1. i \in 1 .. n - 1 /\ a + i # k  BY <1>1, <3>2
      <4>2. Outgoing(a + i, lens, returned') = Outgoing(a + i, lens, returned)
        <5>1. (a + i \in returned') = (a + i \in returned)  BY <1>1, <4>1
        <5>. QED  BY <5>1 DEF Outgoing
      <4>. QED  BY <1>1, <1>3, <2>7, <2>9, <4>1, <4>2
    <3>. QED  BY <3>1, <3>2
  <2>11. OnTheWay' = t  BY <1>3, <2>9, <2>10, SeqEqual
  <2>. QED  BY <2>2, <2>3, <2>4, <2>5, <2>7, <2>8, <2>11
<1>. QED  BY <1>4, <1>5

LEMMA OutboxArrives ==
  ASSUME Types, Unbroken, Types', Unbroken', UNCHANGED <<lens, returned>>, Arrived < Arrived'
  PROVE  \E i \in DOMAIN OnTheWay :
           /\ i = Arrived' - Arrived /\ Arrived \in Nat /\ Arrived' \in Nat
           /\ OnTheWay[i].whole = (Arrived' \in returned)
           /\ OnTheWay' = SubSeq(OnTheWay, i + 1, Len(OnTheWay))
<1>1. PICK a \in Nat, k \in Nat, n \in Nat :
        /\ a = Arrived /\ k = Len(lens) /\ n = k - a /\ DOMAIN lens = 1 .. k
        /\ OnTheWay \in Seq(Items) /\ Len(OnTheWay) = n
        /\ \A i \in 1 .. n : OnTheWay[i] = Outgoing(a + i, lens, returned)
  BY UnbrokenIsSeen DEF Seen
<1>2. PICK b \in Nat, m \in Nat :
        /\ b = Arrived' /\ m = k - b
        /\ OnTheWay' \in Seq(Items) /\ Len(OnTheWay') = m
        /\ \A i \in 1 .. m : OnTheWay'[i] = Outgoing(b + i, lens, returned)
  BY <1>1, UnbrokenIsSeenNext DEF Seen
<1>3. PICK j \in Nat : j = b - a /\ j \in 1 .. n /\ m = n - j  BY <1>1, <1>2
<1>4. DOMAIN OnTheWay = 1 .. n  BY <1>1, LenProperties
<1>5. OnTheWay[j].whole = (b \in returned)
  <2>1. a + j = b
    <3>1. a \in Nat /\ b \in Nat /\ j = b - a  BY <1>3
    <3>. QED  BY <3>1
  <2>2. OnTheWay[j] = Outgoing(b, lens, returned)  BY <1>1, <1>3, <2>1
  <2>. QED  BY <2>2 DEF Outgoing
<1>6. PICK t : t = SubSeq(OnTheWay, j + 1, n)  OBVIOUS
<1>7. t \in Seq(Items) /\ Len(t) = m /\ \A i \in 1 .. m : t[i] = OnTheWay[j + i]
  <2>1. \A i \in j + 1 .. n : OnTheWay[i] \in Items  BY <1>1, <1>3, ElementOfSeq
  <2>2. /\ t \in Seq(Items) /\ Len(t) = IF j + 1 <= n THEN n - (j + 1) + 1 ELSE 0
        /\ \A i \in 1 .. n - (j + 1) + 1 : t[i] = OnTheWay[j + 1 + i - 1]
    BY <1>6, <2>1, SubSeqProperties
  <2>3. Len(t) = m  BY <1>3, <2>2
  <2>4. \A i \in 1 .. m : i \in 1 .. n - (j + 1) + 1 /\ j + 1 + i - 1 = j + i  BY <1>3
  <2>. QED  BY <2>2, <2>3, <2>4
<1>8. ASSUME NEW i \in 1 .. m PROVE OnTheWay'[i] = t[i]
  <2>0. j + m = n /\ a + j = b
    <3>1. a \in Nat /\ b \in Nat /\ n \in Nat /\ j = b - a /\ m = n - j  BY <1>3
    <3>. QED  BY <3>1
  <2>1. j + i \in 1 .. n /\ a + (j + i) = b + i  BY <1>3, <2>0
  <2>. QED  BY <1>1, <1>2, <1>7, <2>1
<1>9. OnTheWay' = t  BY <1>2, <1>7, <1>8, SeqEqual
<1>. QED  BY <1>1, <1>2, <1>3, <1>4, <1>5, <1>6, <1>9

-----------------------------------------------------------------------------
(* What recv_pdu's callers see of a step *)

LEMMA WaitingTyped == Types => inbox \in Seq(Inbox) /\ Waiting \in Seq(Starteds(Inbox))
<1>1. Waiting = Begun(inbox)  BY DEF Waiting, Begun
<1>. QED  BY <1>1, BegunTyped DEF Types

LEMMA WaitingSame == ASSUME UNCHANGED inbox PROVE Waiting' = Waiting
BY DEF Waiting

LEMMA WaitingTaken ==
  ASSUME Types, inbox # <<>>, inbox' = Tail(inbox)
  PROVE  IF Starts(Head(inbox))
         THEN Waiting # <<>> /\ Head(Waiting) = Started(Head(inbox)) /\ Waiting' = Tail(Waiting)
         ELSE Waiting' = Waiting
<1>1. inbox \in Seq(Inbox) /\ Waiting \in Seq(Starteds(Inbox))  BY WaitingTyped
<1>2. inbox' = RemoveAt(inbox, 1) /\ Head(inbox) = inbox[1] /\ 1 \in DOMAIN inbox
  BY <1>1, TailRemoves, Tailed
<1>3. Losing(inbox, 1)  BY <1>1, <1>2, FrameLost
<1>4. Waiting = Begun(inbox) /\ Waiting' = Begun(RemoveAt(inbox, 1))
  BY <1>2 DEF Waiting, Begun
<1>5. CASE Starts(Head(inbox))
  <2>1. 1 \in DOMAIN Waiting /\ Waiting' = RemoveAt(Waiting, 1) /\ Waiting[1] = Started(inbox[1])
    BY <1>2, <1>3, <1>4, <1>5 DEF Losing
  <2>2. Waiting # <<>>
    <3>1. DOMAIN <<>> = {}  BY EmptySeq
    <3>. QED  BY <2>1, <3>1
  <2>. QED  BY <1>1, <1>2, <1>5, <2>1, <2>2, TailRemoves, Tailed
<1>6. CASE ~Starts(Head(inbox))
  BY <1>2, <1>3, <1>4, <1>6 DEF Losing
<1>. QED  BY <1>5, <1>6

LEMMA WaitingLost ==
  ASSUME Types, NEW i \in DOMAIN inbox, inbox' = RemoveAt(inbox, i)
  PROVE  \/ Waiting' = Waiting
         \/ \E k \in DOMAIN Waiting : Waiting' = RemoveAt(Waiting, k)
<1>1. inbox \in Seq(Inbox)  BY WaitingTyped
<1>2. Losing(inbox, i)  BY <1>1, FrameLost
<1>3. Waiting = Begun(inbox) /\ Waiting' = Begun(RemoveAt(inbox, i))
  BY DEF Waiting, Begun
<1>. QED  BY <1>2, <1>3 DEF Losing

LEMMA WaitingGrows ==
  ASSUME Types, NEW f \in Inbox, inbox' = Append(inbox, f)
  PROVE  Waiting' = AddStarted(Waiting, f)
<1>1. inbox \in Seq(Inbox)  BY WaitingTyped
<1>2. Begun(Append(inbox, f)) = AddStarted(Begun(inbox), f)  BY <1>1, BegunAppended
<1>3. Waiting = Begun(inbox) /\ Waiting' = Begun(Append(inbox, f))
  BY DEF Waiting, Begun
<1>. QED  BY <1>2, <1>3

-----------------------------------------------------------------------------
(* Every step is one of Transfer, or stutters *)

LEMMA TaskIs ==
  /\ phase \in {"fc", "cf"} => Task = "sending"
  /\ phase = "first" => Task = "receiving"
  /\ phase = "cfs" => Task = "assembling"
  /\ phase = "idle" => Task = "idle"
BY DEF Task

LEMMA TaskIsNext ==
  /\ phase' \in {"fc", "cf"} => Task' = "sending"
  /\ phase' = "first" => Task' = "receiving"
  /\ phase' = "cfs" => Task' = "assembling"
  /\ phase' = "idle" => Task' = "idle"
BY DEF Task

\* IInv and Unbroken.
FullInv == Types /\ Sending /\ PdusRise /\ AnswersKnown /\ Together /\ Unbroken

LEMMA StepIsNext == ASSUME Transfer!Next PROVE [Transfer!Next]_(Transfer!vars)
OBVIOUS

LEMMA Unseen ==
  ASSUME UNCHANGED <<lens, returned, delivered, gaveUp, received>>, Waiting' = Waiting, Task' = Task
  PROVE  [Transfer!Next]_(Transfer!vars)
<1>1. OnTheWay' = OnTheWay  BY OutboxSame
<1>2. UNCHANGED Transfer!vars  BY <1>1 DEF Transfer!vars
<1>. QED  BY <1>2

LEMMA OutgoingPdu ==
  ASSUME Types, NEW len \in PduLens, lens' = Append(lens, len), Len(lens) < MaxPdus
  PROVE  LET p == Outgoing(Len(lens) + 1, lens', returned').pdu
         IN  /\ p \in [of : {"task", "peer"}, no : 1 .. MaxPdus, long : BOOLEAN]
             /\ IsLong(p) <=> len > FrameBytes
<1>1. PICK k \in Nat : k = Len(lens) /\ lens'[k + 1] = len  BY LengthAppended
<1>2. MaxPdus \in Nat  BY IsoTpAssumption
<1>3. k + 1 \in 1 .. MaxPdus  BY <1>1, <1>2
<1>4. (len > FrameBytes) \in BOOLEAN  OBVIOUS
<1>. QED  BY <1>1, <1>3, <1>4 DEF Outgoing, IsLong

LEMMA SendSingleSimulated ==
  ASSUME FullInv, FullInv', NEW len \in PduLens, SendSingle(len)
  PROVE  [Transfer!Next]_(Transfer!vars)
<1>1. /\ phase = "idle" /\ phase' = phase /\ Len(lens) < MaxPdus /\ len <= FrameBytes
      /\ lens' = Append(lens, len) /\ returned' = returned \cup {Len(lens')}
      /\ UNCHANGED <<gaveUp, received, inbox, delivered>>
  BY DEF SendSingle, recvVars, peerVars
<1>2. Types /\ Types' /\ Unbroken /\ Unbroken'  BY DEF FullInv
<1>3. Len(lens') = Len(lens) + 1 /\ Len(lens) \in Nat  BY <1>1, <1>2, LengthAppended
<1>4. PICK g : g = Outgoing(Len(lens) + 1, lens', returned')  OBVIOUS
<1>5. OnTheWay' = Append(OnTheWay, g)
  <2>1. returned' \in {returned, returned \cup {Len(lens) + 1}}  BY <1>1, <1>3
  <2>. QED  BY <1>1, <1>2, <1>4, <2>1, OutboxSends
<1>6. /\ g.pdu \in [of : {"task", "peer"}, no : 1 .. MaxPdus, long : BOOLEAN]
      /\ ~IsLong(g.pdu)
  <2>1. ~(len > FrameBytes)
    <3>1. len \in Nat  BY <1>2, LengthsBounded
    <3>. QED  BY <1>1, <3>1 DEF FrameBytes
  <2>. QED  BY <1>1, <1>2, <1>4, <2>1, OutgoingPdu
<1>7. g = Transfer!Whole(g.pdu)
  <2>1. (Len(lens) + 1 \in returned') = TRUE  BY <1>1, <1>3
  <2>. QED  BY <1>4, <2>1 DEF Outgoing, Transfer!Whole
<1>8. Task = "idle" /\ Task' = Task /\ Waiting' = Waiting  BY <1>1, TaskIs, TaskIsNext, WaitingSame
<1>9. Transfer!SendShort(g.pdu)
  BY <1>1, <1>5, <1>6, <1>7, <1>8 DEF Transfer!SendShort, Transfer!NoneRaised, Transfer!recvVars
<1>10. Transfer!Next  BY <1>6, <1>9 DEF Transfer!Next, Transfer!Send
<1>. QED  BY <1>10, StepIsNext

LEMMA SendFirstSimulated ==
  ASSUME FullInv, FullInv', NEW len \in PduLens, SendFirst(len)
  PROVE  [Transfer!Next]_(Transfer!vars)
<1>1. /\ phase = "idle" /\ phase' = "fc" /\ Len(lens) < MaxPdus /\ len > FrameBytes
      /\ lens' = Append(lens, len)
      /\ UNCHANGED <<returned, gaveUp, received, inbox, delivered>>
  BY DEF SendFirst, recvVars, peerVars
<1>2. Types /\ Types' /\ Unbroken /\ Unbroken'  BY DEF FullInv
<1>3. Len(lens) \in Nat /\ DOMAIN lens = 1 .. Len(lens)  BY <1>2, LengthsBounded
<1>4. PICK g : g = Outgoing(Len(lens) + 1, lens', returned')  OBVIOUS
<1>5. OnTheWay' = Append(OnTheWay, g)
  <2>1. returned' \in {returned, returned \cup {Len(lens) + 1}}  BY <1>1
  <2>. QED  BY <1>1, <1>2, <1>4, <2>1, OutboxSends
<1>6. /\ g.pdu \in [of : {"task", "peer"}, no : 1 .. MaxPdus, long : BOOLEAN]
      /\ IsLong(g.pdu)
  BY <1>1, <1>2, <1>4, OutgoingPdu
<1>7. g = Transfer!Announced(g.pdu)
  <2>1. returned \subseteq DOMAIN lens  BY <1>2 DEF Types
  <2>2. (Len(lens) + 1 \in returned') = FALSE  BY <1>1, <1>3, <2>1
  <2>. QED  BY <1>4, <2>2 DEF Outgoing, Transfer!Announced
<1>8. Task = "idle" /\ Task' = "sending" /\ Waiting' = Waiting  BY <1>1, TaskIs, TaskIsNext, WaitingSame
<1>9. Transfer!SendLong(g.pdu)
  BY <1>1, <1>5, <1>6, <1>7, <1>8 DEF Transfer!SendLong, Transfer!NoneRaised, Transfer!recvVars
<1>10. Transfer!Next  BY <1>6, <1>9 DEF Transfer!Next, Transfer!Send
<1>. QED  BY <1>10, StepIsNext

LEMMA TakeFlowControlSimulated ==
  ASSUME FullInv, TakeFlowControl PROVE [Transfer!Next]_(Transfer!vars)
<1>1. /\ phase = "fc" /\ phase' = "cf" /\ inbox # <<>> /\ inbox' = Tail(inbox)
      /\ Head(inbox).kind = "FC" /\ UNCHANGED <<lens, returned, delivered, gaveUp, received>>
  BY DEF TakeFlowControl, recvVars, peerVars
<1>2. Types  BY DEF FullInv
<1>3. ~Starts(Head(inbox))  BY <1>1 DEF Starts
<1>4. Waiting' = Waiting  BY <1>1, <1>2, <1>3, WaitingTaken
<1>5. Task' = Task  BY <1>1, TaskIs, TaskIsNext
<1>. QED  BY <1>1, <1>4, <1>5, Unseen

LEMMA RaisesSimulated ==
  ASSUME FullInv, TakeOtherFrame \/ FlowControlTimeout PROVE [Transfer!Next]_(Transfer!vars)
<1>1. /\ phase = "fc" /\ phase' = "idle" /\ gaveUp' = TRUE
      /\ UNCHANGED <<lens, returned, delivered, received>>
      /\ (inbox # <<>> /\ inbox' = Tail(inbox)) \/ inbox' = inbox
  BY DEF TakeOtherFrame, FlowControlTimeout, recvVars, peerVars
<1>2. Types  BY DEF FullInv
<1>3. Task = "sending" /\ Task' = "idle" /\ OnTheWay' = OnTheWay
  BY <1>1, TaskIs, TaskIsNext, OutboxSame
<1>4. CASE Waiting' = Waiting
  <2>1. Transfer!SendRaises  BY <1>1, <1>3, <1>4 DEF Transfer!SendRaises, Transfer!recvVars
  <2>. QED  BY <2>1, StepIsNext DEF Transfer!Next, Transfer!Send
<1>5. CASE Waiting # <<>> /\ Waiting' = Tail(Waiting)
  <2>1. Transfer!SendTakes  BY <1>1, <1>3, <1>5 DEF Transfer!SendTakes
  <2>. QED  BY <2>1, StepIsNext DEF Transfer!Next, Transfer!Send
<1>6. Waiting' = Waiting \/ (Waiting # <<>> /\ Waiting' = Tail(Waiting))
  BY <1>1, <1>2, WaitingTaken, WaitingSame
<1>. QED  BY <1>4, <1>5, <1>6

LEMMA SendConsecutiveSimulated ==
  ASSUME FullInv, FullInv', SendConsecutive PROVE [Transfer!Next]_(Transfer!vars)
<1>1. /\ phase = "cf" /\ phase' \in {"idle", "fc", "cf"}
      /\ UNCHANGED <<lens, delivered, gaveUp, received, inbox>>
      /\ \/ phase' = "idle" /\ returned' = returned \cup {Len(lens)}
         \/ phase' # "idle" /\ returned' = returned
  BY DEF SendConsecutive, recvVars, peerVars
<1>2. Types /\ Types' /\ Unbroken /\ Unbroken'  BY DEF FullInv
<1>3. lens # <<>> /\ Len(lens) \notin returned
  BY <1>1 DEF FullInv, Sending, Position
<1>4. Task = "sending" /\ Waiting' = Waiting  BY <1>1, TaskIs, WaitingSame
<1>5. CASE phase' = "idle"
  <2>1. Len(lens) # 0  BY <1>2, <1>3, EmptySeq DEF Types
  <2>2. OnTheWay' = IF OnTheWay # <<>> /\ ~Last(OnTheWay).whole
                    THEN Append(Front(OnTheWay), Transfer!Whole(Last(OnTheWay).pdu))
                    ELSE OnTheWay
    BY <1>1, <1>2, <1>3, <1>5, <2>1, OutboxReturns
  <2>3. Task' = "idle"  BY <1>5, TaskIsNext
  <2>4. Transfer!SendReturns
    BY <1>1, <1>4, <2>2, <2>3
    DEF Transfer!SendReturns, Transfer!NoneRaised, Transfer!recvVars, Transfer!Last, Transfer!Front,
        Last, Front
  <2>. QED  BY <2>4, StepIsNext DEF Transfer!Next, Transfer!Send
<1>6. CASE phase' # "idle"
  <2>1. Task' = Task  BY <1>1, <1>4, <1>6, TaskIsNext
  <2>. QED  BY <1>1, <1>4, <1>6, <2>1, Unseen
<1>. QED  BY <1>5, <1>6

LEMMA RecvPduSimulated == ASSUME FullInv, RecvPdu PROVE [Transfer!Next]_(Transfer!vars)
<1>1. /\ phase = "idle" /\ phase' = "first" /\ received' = <<"none">>
      /\ UNCHANGED <<lens, returned, delivered, gaveUp, inbox>>
  BY DEF RecvPdu, sendVars, peerVars
<1>2. /\ Task = "idle" /\ Task' = "receiving" /\ OnTheWay' = OnTheWay /\ Waiting' = Waiting
  BY <1>1, TaskIs, TaskIsNext, OutboxSame, WaitingSame
<1>3. Transfer!RecvPdu  BY <1>1, <1>2 DEF Transfer!RecvPdu, Transfer!NoneRaised
<1>. QED  BY <1>3, StepIsNext DEF Transfer!Next, Transfer!Recv

LEMMA TakeLastSimulated == ASSUME FullInv, TakeLast PROVE [Transfer!Next]_(Transfer!vars)
<1>1. /\ phase = "first" /\ phase' = "idle" /\ inbox # <<>> /\ inbox' = Tail(inbox)
      /\ Head(inbox).kind # "FF"
      /\ received' = IF Head(inbox).kind = "SF" THEN <<"pdu", Answer(Head(inbox).pdu)>>
                     ELSE <<"nothing">>
      /\ UNCHANGED <<lens, returned, delivered, gaveUp>>
  BY DEF TakeLast, sendVars, peerVars
<1>2. Types  BY DEF FullInv
<1>3. Task = "receiving" /\ Task' = "idle" /\ OnTheWay' = OnTheWay
  BY <1>1, TaskIs, TaskIsNext, OutboxSame
<1>4. CASE Head(inbox).kind = "SF"
  <2>1. Starts(Head(inbox))  BY <1>4 DEF Starts
  <2>2. Waiting # <<>> /\ Head(Waiting) = Started(Head(inbox)) /\ Waiting' = Tail(Waiting)
    BY <1>1, <1>2, <2>1, WaitingTaken
  <2>3. Head(Waiting).pdu = Answer(Head(inbox).pdu)  BY <1>4, <2>2 DEF Started
  <2>4. ~IsLong(Head(Waiting).pdu)  BY <2>3 DEF IsLong, Answer
  <2>5. received' = Transfer!Got(Head(Waiting).pdu)  BY <1>1, <1>4, <2>3 DEF Transfer!Got
  <2>6. Transfer!RecvShort
    BY <1>1, <1>3, <2>2, <2>4, <2>5 DEF Transfer!RecvShort, Transfer!NoneRaised
  <2>. QED  BY <2>6, StepIsNext DEF Transfer!Next, Transfer!Recv
<1>5. CASE Head(inbox).kind # "SF"
  <2>1. ~Starts(Head(inbox))  BY <1>1, <1>5 DEF Starts
  <2>2. Waiting' = Waiting  BY <1>1, <1>2, <2>1, WaitingTaken
  <2>3. Transfer!RecvNothing
    BY <1>1, <1>3, <1>5, <2>2 DEF Transfer!RecvNothing, Transfer!NoneRaised, Transfer!Nothing
  <2>. QED  BY <2>3, StepIsNext DEF Transfer!Next, Transfer!Recv
<1>. QED  BY <1>4, <1>5

LEMMA TakeFirstSimulated == ASSUME FullInv, TakeFirst PROVE [Transfer!Next]_(Transfer!vars)
<1>1. /\ phase = "first" /\ phase' = "cfs" /\ inbox # <<>> /\ inbox' = Tail(inbox)
      /\ Head(inbox).kind = "FF"
      /\ UNCHANGED <<lens, returned, delivered, gaveUp, received>>
  BY DEF TakeFirst, sendVars, recvVars, peerVars
<1>2. Types  BY DEF FullInv
<1>3. Task = "receiving" /\ Task' = "assembling" /\ OnTheWay' = OnTheWay
  BY <1>1, TaskIs, TaskIsNext, OutboxSame
<1>4. Starts(Head(inbox))  BY <1>1 DEF Starts
<1>5. Waiting # <<>> /\ Head(Waiting) = Started(Head(inbox)) /\ Waiting' = Tail(Waiting)
  BY <1>1, <1>2, <1>4, WaitingTaken
<1>6. Head(Waiting).pdu = LongAnswer(Head(inbox).pdu)  BY <1>1, <1>5 DEF Started
<1>7. IsLong(Head(Waiting).pdu)  BY <1>6 DEF IsLong, LongAnswer
<1>8. Transfer!RecvLong
  BY <1>1, <1>3, <1>5, <1>7 DEF Transfer!RecvLong, Transfer!NoneRaised
<1>. QED  BY <1>8, StepIsNext DEF Transfer!Next, Transfer!Recv

LEMMA FirstTimeoutSimulated == ASSUME FullInv, FirstTimeout PROVE [Transfer!Next]_(Transfer!vars)
<1>1. /\ phase = "first" /\ phase' = "idle" /\ received' = <<"nothing">>
      /\ UNCHANGED <<lens, returned, delivered, gaveUp, inbox>>
  BY DEF FirstTimeout, sendVars, peerVars
<1>2. Task = "receiving" /\ Task' = "idle" /\ OnTheWay' = OnTheWay /\ Waiting' = Waiting
  BY <1>1, TaskIs, TaskIsNext, OutboxSame, WaitingSame
<1>3. Transfer!RecvNothing
  BY <1>1, <1>2 DEF Transfer!RecvNothing, Transfer!NoneRaised, Transfer!Nothing
<1>. QED  BY <1>3, StepIsNext DEF Transfer!Next, Transfer!Recv

\* A frame of the inbox is gone, and nobody saw it.
LEMMA LossSimulated ==
  ASSUME FullInv, UNCHANGED <<phase, lens, returned, delivered, gaveUp, received>>,
         NEW i \in DOMAIN inbox, inbox' = RemoveAt(inbox, i)
  PROVE  [Transfer!Next]_(Transfer!vars)
<1>1. Types  BY DEF FullInv
<1>2. OnTheWay' = OnTheWay /\ Task' = Task  BY OutboxSame DEF Task
<1>3. CASE Waiting' = Waiting
  BY <1>2, <1>3, Unseen
<1>4. ASSUME NEW k \in DOMAIN Waiting, Waiting' = RemoveAt(Waiting, k)
      PROVE  [Transfer!Next]_(Transfer!vars)
  <2>1. UNCHANGED <<Task, OnTheWay, gaveUp, received>>  BY <1>2
  <2>2. Transfer!Lose  BY <1>4, <2>1
    DEF Transfer!Lose, Transfer!NoneRaised, Transfer!RemoveAt, RemoveAt
  <2>. QED  BY <2>2, StepIsNext DEF Transfer!Next
<1>. QED  BY <1>1, <1>3, <1>4, WaitingLost

LEMMA SkipForeignSimulated == ASSUME FullInv, SkipForeign PROVE [Transfer!Next]_(Transfer!vars)
<1>1. /\ inbox # <<>> /\ inbox' = Tail(inbox)
      /\ UNCHANGED <<phase, lens, returned, delivered, gaveUp, received>>
  BY DEF SkipForeign, sendVars, recvVars, peerVars
<1>2. inbox \in Seq(Inbox)  BY DEF FullInv, Types
<1>3. inbox' = RemoveAt(inbox, 1) /\ 1 \in DOMAIN inbox  BY <1>1, <1>2, TailRemoves, Tailed
<1>. QED  BY <1>1, <1>3, LossSimulated

LEMMA RecvRaisesSimulated ==
  ASSUME FullInv, TakeConsecutive \/ ConsecutiveTimeout PROVE [Transfer!Next]_(Transfer!vars)
<1>1. /\ phase = "cfs" /\ phase' = "idle" /\ received' = <<"raised">>
      /\ UNCHANGED <<lens, returned, delivered, gaveUp>>
      /\ (inbox # <<>> /\ Head(inbox).kind = "CF" /\ inbox' = Tail(inbox)) \/ inbox' = inbox
  BY DEF TakeConsecutive, ConsecutiveTimeout, sendVars, peerVars
<1>2. Types  BY DEF FullInv
<1>3. Task = "assembling" /\ Task' = "idle" /\ OnTheWay' = OnTheWay
  BY <1>1, TaskIs, TaskIsNext, OutboxSame
<1>4. Waiting' = Waiting
  <2>1. Head(inbox).kind = "CF" => ~Starts(Head(inbox))  BY DEF Starts
  <2>. QED  BY <1>1, <1>2, <2>1, WaitingTaken, WaitingSame
<1>5. Transfer!RecvRaises
  BY <1>1, <1>3, <1>4 DEF Transfer!RecvRaises, Transfer!NoneRaised, Transfer!Raised
<1>. QED  BY <1>5, StepIsNext DEF Transfer!Next, Transfer!Recv

LEMMA NothingBegun ==
  ASSUME NEW s \in Seq(Inbox), NEW f \in Inbox, ~Starts(f)
  PROVE  Append(s, f) \in Seq(Inbox) /\ Begun(Append(s, f)) = Begun(s)
<1>1. Append(s, f) \in Seq(Inbox)  BY AppendProperties
<1>2. Begun(Append(s, f)) = AddStarted(Begun(s), f)  BY BegunAppended
<1>. QED  BY <1>1, <1>2 DEF AddStarted

\* Flow control and consecutive frames are nothing to the callers.
LEMMA WaitingKept ==
  ASSUME Types, NEW f \in Inbox, ~Starts(f), inbox' = Append(inbox, f) PROVE Waiting' = Waiting
<1>1. inbox \in Seq(Inbox)  BY DEF Types
<1>2. Begun(Append(inbox, f)) = Begun(inbox)  BY <1>1, NothingBegun
<1>. QED  BY <1>2 DEF Waiting, Begun

LEMMA FlowStartsNothing ==
  ASSUME NEW fs \in {"CTS", "WT", "OVFLW"}, NEW size \in 0 .. 255
  PROVE  Flow(fs, size) \in Inbox /\ ~Starts(Flow(fs, size))
BY FlowTyped DEF Starts

LEMMA PeerTakesFirstSimulated ==
  ASSUME FullInv, PeerTakesFirst PROVE [Transfer!Next]_(Transfer!vars)
<1>1. UNCHANGED <<phase, lens, returned, delivered, gaveUp, received>>
  BY DEF PeerTakesFirst, sendVars, recvVars
<1>2. Types /\ inbox \in Seq(Inbox)  BY DEF FullInv, Types
<1>3. ASSUME inbox' = Append(inbox, Flow("OVFLW", 0)) PROVE Waiting' = Waiting
  <2>1. PICK f \in Inbox : f = Flow("OVFLW", 0) /\ ~Starts(f)  BY FlowStartsNothing
  <2>. QED  BY <1>2, <1>3, <2>1, WaitingKept
<1>4. ASSUME NEW size \in BlockSizes, NEW wait \in {<<>>, <<Flow("WT", 0)>>},
             inbox' = Append(inbox \o wait, Flow("CTS", size))
      PROVE  Waiting' = Waiting
  <2>1. size \in 0 .. 255  BY IsoTpAssumption
  <2>2. PICK f \in Inbox : f = Flow("CTS", size) /\ ~Starts(f)  BY <2>1, FlowStartsNothing
  <2>3. PICK g \in Inbox : g = Flow("WT", 0) /\ ~Starts(g)  BY FlowStartsNothing
  <2>4. inbox \o wait = inbox \/ inbox \o wait = Append(inbox, g)
    <3>1. CASE wait = <<>>  BY <1>2, <3>1, ConcatEmptySeq
    <3>2. CASE wait = <<g>>  BY <1>2, <3>2, AppendIsConcat
    <3>. QED  BY <2>3, <3>1, <3>2
  <2>5. inbox \o wait \in Seq(Inbox) /\ Begun(inbox \o wait) = Begun(inbox)
    BY <1>2, <2>3, <2>4, NothingBegun
  <2>6. PICK s \in Seq(Inbox) : s = inbox \o wait /\ Begun(s) = Begun(inbox)  BY <2>5
  <2>7. Begun(Append(s, f)) = Begun(s)  BY <2>2, NothingBegun
  <2>8. inbox' = Append(s, f)  BY <1>4, <2>2, <2>6
  <2>. QED  BY <2>6, <2>7, <2>8 DEF Waiting, Begun
<1>5. Waiting' = Waiting  BY <1>3, <1>4 DEF PeerTakesFirst
<1>6. Task' = Task  BY <1>1 DEF Task
<1>. QED  BY <1>1, <1>5, <1>6, Unseen

\* While no send_pdu raised, PDUs arrive one after the other.
LEMMA NextArrives ==
  ASSUME Types, Together, Unbroken, ~gaveUp, toPeer # <<>>,
         Head(toPeer).kind \in {"SF", "CF"}
  PROVE  Head(toPeer).pdu = Arrived + 1
<1>1. InStep
  <2>1. ~TurnedDown  BY DEF TurnedDown
  <2>. QED  BY <2>1 DEF Together
<1>2. PICK d \in Nat : d = Len(delivered) /\ DOMAIN delivered = 1 .. d
  BY LenProperties DEF Types
<1>3. Arrived = d
  <2>1. delivered \in Seq(Seq(Wire)) /\ DeliveredInOrder  BY <1>1 DEF Types, InStep
  <2>2. CASE delivered = <<>>
    <3>1. d = 0  BY <1>2, <2>2, EmptySeq
    <3>. QED  BY <2>2, <3>1 DEF Arrived
  <2>3. CASE delivered # <<>>
    <3>1. d # 0  BY <1>2, <2>1, <2>3, EmptySeq
    <3>2. d \in DOMAIN delivered /\ Last(delivered) = delivered[d]  BY <1>2, <3>1 DEF Last
    <3>3. delivered[d] # <<>> /\ delivered[d][1].pdu = d  BY <2>1, <3>2 DEF DeliveredInOrder
    <3>4. Head(delivered[d]) = delivered[d][1]  OBVIOUS
    <3>. QED  BY <2>3, <3>2, <3>3, <3>4 DEF Arrived
  <2>. QED  BY <2>2, <2>3
<1>4. PICK p, n \in [1 .. Len(toPeer) + 1 -> Nat] :
        p[1] = d + 1 /\ Follows(p[1], n[1], Head(toPeer), p[2], n[2])
  BY <1>1, <1>2, HeadOfPath DEF InStep
<1>5. Head(toPeer).pdu = p[1]  BY <1>4 DEF Follows
<1>. QED  BY <1>3, <1>4, <1>5

LEMMA DeliverySimulated ==
  ASSUME FullInv, FullInv', PeerTakesSingle \/ PeerTakesConsecutive, delivered' # delivered
  PROVE  [Transfer!Next]_(Transfer!vars)
<1>1. /\ UNCHANGED <<phase, lens, returned, gaveUp, received, inbox>>
      /\ toPeer # <<>> /\ Head(toPeer).kind \in {"SF", "CF"}
  BY DEF PeerTakesSingle, PeerTakesConsecutive, sendVars, recvVars
<1>2. Types /\ Types' /\ Unbroken /\ Unbroken' /\ Together  BY DEF FullInv
<1>3. PICK frames \in Seq(Wire) :
        /\ PeerDelivers(frames) /\ frames # <<>> /\ Intact(frames)
        /\ frames[1].pdu \in DOMAIN lens /\ frames[1].pdu \in returned
        /\ frames[1].pdu = Head(toPeer).pdu /\ Arrived < frames[1].pdu
  BY <1>2, Delivery
<1>4. Arrived' = frames[1].pdu  BY <1>1, <1>2, <1>3, UnbrokenDelivers
<1>5. PICK i \in DOMAIN OnTheWay :
        /\ i = Arrived' - Arrived /\ Arrived \in Nat /\ Arrived' \in Nat
        /\ OnTheWay[i].whole = (Arrived' \in returned)
        /\ OnTheWay' = SubSeq(OnTheWay, i + 1, Len(OnTheWay))
  BY <1>1, <1>2, <1>3, <1>4, OutboxArrives
<1>6. OnTheWay[i].whole  BY <1>3, <1>4, <1>5
<1>7. \A j \in 1 .. i - 1 : gaveUp \/ ~OnTheWay[j].whole
  <2>1. CASE gaveUp  BY <2>1
  <2>2. CASE ~gaveUp
    <3>1. Arrived' = Arrived + 1  BY <1>1, <1>2, <1>3, <1>4, <2>2, NextArrives
    <3>2. i = 1  BY <1>5, <3>1
    <3>. QED  BY <3>2
  <2>. QED  BY <2>1, <2>2
<1>8. Waiting' = Waiting /\ Task' = Task  BY <1>1 DEF Waiting, Task
<1>9. Transfer!Arrive(i)
  BY <1>1, <1>5, <1>6, <1>7, <1>8 DEF Transfer!Arrive, Transfer!NoneRaised, Transfer!recvVars
<1>10. Transfer!Next  BY <1>9 DEF Transfer!Next
<1>. QED  BY <1>10, StepIsNext

LEMMA ReceptionSimulated ==
  ASSUME FullInv, PeerTakesConsecutive, UNCHANGED delivered PROVE [Transfer!Next]_(Transfer!vars)
<1>1. /\ UNCHANGED <<phase, lens, returned, gaveUp, received>>
      /\ inbox' = inbox \/ inbox' = Append(inbox, Flow("CTS", reception.bs))
  BY DEF PeerTakesConsecutive, sendVars, recvVars
<1>2. Types /\ reception.bs \in 0 .. 255  BY DEF FullInv, Types
<1>3. PICK f \in Inbox : f = Flow("CTS", reception.bs) /\ ~Starts(f)
  BY <1>2, FlowStartsNothing
<1>4. Waiting' = Waiting  BY <1>1, <1>2, <1>3, WaitingKept, WaitingSame
<1>5. Task' = Task  BY <1>1 DEF Task
<1>. QED  BY <1>1, <1>4, <1>5, Unseen

LEMMA SingleDelivers == ASSUME FullInv, PeerTakesSingle PROVE delivered' # delivered
<1>1. PICK frames : delivered' = Append(delivered, frames) /\ frames = <<Head(toPeer)>>
  BY DEF PeerTakesSingle, PeerDelivers
<1>2. frames \in Seq(Wire)
  <2>1. toPeer \in Seq(Wire) /\ toPeer # <<>>  BY DEF FullInv, Types, PeerTakesSingle
  <2>2. Head(toPeer) \in Wire  BY <2>1, HeadTailProperties
  <2>. QED  BY <1>1, <2>2
<1>3. delivered \in Seq(Seq(Wire))  BY DEF FullInv, Types
<1>4. Len(delivered) \in Nat /\ Len(delivered') = Len(delivered) + 1
  BY <1>1, <1>2, <1>3, AppendProperties, LenProperties
<1>. QED  BY <1>4

LEMMA PeerAnswersSimulated == ASSUME FullInv, PeerAnswers PROVE [Transfer!Next]_(Transfer!vars)
<1>1. PICK cfs \in AnswerCfs :
        inbox' = Append(inbox, Frame(IF cfs = 0 THEN "SF" ELSE "FF", answer.done + 1, 0, FirstBytes, 0))
  BY DEF PeerAnswers
<1>2. /\ answer.done < Len(delivered)
      /\ UNCHANGED <<phase, lens, returned, delivered, gaveUp, received>>
  BY DEF PeerAnswers, sendVars, recvVars
<1>3. Types /\ inbox \in Seq(Inbox)  BY DEF FullInv, Types
<1>4. PICK p \in Nat : p = answer.done + 1 /\ p \in 1 .. MaxPdus
  <2>1. PICK d \in Nat, l \in Nat, a \in Nat :
          d = Len(delivered) /\ l = Len(lens) /\ a = answer.done /\ l <= MaxPdus
    BY <1>3, LenProperties DEF Types
  <2>2. d <= TakenUp /\ TakenUp <= l /\ TakenUp \in Nat
    <3>1. TakenUp \in {d, d + 1}  BY <2>1 DEF TakenUp
    <3>2. TakenUp <= l  BY <2>1 DEF FullInv, PdusRise
    <3>. QED  BY <3>1, <3>2
  <2>3. MaxPdus \in Nat  BY IsoTpAssumption
  <2>. QED  BY <1>2, <2>1, <2>2, <2>3
<1>5. PICK kind \in {"SF", "FF"} : kind = IF cfs = 0 THEN "SF" ELSE "FF"  OBVIOUS
<1>6. PICK f \in Inbox : f = Frame(kind, p, 0, FirstBytes, 0) /\ f.kind = kind /\ f.pdu = p
  <2>1. FirstBytes \in Nat /\ kind \in {"SF", "FF", "CF"}  BY DEF FirstBytes
  <2>. QED  BY <2>1, FrameTyped
<1>7. inbox' = Append(inbox, f)  BY <1>1, <1>4, <1>5, <1>6
<1>8. Waiting' = Append(Waiting, Started(f))
  <2>1. Starts(f)  BY <1>6 DEF Starts
  <2>. QED  BY <1>3, <1>7, <2>1, WaitingGrows DEF AddStarted
<1>9. PICK q : q = Started(f).pdu  OBVIOUS
<1>10. q \in [of : {"task", "peer"}, no : 1 .. MaxPdus, long : BOOLEAN]
  BY <1>4, <1>6, <1>9 DEF Started, Answer, LongAnswer
<1>11. Started(f) = Transfer!Announced(q)
  BY <1>9 DEF Started, Transfer!Announced
<1>12. OnTheWay' = OnTheWay /\ Task' = Task  BY <1>2, OutboxSame DEF Task
<1>13. Transfer!Put(q)
  BY <1>2, <1>8, <1>11, <1>12 DEF Transfer!Put, Transfer!NoneRaised
<1>14. Transfer!Next  BY <1>10, <1>13 DEF Transfer!Next
<1>. QED  BY <1>14, StepIsNext

LEMMA PeerContinuesSimulated ==
  ASSUME FullInv, PeerContinues PROVE [Transfer!Next]_(Transfer!vars)
<1>1. /\ inbox' = Append(inbox, Frame("CF", answer.done, 0, FrameBytes, answer.sn))
      /\ UNCHANGED <<phase, lens, returned, delivered, gaveUp, received>>
  BY DEF PeerContinues, sendVars, recvVars
<1>2. Types  BY DEF FullInv
<1>3. PICK f \in Inbox : f = Frame("CF", answer.done, 0, FrameBytes, answer.sn) /\ f.kind = "CF"
  <2>1. PICK d \in Nat, s \in Nat, n \in Nat : d = answer.done /\ s = answer.sn /\ n = FrameBytes
    BY <1>2 DEF Types, FrameBytes
  <2>2. PICK f \in Inbox : f = Frame("CF", d, 0, n, s) /\ f.kind = "CF"
    <3>1. "CF" \in {"SF", "FF", "CF"} /\ 0 \in Nat  OBVIOUS
    <3>. QED  BY <3>1, FrameTyped
  <2>. QED  BY <2>1, <2>2
<1>4. ~Starts(f)  BY <1>3 DEF Starts
<1>5. Waiting' = Waiting  BY <1>1, <1>2, <1>3, <1>4, WaitingKept
<1>6. Task' = Task  BY <1>1 DEF Task
<1>. QED  BY <1>1, <1>5, <1>6, Unseen

LEMMA QuietPeerSimulated ==
  ASSUME PeerTakesFlowControl \/ PeerForgets \/ UNCHANGED vars
  PROVE  [Transfer!Next]_(Transfer!vars)
<1>1. UNCHANGED <<phase, lens, returned, delivered, gaveUp, received, inbox>>
  BY DEF PeerTakesFlowControl, PeerForgets, vars, sendVars, recvVars, peerVars
<1>2. Task' = Task /\ Waiting' = Waiting  BY <1>1 DEF Task, Waiting
<1>. QED  BY <1>1, <1>2, Unseen

LEMMA LoseFrameSimulated == ASSUME FullInv, LoseFrame PROVE [Transfer!Next]_(Transfer!vars)
BY LossSimulated DEF LoseFrame, sendVars, recvVars

LEMMA StepSimulated == ASSUME FullInv, FullInv', [Next]_vars PROVE [Transfer!Next]_(Transfer!vars)
<1>1. CASE \E len \in PduLens : SendSingle(len) \/ SendFirst(len)
  BY <1>1, SendSingleSimulated, SendFirstSimulated
<1>2. CASE SendStep
  BY <1>2, TakeFlowControlSimulated, RaisesSimulated, SendConsecutiveSimulated DEF SendStep
<1>3. CASE RecvPdu \/ RecvStep
  BY <1>3, RecvPduSimulated, TakeLastSimulated, TakeFirstSimulated, FirstTimeoutSimulated,
     SkipForeignSimulated, RecvRaisesSimulated DEF RecvStep
<1>4. CASE PeerTakesSingle \/ PeerTakesConsecutive
  BY <1>4, DeliverySimulated, ReceptionSimulated, SingleDelivers
<1>5. CASE PeerStep
  BY <1>4, <1>5, PeerTakesFirstSimulated, QuietPeerSimulated, PeerAnswersSimulated,
     PeerContinuesSimulated DEF PeerStep
<1>6. CASE LoseFrame  BY <1>6, LoseFrameSimulated
<1>7. CASE UNCHANGED vars  BY <1>7, QuietPeerSimulated
<1>. QED  BY <1>1, <1>2, <1>3, <1>5, <1>6, <1>7 DEF Next

LEMMA InitSimulated == Init => Transfer!Init
<1>. SUFFICES ASSUME Init PROVE Transfer!Init
  OBVIOUS
<1>1. /\ phase = "idle" /\ lens = <<>> /\ delivered = <<>> /\ inbox = <<>>
      /\ gaveUp = FALSE /\ received = <<"none">>
  BY DEF Init
<1>2. Task = "idle"  BY <1>1, TaskIs
<1>3. Waiting = <<>>  BY <1>1, BegunEmpty DEF Waiting, Begun
<1>4. OnTheWay = <<>>
  <2>1. ToSet(delivered) = {}  BY <1>1, EmptySeq DEF ToSet
  <2>2. Len(lens) - 0 = 0 /\ 1 .. 0 = {}  BY <1>1, EmptySeq
  <2>3. OnTheWay = [i \in 1 .. 0 |-> [pdu |-> Sent(0 + i), whole |-> 0 + i \in returned]]
    BY <1>1, <2>1, <2>2 DEF OnTheWay
  <2>. QED  BY <2>3
<1>. QED  BY <1>1, <1>2, <1>3, <1>4 DEF Transfer!Init

\* What send_pdu and recv_pdu do to their callers is what PduChannel allows:
\* whatever is late, lost, refused or given up, PDUs arrive whole and in order.
THEOREM IsoTpImplementsPduChannel == Spec => ImplementsTransfer
<1>1. Init => FullInv  BY InitInv, InitUnbroken DEF IInv, FullInv
<1>2. FullInv /\ [Next]_vars => FullInv'
  BY NextInv, NextUnbroken DEF IInv, FullInv
<1>3. FullInv /\ FullInv' /\ [Next]_vars => [Transfer!Next]_(Transfer!vars)  BY StepSimulated
<1>. QED  BY <1>1, <1>2, <1>3, InitSimulated, PTL DEF Spec, ImplementsTransfer, Transfer!Spec
=============================================================================
