------------------------------- MODULE IsoTp -------------------------------
(***************************************************************************)
(* isotp_async/transport.py: IsoTpChannel.send_pdu and recv_pdu over one   *)
(* CAN transport.  Both read the same inbox, so a frame one of them left   *)
(* behind is the next one's.                                               *)
(*                                                                         *)
(* A task calls them one after the other.  The peer (external) is an       *)
(* ISO 15765-2 node: it reassembles what it is sent, answers a first frame *)
(* and every full block with a flow control frame, and may answer a PDU    *)
(* with one of its own.  The bytes of a frame are known by their PDU, the  *)
(* offset of the first and their number; padding is dropped.               *)
(***************************************************************************)
EXTENDS Integers, Sequences, FiniteSets, SequencesExt

CONSTANTS
  PduLens,     \* lengths the task sends
  BlockSizes,  \* block sizes in the peer's flow control frames, 0: no limit
  OwnBlockSize,\* block_size
  AnswerCfs,   \* consecutive frames of the peer's answers, 0: a single frame
  MaxPdus,     \* bound: PDUs sent
  MaxRecvs,    \* bound: calls of recv_pdu
  MaxLost      \* bound: frames lost on the way to the inbox

FirstBytes == 6
FrameBytes == 7
LengthRange == 2 ^ 12
SnRange == 16

ASSUME IsoTpAssumption ==
  /\ PduLens \subseteq 0 .. (LengthRange - 1)
  /\ BlockSizes \subseteq 0 .. 255
  /\ OwnBlockSize \in 0 .. 255
  /\ AnswerCfs \subseteq 0 .. (SnRange - 1)
  /\ {MaxPdus, MaxRecvs, MaxLost} \subseteq Nat

VARIABLES
  phase,      \* where the task is: in send_pdu "fc" or "cf", in recv_pdu "first" or "cfs"
  lens,       \* lengths of the PDUs sent so far; the last one is the current one
  offset, seqNum, bs, inBlock,  \* locals of send_pdu
  inbox,      \* frames the transport holds for recv
  returned,   \* PDUs whose send_pdu returned
  gaveUp,     \* some send_pdu raised
  received,   \* how the last recv_pdu ended
  recvs,      \* calls of recv_pdu
  toPeer,     \* frames on their way to the peer
  reception,  \* peer: frames of the PDU it is receiving, block size, frames since its last FC
  delivered,  \* peer: PDUs it received, each the sequence of its frames
  answer,     \* peer: PDUs answered; CFs of the answer under way, the next one's number, 0: not cleared
  lost

sendVars == <<lens, offset, seqNum, bs, inBlock, returned, gaveUp>>
recvVars == <<received, recvs>>
peerVars == <<reception, delivered, answer, lost>>
vars == <<phase, sendVars, recvVars, inbox, toPeer, peerVars>>

Frame(kind, p, from, n, sn) == [kind |-> kind, pdu |-> p, from |-> from, n |-> n, sn |-> sn]
Flow(fs, size) == [kind |-> "FC", fs |-> fs, bs |-> size]

\* The first frame carries the length, 12 bits of it.
FirstFrame(p, len) ==
  [kind |-> "FF", pdu |-> p, from |-> 0, n |-> FirstBytes, sn |-> 0, len |-> len % LengthRange]
Chunk(p, from) ==
  Frame("CF", p, from, IF lens[p] - from < FrameBytes THEN lens[p] - from ELSE FrameBytes, seqNum)

\* Every consecutive frame is padded to full length.
Room(frames) == FirstBytes + FrameBytes * (Len(frames) - 1)

\* PDUs as their callers know them.
Sent(p) == [of |-> "task", no |-> p, long |-> lens[p] > FrameBytes]
Answer(p) == [of |-> "peer", no |-> p, long |-> FALSE]
LongAnswer(p) == [of |-> "peer", no |-> p, long |-> TRUE]
NoReception == [frames |-> <<>>, bs |-> 0, inBlock |-> 0]

TypeOK ==
  /\ phase \in {"idle", "fc", "cf", "first", "cfs"}
  /\ lens \in Seq(PduLens) /\ Len(lens) <= MaxPdus
  /\ offset \in 0 .. (LengthRange + FrameBytes)
  /\ seqNum \in 0 .. (SnRange - 1)
  /\ bs \in 0 .. 255 /\ inBlock \in Nat
  /\ phase = "cf" => offset < Last(lens)
  /\ \A i \in DOMAIN inbox : inbox[i].kind \in {"SF", "FF", "CF", "FC"}
  /\ returned \subseteq DOMAIN lens /\ gaveUp \in BOOLEAN
  /\ received \in {<<"none">>, <<"nothing">>, <<"raised">>} \cup {<<"pdu", Answer(p)>> : p \in 1 .. MaxPdus}
  /\ recvs \in 0 .. MaxRecvs
  /\ lost \in 0 .. MaxLost

Init ==
  /\ phase = "idle" /\ lens = <<>>
  /\ offset = 0 /\ seqNum = 0 /\ bs = 0 /\ inBlock = 0
  /\ returned = {} /\ gaveUp = FALSE
  /\ received = <<"none">> /\ recvs = 0
  /\ inbox = <<>> /\ toPeer = <<>>
  /\ reception = NoReception /\ delivered = <<>>
  /\ answer = [done |-> 0, cfs |-> 0, sn |-> 0] /\ lost = 0

-----------------------------------------------------------------------------
(* send_pdu *)

SendSingle(len) ==
  /\ phase = "idle" /\ Len(lens) < MaxPdus
  /\ len <= FrameBytes
  /\ lens' = Append(lens, len)
  /\ toPeer' = Append(toPeer, Frame("SF", Len(lens'), 0, len, 0))
  /\ returned' = returned \cup {Len(lens')}
  /\ UNCHANGED <<phase, offset, seqNum, bs, inBlock, gaveUp, recvVars, inbox, peerVars>>

\* Mutant: the first frame is taken to hold as many bytes as the others.
SendFirstSkipsByte(len) ==
  /\ phase = "idle" /\ Len(lens) < MaxPdus
  /\ len > FrameBytes
  /\ lens' = Append(lens, len)
  /\ toPeer' = Append(toPeer, FirstFrame(Len(lens'), len))
  /\ offset' = FrameBytes /\ seqNum' = 1 /\ inBlock' = 0
  /\ phase' = "fc"
  /\ UNCHANGED <<bs, returned, gaveUp, recvVars, inbox, peerVars>>

SendFirst(len) ==
  /\ phase = "idle" /\ Len(lens) < MaxPdus
  /\ len > FrameBytes
  /\ lens' = Append(lens, len)
  /\ toPeer' = Append(toPeer, FirstFrame(Len(lens'), len))
  /\ offset' = FirstBytes /\ seqNum' = 1 /\ inBlock' = 0
  /\ phase' = "fc"
  /\ UNCHANGED <<bs, returned, gaveUp, recvVars, inbox, peerVars>>

\* Continue to send: the block size and the frame counter start anew.
TakeFlowControl ==
  /\ phase = "fc" /\ inbox # <<>>
  /\ Head(inbox).kind = "FC" /\ Head(inbox).fs = "CTS"
  /\ bs' = Head(inbox).bs /\ inBlock' = 0
  /\ phase' = "cf"
  /\ inbox' = Tail(inbox)
  /\ UNCHANGED <<lens, offset, seqNum, returned, gaveUp, recvVars, toPeer, peerVars>>

\* Any other frame raises, a wait or an overflow among them.
TakeOtherFrame ==
  /\ phase = "fc" /\ inbox # <<>>
  /\ Head(inbox).kind = "FC" => Head(inbox).fs # "CTS"
  /\ inbox' = Tail(inbox)
  /\ phase' = "idle" /\ gaveUp' = TRUE
  /\ UNCHANGED <<lens, offset, seqNum, bs, inBlock, returned, recvVars, toPeer, peerVars>>

FlowControlTimeout ==
  /\ phase = "fc"
  /\ phase' = "idle" /\ gaveUp' = TRUE
  /\ UNCHANGED <<lens, offset, seqNum, bs, inBlock, returned, recvVars, inbox, toPeer, peerVars>>

\* Mutant: the counter is masked only when it is put into a frame.
NextSeqNumUnmasked(n) == n + 1

\* Mutant: the line the code keeps commented out: 0 is never sent.
NextSeqNumSkipsZero(n) == IF n + 1 = SnRange THEN 1 ELSE n + 1

NextSeqNum(n) == (n + 1) % SnRange

\* Mutant: one frame too many in every block.
BlockFullLate(size, n) == size # 0 /\ n > size

BlockFull(size, n) == size # 0 /\ n >= size

\* The last step of the loop's body is its first one again: the end of the
\* data, or the end of the block, is noticed after the pauses.
SendConsecutive ==
  LET p == Len(lens)
  IN  /\ phase = "cf"
      /\ toPeer' = Append(toPeer, Chunk(p, offset))
      /\ offset' = offset + Chunk(p, offset).n
      /\ seqNum' = NextSeqNum(seqNum)
      /\ inBlock' = inBlock + 1
      /\ phase' = IF offset' >= lens[p] THEN "idle"
                  ELSE IF BlockFull(bs, inBlock') THEN "fc" ELSE "cf"
      /\ returned' = IF offset' >= lens[p] THEN returned \cup {p} ELSE returned
      /\ UNCHANGED <<lens, bs, gaveUp, recvVars, inbox, peerVars>>

-----------------------------------------------------------------------------
(* recv_pdu *)

RecvPdu ==
  /\ phase = "idle" /\ recvs < MaxRecvs
  /\ phase' = "first" /\ recvs' = recvs + 1
  /\ received' = <<"none">>
  /\ UNCHANGED <<sendVars, inbox, toPeer, peerVars>>

\* A single frame is the PDU; anything but a first frame is no PDU.
TakeLast ==
  /\ phase = "first" /\ inbox # <<>>
  /\ Head(inbox).kind # "FF"
  /\ received' = IF Head(inbox).kind = "SF" THEN <<"pdu", Answer(Head(inbox).pdu)>> ELSE <<"nothing">>
  /\ inbox' = Tail(inbox)
  /\ phase' = "idle"
  /\ UNCHANGED <<sendVars, recvs, toPeer, peerVars>>

TakeFirst ==
  /\ phase = "first" /\ inbox # <<>>
  /\ Head(inbox).kind = "FF"
  /\ toPeer' = Append(toPeer, Flow("CTS", OwnBlockSize))
  /\ inbox' = Tail(inbox)
  /\ phase' = "cfs"
  /\ UNCHANGED <<sendVars, recvVars, peerVars>>

FirstTimeout ==
  /\ phase = "first"
  /\ received' = <<"nothing">> /\ phase' = "idle"
  /\ UNCHANGED <<sendVars, recvs, inbox, toPeer, peerVars>>

SkipForeign ==
  /\ phase = "cfs" /\ inbox # <<>>
  /\ Head(inbox).kind # "CF"
  /\ inbox' = Tail(inbox)
  /\ UNCHANGED <<phase, sendVars, recvVars, toPeer, peerVars>>

\* The expected number is still 1: a frame with another one raises, and the
\* right one is appended, whereupon the name tx_gap_s is not defined.
TakeConsecutive ==
  /\ phase = "cfs" /\ inbox # <<>>
  /\ Head(inbox).kind = "CF"
  /\ received' = <<"raised">>
  /\ inbox' = Tail(inbox)
  /\ phase' = "idle"
  /\ UNCHANGED <<sendVars, recvs, toPeer, peerVars>>

ConsecutiveTimeout ==
  /\ phase = "cfs"
  /\ received' = <<"raised">> /\ phase' = "idle"
  /\ UNCHANGED <<sendVars, recvs, inbox, toPeer, peerVars>>

-----------------------------------------------------------------------------
(* External: the peer and the bus. *)

PeerDelivers(frames) ==
  /\ delivered' = Append(delivered, frames)
  /\ reception' = NoReception

PeerTakesSingle ==
  /\ toPeer # <<>> /\ Head(toPeer).kind = "SF"
  /\ toPeer' = Tail(toPeer)
  /\ PeerDelivers(<<Head(toPeer)>>)
  /\ UNCHANGED <<phase, sendVars, recvVars, inbox, answer, lost>>

\* Clear to send, at once or after a wait, or no room for it.
PeerTakesFirst ==
  /\ toPeer # <<>> /\ Head(toPeer).kind = "FF"
  /\ toPeer' = Tail(toPeer)
  /\ \/ \E size \in BlockSizes, wait \in {<<>>, <<Flow("WT", 0)>>} :
          /\ reception' = [frames |-> <<Head(toPeer)>>, bs |-> size, inBlock |-> 0]
          /\ inbox' = Append(inbox \o wait, Flow("CTS", size))
     \/ /\ reception' = NoReception
        /\ inbox' = Append(inbox, Flow("OVFLW", 0))
  /\ UNCHANGED <<phase, sendVars, recvVars, delivered, answer, lost>>

\* A frame out of sequence ends the reception, one without a reception is
\* ignored.
PeerTakesConsecutive ==
  LET f == Head(toPeer)
      frames == Append(reception.frames, f)
      full == reception.inBlock + 1 = reception.bs
  IN  /\ toPeer # <<>> /\ f.kind = "CF"
      /\ toPeer' = Tail(toPeer)
      /\ \/ /\ reception.frames = <<>> \/ f.sn # Len(reception.frames) % SnRange
            /\ reception' = NoReception
            /\ UNCHANGED <<inbox, delivered>>
         \/ /\ reception.frames # <<>> /\ f.sn = Len(reception.frames) % SnRange
            /\ IF Room(frames) >= Head(frames).len
               THEN PeerDelivers(frames) /\ UNCHANGED inbox
               ELSE /\ reception' = [reception EXCEPT !.frames = frames,
                                       !.inBlock = IF full THEN 0 ELSE @ + 1]
                    /\ inbox' = IF full THEN Append(inbox, Flow("CTS", reception.bs)) ELSE inbox
                    /\ UNCHANGED delivered
      /\ UNCHANGED <<phase, sendVars, recvVars, answer, lost>>

\* The peer sends its consecutive frames once it is cleared to.
PeerTakesFlowControl ==
  /\ toPeer # <<>> /\ Head(toPeer).kind = "FC"
  /\ toPeer' = Tail(toPeer)
  /\ answer' = IF answer.cfs > 0 /\ answer.sn = 0 THEN [answer EXCEPT !.sn = 1] ELSE answer
  /\ UNCHANGED <<phase, sendVars, recvVars, inbox, reception, delivered, lost>>

PeerAnswers ==
  /\ answer.cfs = 0 /\ answer.done < Len(delivered)
  /\ \E cfs \in AnswerCfs :
       /\ inbox' = Append(inbox, Frame(IF cfs = 0 THEN "SF" ELSE "FF", answer.done + 1, 0, FirstBytes, 0))
       /\ answer' = [done |-> answer.done + 1, cfs |-> cfs, sn |-> 0]
  /\ UNCHANGED <<phase, sendVars, recvVars, toPeer, reception, delivered, lost>>

PeerContinues ==
  /\ answer.cfs > 0 /\ answer.sn > 0
  /\ inbox' = Append(inbox, Frame("CF", answer.done, 0, FrameBytes, answer.sn))
  /\ answer' = IF answer.sn = answer.cfs THEN [answer EXCEPT !.cfs = 0, !.sn = 0]
               ELSE [answer EXCEPT !.sn = @ + 1]
  /\ UNCHANGED <<phase, sendVars, recvVars, toPeer, reception, delivered, lost>>

\* No flow control came.
PeerForgets ==
  /\ answer.cfs > 0 /\ answer.sn = 0
  /\ answer' = [answer EXCEPT !.cfs = 0]
  /\ UNCHANGED <<phase, sendVars, recvVars, inbox, toPeer, reception, delivered, lost>>

LoseFrame ==
  /\ lost < MaxLost
  /\ \E i \in DOMAIN inbox : inbox' = RemoveAt(inbox, i)
  /\ lost' = lost + 1
  /\ UNCHANGED <<phase, sendVars, recvVars, toPeer, reception, delivered, answer>>

-----------------------------------------------------------------------------
SendStep ==
  \/ TakeFlowControl
  \/ TakeOtherFrame
  \/ FlowControlTimeout
  \/ SendConsecutive

RecvStep ==
  \/ TakeLast
  \/ TakeFirst
  \/ FirstTimeout
  \/ SkipForeign
  \/ TakeConsecutive
  \/ ConsecutiveTimeout

PeerStep ==
  \/ PeerTakesSingle
  \/ PeerTakesFirst
  \/ PeerTakesConsecutive
  \/ PeerTakesFlowControl
  \/ PeerAnswers
  \/ PeerContinues
  \/ PeerForgets

Next ==
  \/ \E len \in PduLens : SendSingle(len) \/ SendFirst(len)
  \/ RecvPdu
  \/ SendStep
  \/ RecvStep
  \/ PeerStep
  \/ LoseFrame

Spec == Init /\ [][Next]_vars

-----------------------------------------------------------------------------
(* Properties *)

\* A PDU the peer put together is one send_pdu was given: all its bytes, each
\* frame's where those of the one before it end.
End(f) == f.from + f.n
Intact(d) ==
  /\ Head(d).from = 0 /\ End(Last(d)) >= lens[Head(d).pdu]
  /\ \A i \in DOMAIN d :
       /\ d[i].pdu = Head(d).pdu
       /\ i > 1 => d[i].from = End(d[i - 1])

\* The callers' view: what was sent after the last PDU that arrived, and the
\* PDUs that frames in the inbox start.  A garbled one is no PDU at all.
OnTheWay ==
  LET arrived == IF delivered = <<>> THEN 0 ELSE Head(Last(delivered)).pdu
  IN  IF \A d \in ToSet(delivered) : Intact(d)
      THEN [i \in 1 .. Len(lens) - arrived |->
              [pdu |-> Sent(arrived + i), whole |-> arrived + i \in returned]]
      ELSE <<[pdu |-> [of |-> "nobody", no |-> 0, long |-> FALSE], whole |-> TRUE]>>

Starts(f) == f.kind \in {"SF", "FF"}
Started(f) ==
  [pdu |-> IF f.kind = "SF" THEN Answer(f.pdu) ELSE LongAnswer(f.pdu), whole |-> FALSE]

AddStarted(pdus, f) == IF Starts(f) THEN Append(pdus, Started(f)) ELSE pdus
Waiting == FoldLeft(AddStarted, <<>>, inbox)

Task ==
  CASE phase \in {"fc", "cf"} -> "sending"
    [] phase = "first" -> "receiving"
    [] phase = "cfs" -> "assembling"
    [] OTHER -> "idle"

IsLong(p) == p.long

Transfer ==
  INSTANCE PduChannel WITH
    Pdus <- [of : {"task", "peer"}, no : 1 .. MaxPdus, long : BOOLEAN], Long <- IsLong,
    task <- Task, outbox <- OnTheWay, raised <- gaveUp, inbox <- Waiting

\* Whatever is late, lost, refused or given up: PDUs arrive whole and in order,
\* one whose send_pdu raised does not arrive, one whose send_pdu returned is
\* passed over only after a send_pdu that raised, and recv_pdu returns the
\* PDUs the peer started, in order.
ImplementsTransfer == Transfer!Spec

\* A send_pdu that returns has sent what the peer needs: once the peer has read
\* it all, it has the PDU.  After a send_pdu that raised this is not so: a flow
\* control frame it left behind may clear the next one to send.
SentIsDelivered ==
  ~gaveUp /\ toPeer = <<>> =>
    returned \subseteq {Head(d).pdu : d \in ToSet(delivered)}

\* The peer is never sent more frames than the block it granted, as long as no
\* send_pdu raised.
BlockHonoured ==
  LET onTheWay == Cardinality({i \in DOMAIN toPeer : toPeer[i].kind = "CF"})
  IN  ~gaveUp /\ reception.bs # 0 => reception.inBlock + onTheWay <= reception.bs
=============================================================================
