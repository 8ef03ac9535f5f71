------------------------- MODULE CarBusDeviceProofs -------------------------
(***************************************************************************)
(* What CarBusDevice guarantees for any number of calls and closers and    *)
(* any width of the sequence number.  The invariant below says which calls *)
(* the table, the adapter and the frames in flight may still name.         *)
(***************************************************************************)
EXTENDS CarBusDevice, SequenceTheorems, TLAPS

\* A registered call was sent under that number, with a future; 0 is never given.
TableNamesSender ==
  \A s \in Seqs : pending[s] # NoCall =>
    /\ s # 0
    /\ seqOf[pending[s]] = s
    /\ call[pending[s]] \notin {"idle", "refused"}

\* Nothing is registered on a closed device.
ClosedTableEmpty == closed => \A s \in Seqs : pending[s] = NoCall

\* A call that sent nothing has no future and no frame.
UnsentIsSilent ==
  \A c \in Calls : call[c] \in {"idle", "refused"} =>
    /\ fut[c] = "none"
    /\ c \notin inDev
    /\ \A i \in DOMAIN fromDev : fromDev[i].call # c

\* An answer carries the number of its call, anything else one of AsyncSeqs.
FramesNumbered ==
  \A i \in DOMAIN fromDev :
    IF fromDev[i].call = NoCall
    THEN fromDev[i].seq \in AsyncSeqs
    ELSE fromDev[i].seq = seqOf[fromDev[i].call]

\* The calls whose number still stands for them somewhere.
Named(c) ==
  \/ \E s \in Seqs : pending[s] = c
  \/ c \in inDev
  \/ \E i \in DOMAIN fromDev : fromDev[i].call = c

\* Without reuse a number names one call, and an open future is registered.
NamesDistinct ==
  ~reused =>
    \A c, d \in Calls : Named(c) /\ Named(d) /\ seqOf[c] = seqOf[d] => c = d

OpenIsRegistered ==
  ~reused => \A c \in Calls : fut[c] = "pending" => pending[seqOf[c]] = c

IInv ==
  /\ TypeOK
  /\ TableNamesSender
  /\ ClosedTableEmpty
  /\ UnsentIsSilent
  /\ FramesNumbered
  /\ NamesDistinct
  /\ OpenIsRegistered
  /\ ReplyMatchesRequest

-----------------------------------------------------------------------------
\* _next_seq stays in range and never returns 0.
LEMMA NextSeqRange ==
  ASSUME NEW n \in Seqs
  PROVE  NextSeq(n) \in Seqs /\ NextSeq(n) # 0
<1>. DEFINE m == (n + 1) % (MaxSeq + 1)
<1>1. MaxSeq \in Nat \ {0} /\ n \in Nat  BY CallsAssumption DEF Seqs
<1>2. m \in 0 .. MaxSeq  BY <1>1, Z3
<1>. QED  BY <1>1, <1>2 DEF NextSeq, Seqs

LEMMA InitIInv == Init => IInv
<1>. SUFFICES ASSUME Init PROVE IInv
  OBVIOUS
<1>. USE CallsAssumption DEF Init
<1>0. 0 \in Seqs  BY DEF Seqs
<1>1. TypeOK
  <2>1. fromDev \in Seq(Frames)  BY EmptySeq
  <2>. QED  BY <1>0, <2>1 DEF TypeOK
<1>2. TableNamesSender  BY DEF TableNamesSender
<1>3. ClosedTableEmpty  BY DEF ClosedTableEmpty
<1>4. UnsentIsSilent  BY DEF UnsentIsSilent
<1>5. FramesNumbered  BY DEF FramesNumbered
<1>6. NamesDistinct  BY DEF NamesDistinct, Named
<1>7. OpenIsRegistered  BY DEF OpenIsRegistered
<1>8. ReplyMatchesRequest  BY DEF ReplyMatchesRequest
<1>. QED  BY <1>1, <1>2, <1>3, <1>4, <1>5, <1>6, <1>7, <1>8 DEF IInv

-----------------------------------------------------------------------------
(* Type correctness *)

LEMMA TransmitTyped ==
  ASSUME TypeOK, NEW c \in Calls, NEW e \in BOOLEAN, Transmit(c, e),
         closing' \in [Closers -> {"idle", "device_close", "join", "wait_closed", "returned"}]
  PROVE  TypeOK'
<1>. DEFINE s == NextSeq(seqCounter)
<1>1. s \in Seqs  BY NextSeqRange DEF TypeOK
<1>. HIDE DEF s
<1>2. /\ seqCounter' = s
      /\ seqOf' = [seqOf EXCEPT ![c] = s]
      /\ call' = [call EXCEPT ![c] = "drain"]
      /\ reused' \in BOOLEAN
      /\ pending' \in [Seqs -> Calls \cup {NoCall}]
      /\ fut' \in [Calls -> {"none", "pending", "result", "exception", "cancelled"}]
      /\ inDev' \in SUBSET Calls
      /\ UNCHANGED <<closed, reader, cancelReader, writerOpen, link, fromDev, got>>
  BY <1>1 DEF Transmit, s, TypeOK
<1>. QED  BY <1>1, <1>2 DEF TypeOK

LEMMA FailAllTyped ==
  ASSUME NEW p, NEW f \in [Calls -> {"none", "pending", "result", "exception", "cancelled"}],
         FailAll(p, f)
  PROVE  /\ pending' \in [Seqs -> Calls \cup {NoCall}]
         /\ fut' \in [Calls -> {"none", "pending", "result", "exception", "cancelled"}]
  BY DEF FailAll

LEMMA NextTyped == TypeOK /\ [Next]_vars => TypeOK'
<1>. SUFFICES ASSUME TypeOK, [Next]_vars PROVE TypeOK'
  OBVIOUS
<1>. USE CallsAssumption
<1>. DEFINE Outcomes == {"none", "pending", "result", "exception", "cancelled"}
<1>1. ASSUME NEW c \in Calls, NEW e \in BOOLEAN, Send(c, e) PROVE TypeOK'
  BY <1>1, TransmitTyped DEF Send, TypeOK
<1>2. ASSUME NEW c \in Calls, Refuse(c) PROVE TypeOK'
  BY <1>2 DEF TypeOK, Refuse, Finished, devVars, wireVars, history
<1>3. ASSUME NEW c \in Calls, Drained(c) PROVE TypeOK'
  BY <1>3 DEF TypeOK, Drained, Finished, devVars, wireVars, history
<1>4. ASSUME NEW c \in Calls, DrainFails(c) PROVE TypeOK'
  BY <1>4 DEF TypeOK, DrainFails, Finished, devVars, wireVars, history
<1>5. ASSUME NEW c \in Calls, Resume(c) PROVE TypeOK'
  BY <1>5 DEF TypeOK, Resume, Finished, devVars, wireVars, history
<1>6. ASSUME NEW c \in Calls, CancelCall(c) PROVE TypeOK'
  BY <1>6 DEF TypeOK, CancelCall, Complete, Finished, devVars, wireVars, history
<1>7. ASSUME NEW k \in Closers, CloseEarlyReturn(k) PROVE TypeOK'
  BY <1>7 DEF TypeOK, CloseEarlyReturn, devVars, wireVars, history
<1>8. ASSUME NEW k \in Closers, CloseStart(k) PROVE TypeOK'
  BY <1>8, TransmitTyped DEF CloseStart, TypeOK
<1>9. ASSUME NEW k \in Closers, CloseCancelsReader(k) PROVE TypeOK'
  BY <1>9 DEF TypeOK, CloseCancelsReader, wireVars, history
<1>10. ASSUME NEW k \in Closers, CloseWriter(k) PROVE TypeOK'
  BY <1>10 DEF TypeOK, CloseWriter, wireVars, history
<1>11. ASSUME NEW k \in Closers, CloseFinally(k) PROVE TypeOK'
  BY <1>11, FailAllTyped DEF TypeOK, CloseFinally, wireVars, history
<1>12. ASSUME NEW k \in Closers, CloseAborted(k) PROVE TypeOK'
  <2>. DEFINE f == IF call[k] = "wait" THEN Complete(fut, k, "cancelled") ELSE fut
  <2>1. f \in [Calls -> Outcomes]  BY DEF TypeOK, Complete
  <2>2. FailAll(pending, f)  BY <1>12 DEF CloseAborted
  <2>. HIDE DEF f
  <2>3. /\ pending' \in [Seqs -> Calls \cup {NoCall}]
        /\ fut' \in [Calls -> Outcomes]
    BY <2>1, <2>2, FailAllTyped
  <2>. QED  BY <1>12, <2>3 DEF TypeOK, CloseAborted, Finished, wireVars, history
<1>13. ASSUME ReadFrame PROVE TypeOK'
  <2>. DEFINE f == Head(fromDev)
              c == pending[f.seq]
              p == [pending EXCEPT ![f.seq] = NoCall]
              o == IF f.kind = "ERROR" THEN "exception" ELSE "result"
              futures == IF c = NoCall THEN fut ELSE Complete(fut, c, o)
  <2>1. f \in Frames /\ fromDev' \in Seq(Frames)
    BY <1>13, HeadTailProperties DEF TypeOK, ReadFrame
  <2>2. f.seq \in Seqs /\ f.call \in Calls \cup {NoCall}  BY <2>1 DEF Frames
  <2>3. p \in [Seqs -> Calls \cup {NoCall}]  BY <2>2 DEF TypeOK
  <2>4. futures \in [Calls -> Outcomes]  BY <2>2 DEF TypeOK, Complete
  <2>5. got' \in [Calls -> Calls \cup {NoCall}]
    BY <1>13, <2>2 DEF TypeOK, ReadFrame
  <2>6. \/ reader' = "done" /\ FailAll(p, futures)
        \/ reader' = reader /\ pending' = p /\ fut' = futures
    BY <1>13 DEF ReadFrame
  <2>. HIDE DEF f, c, p, o, futures
  <2>7. /\ pending' \in [Seqs -> Calls \cup {NoCall}]
        /\ fut' \in [Calls -> Outcomes]
        /\ reader' \in {"running", "done"}
    BY <2>3, <2>4, <2>6, FailAllTyped DEF TypeOK
  <2>. QED  BY <1>13, <2>1, <2>5, <2>7 DEF TypeOK, ReadFrame
<1>14. ASSUME ReadEof PROVE TypeOK'
  BY <1>14, FailAllTyped DEF TypeOK, ReadEof, wireVars, history
<1>15. ASSUME HandlerRaises PROVE TypeOK'
  BY <1>15, FailAllTyped, HeadTailProperties DEF TypeOK, HandlerRaises, history
<1>16. ASSUME ReaderCancelled PROVE TypeOK'
  BY <1>16, FailAllTyped DEF TypeOK, ReaderCancelled, wireVars, history
<1>17. ASSUME NEW c \in Calls, DevAnswers(c) PROVE TypeOK'
  <2>1. PICK kind \in {"REPLY", "ERROR"} :
          fromDev' = Append(fromDev, [kind |-> kind, seq |-> seqOf[c], call |-> c])
    BY <1>17 DEF DevAnswers
  <2>2. [kind |-> kind, seq |-> seqOf[c], call |-> c] \in Frames
    BY DEF TypeOK, Frames
  <2>3. fromDev' \in Seq(Frames)  BY <2>1, <2>2, AppendProperties DEF TypeOK
  <2>. QED  BY <1>17, <2>3 DEF TypeOK, DevAnswers, devVars, callVars, history
<1>18. ASSUME NEW s \in AsyncSeqs, DevMessage(s) PROVE TypeOK'
  <2>1. [kind |-> "MESSAGE", seq |-> s, call |-> NoCall] \in Frames
    BY DEF Frames, Seqs
  <2>2. fromDev' \in Seq(Frames)
    BY <1>18, <2>1, AppendProperties DEF TypeOK, DevMessage
  <2>. QED  BY <1>18, <2>2 DEF TypeOK, DevMessage, devVars, callVars, history
<1>19. ASSUME LinkDown PROVE TypeOK'
  <2>0. <<>> \in Seq(Frames)  BY EmptySeq
  <2>1. fromDev' \in Seq(Frames)  BY <1>19, <2>0 DEF TypeOK, LinkDown
  <2>. QED  BY <1>19, <2>1 DEF TypeOK, LinkDown, devVars, callVars, history
<1>20. ASSUME UNCHANGED vars PROVE TypeOK'
  BY <1>20 DEF TypeOK, vars, devVars, callVars, wireVars, history
<1>. QED
  BY <1>1, <1>2, <1>3, <1>4, <1>5, <1>6, <1>7, <1>8, <1>9, <1>10, <1>11, <1>12,
     <1>13, <1>14, <1>15, <1>16, <1>17, <1>18, <1>19, <1>20
     DEF Next, CallStep, CloseStep, ReadStep, LineStep

\* Every variable keeps its type through every step of the device.
THEOREM TypeCorrect == Spec => []TypeOK
<1>1. Init => TypeOK  BY InitIInv DEF IInv
<1>2. TypeOK /\ [Next]_vars => TypeOK'  BY NextTyped
<1>. QED  BY <1>1, <1>2, PTL DEF Spec

-----------------------------------------------------------------------------
(* The inductive step.  Only Transmit gives a number a new meaning; every   *)
(* other action forgets names, or passes one on along the line.             *)

Unsent == {"idle", "refused"}

\* A frame already under way, an answer from a call the adapter holds, or a
\* frame of the adapter's own.
FrameExplained(f) ==
  \/ \E j \in DOMAIN fromDev : f = fromDev[j]
  \/ f.call \in inDev /\ f.seq = seqOf[f.call]
  \/ f.call = NoCall /\ f.seq \in AsyncSeqs

NamesNothingNew ==
  /\ \A c \in Calls : call'[c] \in Unsent <=> call[c] \in Unsent
  /\ \A c \in Calls : fut[c] = "none" => fut'[c] = "none"
  /\ UNCHANGED <<seqOf, reused>>
  /\ \A s \in Seqs : pending'[s] \in {NoCall, pending[s]}
  /\ closed' => \A s \in Seqs : pending'[s] = NoCall
  /\ inDev' \subseteq inDev
  /\ \A i \in DOMAIN fromDev' : FrameExplained(fromDev'[i])
  /\ \A c \in Calls : fut'[c] = "pending" =>
       fut[c] = "pending" /\ (pending[seqOf[c]] = c => pending'[seqOf[c]] = c)

LEMMA FrameTyped ==
  ASSUME NEW q \in Seq(Frames), NEW i \in DOMAIN q
  PROVE  /\ i \in 1 .. Len(q)
         /\ q[i] \in Frames
         /\ q[i].call \in Calls \cup {NoCall}
<1>1. i \in 1 .. Len(q)  BY LenProperties
<1>2. q[i] \in Frames  BY <1>1, ElementOfSeq
<1>. QED  BY <1>1, <1>2 DEF Frames

LEMMA NothingNewKeepsIInv ==
  ASSUME IInv, TypeOK', NamesNothingNew, ReplyMatchesRequest'
  PROVE  IInv'
<1>. USE CallsAssumption DEF IInv
<1>0. /\ \A i \in DOMAIN fromDev : fromDev[i].call \in Calls \cup {NoCall}
      /\ \A i \in DOMAIN fromDev' : fromDev'[i].call \in Calls \cup {NoCall}
  BY FrameTyped DEF TypeOK
<1>2. TableNamesSender'
  BY DEF TableNamesSender, NamesNothingNew, TypeOK, Unsent
<1>3. ClosedTableEmpty'
  BY DEF ClosedTableEmpty, NamesNothingNew
<1>4. UnsentIsSilent'
  BY <1>0 DEF UnsentIsSilent, NamesNothingNew, FrameExplained, TypeOK, Unsent
<1>5. FramesNumbered'
  BY <1>0 DEF FramesNumbered, NamesNothingNew, FrameExplained, TypeOK
<1>6. ASSUME NEW c \in Calls, Named(c)' PROVE Named(c)
  BY <1>0, <1>6 DEF Named, NamesNothingNew, FrameExplained, TypeOK
<1>7. NamesDistinct'
  BY <1>6 DEF NamesDistinct, NamesNothingNew
<1>8. OpenIsRegistered'
  BY DEF OpenIsRegistered, NamesNothingNew, TypeOK
<1>. QED  BY <1>2, <1>3, <1>4, <1>5, <1>7, <1>8

\* The steps that touch neither the table nor a future nor the line.
QuietStep ==
  /\ UNCHANGED <<pending, fut, seqOf, closed, inDev, fromDev, got, reused>>
  /\ \A c \in Calls : call'[c] \in Unsent <=> call[c] \in Unsent

LEMMA QuietKeepsIInv ==
  ASSUME IInv, TypeOK', QuietStep
  PROVE  IInv'
<1>1. NamesNothingNew
  BY CallsAssumption
     DEF NamesNothingNew, QuietStep, FrameExplained, IInv, ClosedTableEmpty
<1>2. ReplyMatchesRequest'
  BY DEF IInv, ReplyMatchesRequest, QuietStep
<1>. QED  BY <1>1, <1>2, NothingNewKeepsIInv

\* FailAll on the table and futures f that CancelCall may have touched first.
LEMMA FailAllKeepsIInv ==
  ASSUME IInv, TypeOK',
         NEW f \in [Calls -> {"none", "pending", "result", "exception", "cancelled"}],
         \A c \in Calls : f[c] # fut[c] => fut[c] = "pending" /\ f[c] = "cancelled",
         FailAll(pending, f),
         UNCHANGED <<seqOf, inDev, got, reused>>,
         \A i \in DOMAIN fromDev' : FrameExplained(fromDev'[i]),
         \A c \in Calls : call'[c] \in Unsent <=> call[c] \in Unsent
  PROVE  IInv'
<1>1. /\ \A s \in Seqs : pending'[s] = NoCall
      /\ \A c \in Calls : fut'[c] = IF f[c] = "pending" /\ (\E s \in Seqs : pending[s] = c)
                                   THEN "exception" ELSE f[c]
  BY DEF FailAll
<1>2. \A c \in Calls : fut'[c] = "pending" => fut[c] = "pending" /\ pending[seqOf[c]] # c
  BY <1>1 DEF IInv, TypeOK
<1>3. NamesNothingNew
  BY <1>1, <1>2 DEF NamesNothingNew, IInv
<1>4. ReplyMatchesRequest'
  BY <1>1 DEF IInv, ReplyMatchesRequest
<1>. QED  BY <1>3, <1>4, NothingNewKeepsIInv

LEMMA CallStepsKeepIInv ==
  ASSUME IInv, TypeOK', NEW c \in Calls,
         Refuse(c) \/ Drained(c) \/ DrainFails(c) \/ Resume(c) \/ CancelCall(c)
  PROVE  IInv'
<1>. USE DEF Unsent, IInv
<1>1. CASE Refuse(c)
  BY <1>1, QuietKeepsIInv
     DEF Refuse, QuietStep, TypeOK, devVars, wireVars, history
<1>2. CASE Drained(c)
  BY <1>2, QuietKeepsIInv
     DEF Drained, QuietStep, TypeOK, devVars, wireVars, history
<1>3. CASE DrainFails(c)
  BY <1>3, QuietKeepsIInv
     DEF DrainFails, QuietStep, TypeOK, devVars, wireVars, history
<1>4. CASE Resume(c)
  BY <1>4, QuietKeepsIInv
     DEF Resume, QuietStep, TypeOK, devVars, wireVars, history
<1>5. CASE CancelCall(c)
  <2>1. NamesNothingNew
    BY <1>5 DEF CancelCall, Complete, Outstanding, NamesNothingNew, FrameExplained,
                TypeOK, ClosedTableEmpty, devVars, wireVars, history
  <2>2. ReplyMatchesRequest'
    BY <1>5 DEF CancelCall, Complete, ReplyMatchesRequest, TypeOK, wireVars, history
  <2>. QED  BY <2>1, <2>2, NothingNewKeepsIInv
<1>. QED  BY <1>1, <1>2, <1>3, <1>4, <1>5

LEMMA CloseStepsKeepIInv ==
  ASSUME IInv, TypeOK', NEW k \in Closers,
         \/ CloseEarlyReturn(k) \/ CloseCancelsReader(k) \/ CloseWriter(k)
         \/ CloseFinally(k) \/ CloseAborted(k)
  PROVE  IInv'
<1>. USE DEF Unsent, IInv
<1>1. CASE CloseEarlyReturn(k)
  BY <1>1, QuietKeepsIInv DEF CloseEarlyReturn, QuietStep, devVars, wireVars, history
<1>2. CASE CloseCancelsReader(k)
  BY <1>2, QuietKeepsIInv DEF CloseCancelsReader, QuietStep, wireVars, history
<1>3. CASE CloseWriter(k)
  BY <1>3, QuietKeepsIInv DEF CloseWriter, QuietStep, wireVars, history
<1>4. CASE CloseFinally(k)
  <2>1. \A i \in DOMAIN fromDev' : FrameExplained(fromDev'[i])
    BY <1>4 DEF CloseFinally, FrameExplained, wireVars
  <2>. QED
    BY <1>4, <2>1, FailAllKeepsIInv DEF CloseFinally, TypeOK, wireVars, history
<1>5. CASE CloseAborted(k)
  <2>. DEFINE f == IF call[k] = "wait" THEN Complete(fut, k, "cancelled") ELSE fut
  <2>1. \A i \in DOMAIN fromDev' : FrameExplained(fromDev'[i])
    BY <1>5 DEF CloseAborted, FrameExplained, wireVars
  <2>2. /\ f \in [Calls -> {"none", "pending", "result", "exception", "cancelled"}]
        /\ \A c \in Calls : f[c] # fut[c] => fut[c] = "pending" /\ f[c] = "cancelled"
    BY DEF Complete, TypeOK
  <2>3. /\ FailAll(pending, f)
        /\ UNCHANGED <<seqOf, inDev, got, reused>>
        /\ \A c \in Calls : call'[c] \in Unsent <=> call[c] \in Unsent
    BY <1>5, CallsAssumption
       DEF CloseAborted, Outstanding, TypeOK, wireVars, history
  <2>. HIDE DEF f
  <2>. QED  BY <2>1, <2>2, <2>3, FailAllKeepsIInv
<1>. QED  BY <1>1, <1>2, <1>3, <1>4, <1>5

\* What is left after the head of the line was under way before.
LEMMA TailExplained ==
  ASSUME fromDev \in Seq(Frames), fromDev # <<>>, fromDev' = Tail(fromDev)
  PROVE  /\ \A i \in DOMAIN fromDev' : FrameExplained(fromDev'[i])
         /\ 1 \in DOMAIN fromDev /\ Head(fromDev) = fromDev[1]
         /\ Head(fromDev) \in Frames
<1>1. /\ Tail(fromDev) \in Seq(Frames)
      /\ Len(Tail(fromDev)) = Len(fromDev) - 1
      /\ \A i \in 1 .. Len(Tail(fromDev)) : Tail(fromDev)[i] = fromDev[i + 1]
      /\ Len(fromDev) \in Nat \ {0}
      /\ Head(fromDev) \in Frames
  BY HeadTailProperties, EmptySeq
<1>2. /\ DOMAIN fromDev = 1 .. Len(fromDev)
      /\ DOMAIN fromDev' = 1 .. Len(Tail(fromDev))
  BY <1>1, LenProperties
<1>3. ASSUME NEW i \in DOMAIN fromDev' PROVE FrameExplained(fromDev'[i])
  <2>1. i + 1 \in DOMAIN fromDev  BY <1>1, <1>2
  <2>2. fromDev'[i] = fromDev[i + 1]  BY <1>1, <1>2
  <2>. QED  BY <2>1, <2>2 DEF FrameExplained
<1>4. Head(fromDev) = fromDev[1]  BY <1>1
<1>. QED  BY <1>1, <1>2, <1>3, <1>4

\* The heart of the matter: the frame that completes an open future comes
\* from the call the number was given to.
LEMMA HeadIsOwnAnswer ==
  ASSUME IInv, fromDev # <<>>, ~reused, AsyncSeqs \subseteq {0},
         pending[Head(fromDev).seq] # NoCall
  PROVE  Head(fromDev).call = pending[Head(fromDev).seq]
<1>. DEFINE f == Head(fromDev)
            c == pending[f.seq]
<1>1. 1 \in DOMAIN fromDev /\ f = fromDev[1] /\ f \in Frames
  <2>1. fromDev \in Seq(Frames)  BY DEF IInv, TypeOK
  <2>2. Len(fromDev) \in Nat \ {0} /\ DOMAIN fromDev = 1 .. Len(fromDev)
    BY <2>1, EmptySeq, LenProperties
  <2>3. f \in Frames /\ f = fromDev[1]  BY <2>1, HeadTailProperties
  <2>. QED  BY <2>2, <2>3
<1>2. f.seq \in Seqs /\ f.call \in Calls \cup {NoCall}  BY <1>1 DEF Frames
<1>3. c \in Calls /\ seqOf[c] = f.seq /\ f.seq # 0 /\ Named(c)
  BY <1>2 DEF IInv, TypeOK, TableNamesSender, Named
<1>4. f.call # NoCall
  BY <1>1, <1>3 DEF IInv, FramesNumbered
<1>5. seqOf[f.call] = f.seq /\ Named(f.call)
  BY <1>1, <1>4 DEF IInv, FramesNumbered, Named
<1>. QED  BY <1>2, <1>3, <1>4, <1>5 DEF IInv, NamesDistinct

LEMMA ReadFrameKeepsIInv ==
  ASSUME IInv, TypeOK', ReadFrame
  PROVE  IInv'
<1>. DEFINE f == Head(fromDev)
            c == pending[f.seq]
            p == [pending EXCEPT ![f.seq] = NoCall]
            o == IF f.kind = "ERROR" THEN "exception" ELSE "result"
            futures == IF c = NoCall THEN fut ELSE Complete(fut, c, o)
<1>1. /\ fromDev # <<>> /\ fromDev' = Tail(fromDev)
      /\ got' = IF c # NoCall /\ fut[c] = "pending" THEN [got EXCEPT ![c] = f.call] ELSE got
      /\ UNCHANGED <<seqCounter, closed, call, seqOf, inDev, reused>>
      /\ \/ closed /\ FailAll(p, futures)
         \/ ~closed /\ pending' = p /\ fut' = futures
  BY DEF ReadFrame
<1>2. /\ \A i \in DOMAIN fromDev' : FrameExplained(fromDev'[i])
      /\ f.seq \in Seqs
  BY <1>1, TailExplained DEF IInv, TypeOK, Frames
<1>3. \A s \in Seqs : p[s] = IF s = f.seq THEN NoCall ELSE pending[s]
  BY <1>2 DEF IInv, TypeOK
<1>4. \A d \in Calls : futures[d] = IF d = c /\ fut[d] = "pending" THEN o ELSE fut[d]
  BY CallsAssumption DEF IInv, TypeOK, Complete
<1>5. CASE closed /\ FailAll(p, futures)
  <2>1. \A s \in Seqs : pending[s] = NoCall  BY <1>5 DEF IInv, ClosedTableEmpty
  <2>2. p = pending /\ futures = fut
    BY <1>2, <2>1 DEF IInv, TypeOK
  <2>3. got' = got  BY <1>1, <1>2, <2>1
  <2>4. fut \in [Calls -> {"none", "pending", "result", "exception", "cancelled"}]
    BY DEF IInv, TypeOK
  <2>. HIDE DEF p, futures, f
  <2>5. FailAll(pending, fut) /\ UNCHANGED <<seqOf, inDev, reused, call>>
    BY <1>1, <1>5, <2>2
  <2>. QED  BY <1>2, <2>3, <2>4, <2>5, FailAllKeepsIInv
<1>6. CASE ~closed /\ pending' = p /\ fut' = futures
  <2>. HIDE DEF p, futures, f
  <2>1. ASSUME NEW d \in Calls, fut'[d] = "pending"
        PROVE  fut[d] = "pending" /\ (pending[seqOf[d]] = d => pending'[seqOf[d]] = d)
    <3>1. fut[d] = "pending" /\ d # c
      BY <1>4, <1>6, <2>1 DEF o
    <3>2. seqOf[d] \in Seqs  BY DEF IInv, TypeOK
    <3>. QED  BY <1>3, <1>6, <3>1, <3>2 DEF c
  <2>2. NamesNothingNew
    BY <1>1, <1>2, <1>3, <1>4, <1>6, <2>1 DEF NamesNothingNew, IInv, o
  <2>3. ReplyMatchesRequest'
    <3>. SUFFICES ASSUME AsyncSeqs \subseteq {0}, ~reused,
                         NEW d \in Calls, fut'[d] = "result"
                  PROVE  got'[d] = d
      BY <1>1 DEF ReplyMatchesRequest
    <3>1. CASE d = c /\ fut[d] = "pending"
      <4>1. c # NoCall  BY <3>1, CallsAssumption
      <4>2. f.call = c  BY <1>1, <4>1, HeadIsOwnAnswer DEF f, c
      <4>. QED  BY <1>1, <3>1, <4>1, <4>2 DEF IInv, TypeOK
    <3>2. CASE ~(d = c /\ fut[d] = "pending")
      <4>1. fut[d] = "result"  BY <1>4, <1>6, <3>2
      <4>2. got'[d] = got[d]  BY <1>1, <3>2, CallsAssumption DEF IInv, TypeOK
      <4>. QED  BY <4>1, <4>2 DEF IInv, ReplyMatchesRequest
    <3>. QED  BY <3>1, <3>2
  <2>. QED  BY <2>2, <2>3, NothingNewKeepsIInv
<1>. QED  BY <1>1, <1>5, <1>6

LEMMA ReaderEndKeepsIInv ==
  ASSUME IInv, TypeOK', ReadEof \/ HandlerRaises \/ ReaderCancelled
  PROVE  IInv'
<1>. USE DEF IInv
<1>1. /\ FailAll(pending, fut)
      /\ UNCHANGED <<call, seqOf, inDev, got, reused>>
  BY DEF ReadEof, HandlerRaises, ReaderCancelled, wireVars, history
<1>2. \A i \in DOMAIN fromDev' : FrameExplained(fromDev'[i])
  <2>1. CASE UNCHANGED fromDev  BY <2>1 DEF FrameExplained
  <2>2. CASE HandlerRaises  BY <2>2, TailExplained DEF HandlerRaises, TypeOK
  <2>. QED  BY <2>1, <2>2 DEF ReadEof, ReaderCancelled, wireVars
<1>3. fut \in [Calls -> {"none", "pending", "result", "exception", "cancelled"}]
  BY DEF TypeOK
<1>. QED  BY <1>1, <1>2, <1>3, FailAllKeepsIInv

LEMMA LineStepsKeepIInv ==
  ASSUME IInv, TypeOK', LineStep
  PROVE  IInv'
<1>. USE DEF IInv
<1>1. /\ UNCHANGED <<pending, closed, call, fut, seqOf, got, reused>>
      /\ inDev' \subseteq inDev
  BY DEF LineStep, DevAnswers, DevMessage, LinkDown, devVars, callVars, history
<1>2. \A i \in DOMAIN fromDev' : FrameExplained(fromDev'[i])
  <2>0. fromDev \in Seq(Frames)  BY DEF TypeOK
  <2>1. ASSUME NEW g \in Frames, fromDev' = Append(fromDev, g), FrameExplained(g)
        PROVE  \A i \in DOMAIN fromDev' : FrameExplained(fromDev'[i])
    <3>1. /\ Len(fromDev) \in Nat /\ DOMAIN fromDev = 1 .. Len(fromDev)
          /\ DOMAIN fromDev' = 1 .. Len(fromDev) + 1
          /\ fromDev'[Len(fromDev) + 1] = g
          /\ \A i \in 1 .. Len(fromDev) : fromDev'[i] = fromDev[i]
      BY <2>0, <2>1, AppendProperties, LenProperties
    <3>. QED  BY <2>1, <3>1 DEF FrameExplained
  <2>2. ASSUME NEW c \in Calls, DevAnswers(c)
        PROVE  \A i \in DOMAIN fromDev' : FrameExplained(fromDev'[i])
    <3>1. PICK kind \in {"REPLY", "ERROR"} :
            fromDev' = Append(fromDev, [kind |-> kind, seq |-> seqOf[c], call |-> c])
      BY <2>2 DEF DevAnswers
    <3>. DEFINE g == [kind |-> kind, seq |-> seqOf[c], call |-> c]
    <3>2. g \in Frames /\ FrameExplained(g)
      BY <2>2 DEF TypeOK, Frames, FrameExplained, DevAnswers
    <3>. QED  BY <2>1, <3>1, <3>2
  <2>3. ASSUME NEW s \in AsyncSeqs, DevMessage(s)
        PROVE  \A i \in DOMAIN fromDev' : FrameExplained(fromDev'[i])
    <3>. DEFINE g == [kind |-> "MESSAGE", seq |-> s, call |-> NoCall]
    <3>1. g \in Frames /\ FrameExplained(g)
      BY CallsAssumption DEF Frames, FrameExplained, Seqs
    <3>. QED  BY <2>1, <2>3, <3>1 DEF DevMessage
  <2>4. CASE LinkDown
    BY <2>4 DEF LinkDown, FrameExplained
  <2>. QED  BY <2>2, <2>3, <2>4 DEF LineStep
<1>3. NamesNothingNew
  BY <1>1, <1>2 DEF NamesNothingNew, ClosedTableEmpty
<1>4. ReplyMatchesRequest'  BY <1>1 DEF ReplyMatchesRequest
<1>. QED  BY <1>3, <1>4, NothingNewKeepsIInv

\* A fresh number s names nobody else, unless the step sets reused.
LEMMA TransmitKeepsIInv ==
  ASSUME IInv, TypeOK', NEW c \in Calls, NEW e \in BOOLEAN, Transmit(c, e)
  PROVE  IInv'
<1>. DEFINE s == NextSeq(seqCounter)
<1>1. s \in Seqs /\ s # 0  BY NextSeqRange DEF IInv, TypeOK
<1>2. /\ call[c] = "idle" /\ ~closed
      /\ call' = [call EXCEPT ![c] = "drain"]
      /\ seqOf' = [seqOf EXCEPT ![c] = s]
      /\ reused' = (reused \/ SeqInUse(s))
      /\ \/ pending' = [pending EXCEPT ![s] = c] /\ fut' = [fut EXCEPT ![c] = "pending"]
         \/ UNCHANGED <<pending, fut>>
      /\ inDev' \in {inDev, inDev \cup {c}}
      /\ UNCHANGED <<closed, fromDev, got>>
  BY DEF Transmit
<1>. HIDE DEF s
<1>3. /\ fut[c] = "none" /\ c \notin inDev
      /\ \A i \in DOMAIN fromDev : fromDev[i].call # c
      /\ \A t \in Seqs : pending[t] # c
  BY <1>2, CallsAssumption DEF IInv, UnsentIsSilent, TableNamesSender
<1>4. \A d \in Calls : d # c => call'[d] = call[d] /\ seqOf'[d] = seqOf[d] /\ fut'[d] = fut[d]
  BY <1>2 DEF IInv, TypeOK
<1>5. call'[c] = "drain" /\ seqOf'[c] = s /\ fut'[c] \in {"none", "pending"}
  BY <1>2, <1>3 DEF IInv, TypeOK
<1>6. \A t \in Seqs : pending'[t] = pending[t] \/ (t = s /\ pending'[t] = c /\ fut'[c] = "pending")
  BY <1>1, <1>2 DEF IInv, TypeOK
<1>7. TableNamesSender'
  BY <1>1, <1>3, <1>4, <1>5, <1>6, CallsAssumption DEF IInv, TypeOK, TableNamesSender
<1>8. ClosedTableEmpty'
  BY <1>2 DEF ClosedTableEmpty
<1>9. UnsentIsSilent'
  BY <1>2, <1>4, <1>5 DEF IInv, UnsentIsSilent
<1>10. FramesNumbered'
  <2>1. \A i \in DOMAIN fromDev : fromDev[i].call \in Calls \cup {NoCall}
    BY FrameTyped DEF IInv, TypeOK
  <2>. QED  BY <1>2, <1>3, <1>4, <2>1 DEF IInv, FramesNumbered
<1>11. ASSUME NEW d \in Calls, Named(d)', d # c PROVE Named(d)
  BY <1>2, <1>6, <1>11 DEF Named
<1>12. ASSUME ~reused', NEW d \in Calls, Named(d), d # c PROVE seqOf[d] # s
  <2>1. ~SeqInUse(s)  BY <1>2, <1>12
  <2>2. CASE \E t \in Seqs : pending[t] = d
    BY <1>12, <2>1, <2>2, CallsAssumption DEF SeqInUse, Registered, IInv, TableNamesSender
  <2>3. CASE d \in inDev
    BY <2>1, <2>3 DEF SeqInUse
  <2>4. CASE \E i \in DOMAIN fromDev : fromDev[i].call = d
    BY <2>1, <2>4, CallsAssumption DEF SeqInUse, IInv, FramesNumbered
  <2>. QED  BY <1>12, <2>2, <2>3, <2>4 DEF Named
<1>13. NamesDistinct'
  <2>. SUFFICES ASSUME ~reused', NEW a \in Calls, NEW b \in Calls,
                       Named(a)', Named(b)', seqOf'[a] = seqOf'[b]
                PROVE  a = b
    BY DEF NamesDistinct
  <2>1. CASE a # c /\ b # c
    BY <1>2, <1>4, <1>11, <2>1 DEF IInv, NamesDistinct
  <2>2. CASE a = c /\ b # c
    BY <1>4, <1>5, <1>11, <1>12, <2>2
  <2>3. CASE a # c /\ b = c
    BY <1>4, <1>5, <1>11, <1>12, <2>3
  <2>. QED  BY <2>1, <2>2, <2>3
<1>14. OpenIsRegistered'
  <2>. SUFFICES ASSUME ~reused', NEW d \in Calls, fut'[d] = "pending"
                PROVE  pending'[seqOf'[d]] = d
    BY DEF OpenIsRegistered
  <2>1. CASE d = c
    BY <1>1, <1>2, <1>3, <1>5, <2>1 DEF IInv, TypeOK
  <2>2. CASE d # c
    <3>1. pending[seqOf[d]] = d /\ seqOf[d] \in Seqs
      BY <1>2, <1>4, <2>2 DEF IInv, OpenIsRegistered, TypeOK
    <3>2. seqOf[d] # s  BY <1>12, <2>2, <3>1 DEF Named
    <3>. QED  BY <1>4, <1>6, <2>2, <3>1, <3>2
  <2>. QED  BY <2>1, <2>2
<1>15. ReplyMatchesRequest'
  BY <1>2, <1>4, <1>5 DEF IInv, ReplyMatchesRequest
<1>. QED
  BY <1>7, <1>8, <1>9, <1>10, <1>13, <1>14, <1>15 DEF IInv

LEMMA NextKeepsIInv == IInv /\ [Next]_vars => IInv'
<1>. SUFFICES ASSUME IInv, [Next]_vars PROVE IInv'
  OBVIOUS
<1>0. TypeOK'  BY NextTyped DEF IInv
<1>1. CASE UNCHANGED vars
  BY <1>1, <1>0, QuietKeepsIInv
     DEF QuietStep, vars, devVars, callVars, wireVars, history
<1>2. ASSUME NEW c \in Calls, CallStep(c) PROVE IInv'
  BY <1>0, <1>2, TransmitKeepsIInv, CallStepsKeepIInv DEF CallStep, Send
<1>3. ASSUME NEW k \in Closers, CloseStep(k) PROVE IInv'
  BY <1>0, <1>3, TransmitKeepsIInv, CloseStepsKeepIInv, CallsAssumption
     DEF CloseStep, CloseStart
<1>4. CASE ReadStep
  BY <1>0, <1>4, ReadFrameKeepsIInv, ReaderEndKeepsIInv DEF ReadStep
<1>5. CASE LineStep
  BY <1>0, <1>5, LineStepsKeepIInv
<1>. QED  BY <1>1, <1>2, <1>3, <1>4, <1>5 DEF Next

LEMMA Invariance == Spec => []IInv
  BY InitIInv, NextKeepsIInv, PTL DEF Spec

-----------------------------------------------------------------------------
(* What follows for the callers *)

\* No caller of a closed device waits for ever: an open future would still be
\* registered, and the table of a closed device is empty.
THEOREM ClosedLeavesNobody == Spec => []NobodyLeftWaiting
<1>1. IInv => NobodyLeftWaiting
  BY CallsAssumption
     DEF IInv, TypeOK, ClosedTableEmpty, OpenIsRegistered, NobodyLeftWaiting
<1>. QED  BY <1>1, Invariance, PTL

\* A result is always the answer to the request it is returned for.
THEOREM RepliesMatch == Spec => []ReplyMatchesRequest
<1>1. IInv => ReplyMatchesRequest  BY DEF IInv
<1>. QED  BY <1>1, Invariance, PTL

\* A settled future is never settled again.
THEOREM SettledStaysSettled == Spec => FutureCompletedOnce
<1>. DEFINE Settled == {"result", "exception", "cancelled"}
            Once == \A c \in Calls : fut[c] \in Settled => fut'[c] = fut[c]
<1>1. IInv /\ [Next]_vars => [Once]_vars
  <2>. SUFFICES ASSUME IInv, Next PROVE Once
    OBVIOUS
  <2>1. ASSUME NEW p, NEW f, FailAll(p, f),
               \A c \in Calls : fut[c] \in Settled => f[c] = fut[c]
        PROVE  Once
    BY <2>1 DEF FailAll
  <2>2. ASSUME NEW d, NEW o
        PROVE  \A c \in Calls : fut[c] \in Settled => Complete(fut, d, o)[c] = fut[c]
    BY DEF Complete, IInv, TypeOK
  <2>3. ASSUME NEW d \in Calls, NEW e \in BOOLEAN, Transmit(d, e) PROVE Once
    BY <2>3 DEF Transmit, IInv, TypeOK, UnsentIsSilent
  <2>4. ASSUME NEW c \in Calls, CallStep(c) PROVE Once
    BY <2>2, <2>3, <2>4
       DEF CallStep, Send, Refuse, Drained, DrainFails, Resume, CancelCall
  <2>5. ASSUME NEW k \in Closers, CloseStep(k) PROVE Once
    <3>1. CASE CloseAborted(k)
      <4>. DEFINE f == IF call[k] = "wait" THEN Complete(fut, k, "cancelled") ELSE fut
      <4>1. FailAll(pending, f)  BY <3>1 DEF CloseAborted
      <4>2. \A c \in Calls : fut[c] \in Settled => f[c] = fut[c]  BY <2>2
      <4>. HIDE DEF f
      <4>. QED  BY <2>1, <4>1, <4>2
    <3>2. CASE CloseFinally(k)
      BY <2>1, <3>2 DEF CloseFinally
    <3>. QED
      BY <2>3, <2>5, <3>1, <3>2, CallsAssumption
         DEF CloseStep, CloseEarlyReturn, CloseStart, CloseCancelsReader, CloseWriter
  <2>6. CASE ReadFrame
    <3>1. PICK p, f : /\ \A c \in Calls : fut[c] \in Settled => f[c] = fut[c]
                      /\ FailAll(p, f) \/ fut' = f
      BY <2>2, <2>6 DEF ReadFrame
    <3>. QED  BY <2>1, <3>1
  <2>7. CASE ReadEof \/ HandlerRaises \/ ReaderCancelled
    BY <2>1, <2>7 DEF ReadEof, HandlerRaises, ReaderCancelled
  <2>8. CASE LineStep
    BY <2>8 DEF LineStep, DevAnswers, DevMessage, LinkDown, callVars
  <2>. QED  BY <2>4, <2>5, <2>6, <2>7, <2>8 DEF Next, ReadStep
<1>. QED  BY <1>1, Invariance, PTL DEF Spec, FutureCompletedOnce

-----------------------------------------------------------------------------
(* The device implements CarBusPromises *)

LEMMA PromiseAt ==
  /\ \A c \in Calls : [d \in Calls |-> PromiseOf(d)][c] = PromiseOf(c)
  /\ \A c \in Calls : [d \in Calls |-> PromiseOf(d)]'[c] = PromiseOf(c)'
  OBVIOUS

\* A step that leaves futures, answers and closed alone is invisible.
LEMMA QuietStutters ==
  ASSUME UNCHANGED <<fut, got, closed>>
  PROVE  UNCHANGED Promises!vars
  BY DEF Promises!vars, PromiseOf

\* Failing every registered future breaks every open promise; the calls in
\* gone were cancelled in the same step.
LEMMA FailAllBreaks ==
  ASSUME IInv, ~reused, NEW gone \in SUBSET Calls, NEW f,
         \A c \in Calls : f[c] = IF fut[c] = "pending" /\ c \in gone THEN "cancelled" ELSE fut[c],
         FailAll(pending, f), got' = got
  PROVE  \A c \in Calls :
           PromiseOf(c)' = IF PromiseOf(c) # "open" THEN PromiseOf(c)
                           ELSE IF c \in gone THEN "dropped" ELSE "broken"
<1>. SUFFICES ASSUME NEW c \in Calls
              PROVE  PromiseOf(c)' = IF PromiseOf(c) # "open" THEN PromiseOf(c)
                                     ELSE IF c \in gone THEN "dropped" ELSE "broken"
  OBVIOUS
<1>1. fut[c] = "pending" => \E s \in Seqs : pending[s] = c
  BY DEF IInv, TypeOK, OpenIsRegistered
<1>2. fut'[c] = IF fut[c] # "pending" THEN fut[c]
                ELSE IF c \in gone THEN "cancelled" ELSE "exception"
  BY <1>1 DEF FailAll
<1>3. fut[c] \in {"none", "pending", "result", "exception", "cancelled"}
  BY DEF IInv, TypeOK
<1>. QED  BY <1>2, <1>3 DEF PromiseOf

\* One future changes, from pending to o.
LEMMA OneSettles ==
  ASSUME IInv, NEW c \in Calls, fut[c] = "pending",
         NEW how \in {"kept", "broken", "dropped"},
         \A d \in Calls : d # c => fut'[d] = fut[d] /\ got'[d] = got[d],
         PromiseOf(c)' = how, closed' = closed
  PROVE  Promises!Next
<1>1. PromiseOf(c) = "open"  BY DEF PromiseOf
<1>2. \A d \in Calls : d # c => PromiseOf(d)' = PromiseOf(d)  BY DEF PromiseOf
<1>3. Promises!Settle(c, how)  BY <1>1, <1>2 DEF Promises!Settle
<1>. QED  BY <1>3 DEF Promises!Next

LEMMA TransmitRefines ==
  ASSUME IInv, NEW c \in Calls, NEW e \in BOOLEAN, Transmit(c, e)
  PROVE  [Promises!Next]_Promises!vars
<1>1. CASE e
  <2>1. fut[c] = "none" /\ fut' = [fut EXCEPT ![c] = "pending"] /\ ~closed
        /\ UNCHANGED <<closed, got>>
    BY <1>1 DEF Transmit, IInv, UnsentIsSilent
  <2>2. PromiseOf(c) = "none" /\ PromiseOf(c)' = "open"
    BY <2>1 DEF PromiseOf, IInv, TypeOK
  <2>3. \A d \in Calls : d # c => PromiseOf(d)' = PromiseOf(d)
    BY <2>1 DEF PromiseOf, IInv, TypeOK
  <2>4. Promises!Make(c)
    BY <2>1, <2>2, <2>3 DEF Promises!Make
  <2>. QED  BY <2>4 DEF Promises!Next
<1>2. CASE ~e
  BY <1>2, QuietStutters DEF Transmit
<1>. QED  BY <1>1, <1>2

LEMMA CancelCallRefines ==
  ASSUME IInv, NEW c \in Calls, CancelCall(c)
  PROVE  [Promises!Next]_Promises!vars
<1>1. UNCHANGED <<got, closed>>  BY DEF CancelCall, devVars, history
<1>2. CASE call[c] = "wait" /\ fut[c] = "pending"
  <2>1. fut' = [fut EXCEPT ![c] = "cancelled"]
    BY <1>2 DEF CancelCall, Complete, IInv, TypeOK
  <2>2. PromiseOf(c)' = "dropped"  BY <2>1 DEF PromiseOf, IInv, TypeOK
  <2>3. \A d \in Calls : d # c => fut'[d] = fut[d] /\ got'[d] = got[d]
    BY <1>1, <2>1 DEF IInv, TypeOK
  <2>. QED  BY <1>1, <1>2, <2>2, <2>3, OneSettles
<1>3. CASE ~(call[c] = "wait" /\ fut[c] = "pending")
  <2>1. fut' = fut  BY <1>3 DEF CancelCall, Complete, IInv, TypeOK
  <2>. QED  BY <1>1, <2>1, QuietStutters
<1>. QED  BY <1>2, <1>3

LEMMA ReadFrameRefines ==
  ASSUME IInv, ~reused, AsyncSeqs \subseteq {0}, ReadFrame
  PROVE  [Promises!Next]_Promises!vars
<1>. DEFINE f == Head(fromDev)
            c == pending[f.seq]
            o == IF f.kind = "ERROR" THEN "exception" ELSE "result"
<1>1. /\ fromDev # <<>> /\ closed' = closed
      /\ got' = IF c # NoCall /\ fut[c] = "pending" THEN [got EXCEPT ![c] = f.call] ELSE got
  BY DEF ReadFrame
<1>2. f.seq \in Seqs
  <2>1. f \in Frames  BY <1>1, HeadTailProperties DEF IInv, TypeOK
  <2>. QED  BY <2>1 DEF Frames
<1>3. CASE closed
  <2>1. \A s \in Seqs : pending[s] = NoCall  BY <1>3 DEF IInv, ClosedTableEmpty
  <2>2. got' = got  BY <1>1, <1>2, <2>1
  <2>3. [pending EXCEPT ![f.seq] = NoCall] = pending
    BY <1>2, <2>1 DEF IInv, TypeOK
  <2>4. FailAll(pending, fut)
    BY <1>2, <1>3, <2>1, <2>3 DEF ReadFrame
  <2>5. fut' = fut
    BY <2>1, <2>4, CallsAssumption DEF FailAll, IInv, TypeOK
  <2>. QED  BY <1>1, <2>2, <2>5, QuietStutters
<1>4. CASE ~closed /\ c # NoCall /\ fut[c] = "pending"
  <2>1. PICK d \in Calls : d = c  BY <1>2, <1>4 DEF IInv, TypeOK
  <2>2. fut' = [fut EXCEPT ![d] = o]
    BY <1>4, <2>1 DEF ReadFrame, Complete, IInv, TypeOK
  <2>3. got'[d] = d
    BY <1>1, <1>4, <2>1, HeadIsOwnAnswer DEF IInv, TypeOK
  <2>4. \A b \in Calls : b # d => fut'[b] = fut[b] /\ got'[b] = got[b]
    BY <1>1, <1>4, <2>1, <2>2 DEF IInv, TypeOK
  <2>5. fut'[d] \in {"result", "exception"}
    BY <2>2 DEF IInv, TypeOK
  <2>6. fut[d] = "pending"  BY <1>4, <2>1
  <2>. HIDE DEF c, o
  <2>7. PromiseOf(d)' \in {"kept", "broken"}
    BY <2>3, <2>5 DEF PromiseOf
  <2>. QED  BY <1>1, <2>4, <2>6, <2>7, OneSettles
<1>5. CASE ~closed /\ ~(c # NoCall /\ fut[c] = "pending")
  <2>1. got' = got  BY <1>1, <1>5
  <2>2. fut' = fut
    BY <1>2, <1>5 DEF ReadFrame, Complete, IInv, TypeOK
  <2>. QED  BY <1>1, <2>1, <2>2, QuietStutters
<1>. QED  BY <1>3, <1>4, <1>5

LEMMA ShutdownRefines ==
  ASSUME IInv, ~reused,
         \/ ReadEof \/ HandlerRaises \/ ReaderCancelled
         \/ \E k \in Closers : CloseFinally(k) \/ CloseAborted(k)
  PROVE  [Promises!Next]_Promises!vars
<1>0. ASSUME FailAll(pending, fut), got' = got
      PROVE  \A c \in Calls :
               PromiseOf(c)' = IF PromiseOf(c) = "open" THEN "broken" ELSE PromiseOf(c)
  <2>1. \A c \in Calls : fut[c] = IF fut[c] = "pending" /\ c \in {} THEN "cancelled" ELSE fut[c]
    OBVIOUS
  <2>. DEFINE gone == {}
  <2>2. gone \in SUBSET Calls  OBVIOUS
  <2>3. \A c \in Calls :
          PromiseOf(c)' = IF PromiseOf(c) # "open" THEN PromiseOf(c)
                          ELSE IF c \in gone THEN "dropped" ELSE "broken"
    <3>. HIDE DEF gone
    <3>1. \A c \in Calls : fut[c] = IF fut[c] = "pending" /\ c \in gone THEN "cancelled" ELSE fut[c]
      BY DEF gone
    <3>. QED  BY <1>0, <2>2, <3>1, FailAllBreaks
  <2>. QED  BY <2>3
<1>1. CASE ReaderCancelled
  <2>1. FailAll(pending, fut) /\ UNCHANGED <<got, closed>>
    BY <1>1 DEF ReaderCancelled, history
  <2>2. Promises!BreakAll
    BY <1>0, <2>1 DEF Promises!BreakAll
  <2>. QED  BY <2>2 DEF Promises!Next
<1>2. CASE ReadEof \/ HandlerRaises \/ \E k \in Closers : CloseFinally(k)
  <2>1. FailAll(pending, fut) /\ got' = got /\ closed' = TRUE
    BY <1>2 DEF ReadEof, HandlerRaises, CloseFinally, history
  <2>2. Promises!Shut({})
    BY <1>0, <2>1 DEF Promises!Shut
  <2>. QED  BY <2>2 DEF Promises!Next
<1>3. ASSUME NEW k \in Closers, CloseAborted(k)
      PROVE  [Promises!Next]_Promises!vars
  <2>. DEFINE f == IF call[k] = "wait" THEN Complete(fut, k, "cancelled") ELSE fut
              gone == IF call[k] = "wait" THEN {k} ELSE {}
  <2>1. FailAll(pending, f) /\ got' = got /\ closed' = TRUE /\ k \in Calls
    BY <1>3, CallsAssumption DEF CloseAborted, history
  <2>2. /\ gone \in SUBSET Calls
        /\ \A c \in Calls : f[c] = IF fut[c] = "pending" /\ c \in gone THEN "cancelled" ELSE fut[c]
    BY <2>1 DEF Complete, IInv, TypeOK
  <2>. HIDE DEF f
  <2>3. \A c \in Calls :
          PromiseOf(c)' = IF PromiseOf(c) # "open" THEN PromiseOf(c)
                          ELSE IF c \in gone THEN "dropped" ELSE "broken"
    BY <2>1, <2>2, FailAllBreaks
  <2>4. Promises!Shut(gone)
    BY <2>1, <2>3 DEF Promises!Shut
  <2>. QED  BY <2>1, <2>4 DEF Promises!Next
<1>. QED  BY <1>1, <1>2, <1>3

LEMMA NextRefines ==
  ASSUME IInv, ~reused, AsyncSeqs \subseteq {0}, [Next]_vars
  PROVE  [Promises!Next]_Promises!vars
<1>1. CASE UNCHANGED vars
  BY <1>1, QuietStutters DEF vars, devVars, callVars, history
<1>2. ASSUME NEW c \in Calls, CallStep(c) PROVE [Promises!Next]_Promises!vars
  <2>1. CASE Refuse(c) \/ Drained(c) \/ DrainFails(c) \/ Resume(c)
    BY <2>1, QuietStutters
       DEF Refuse, Drained, DrainFails, Resume, devVars, history
  <2>. QED  BY <1>2, <2>1, TransmitRefines, CancelCallRefines DEF CallStep, Send
<1>3. ASSUME NEW k \in Closers, CloseStep(k) PROVE [Promises!Next]_Promises!vars
  <2>1. CASE CloseEarlyReturn(k) \/ CloseCancelsReader(k) \/ CloseWriter(k)
    BY <2>1, QuietStutters
       DEF CloseEarlyReturn, CloseCancelsReader, CloseWriter, devVars, history
  <2>. QED
    BY <1>3, <2>1, TransmitRefines, ShutdownRefines, CallsAssumption
       DEF CloseStep, CloseStart
<1>4. CASE ReadStep
  BY <1>4, ReadFrameRefines, ShutdownRefines DEF ReadStep
<1>5. CASE LineStep
  BY <1>5, QuietStutters
     DEF LineStep, DevAnswers, DevMessage, LinkDown, devVars, callVars, history
<1>. QED  BY <1>1, <1>2, <1>3, <1>4, <1>5 DEF Next

\* Up to the first reuse of a number in use, on a line whose unsolicited
\* frames carry number 0, the device keeps its promises.
THEOREM DeviceImplementsPromises ==
  AsyncSeqs \subseteq {0} => (Spec => ImplementsPromises)
<1>. SUFFICES ASSUME AsyncSeqs \subseteq {0}
              PROVE  Spec => ImplementsPromises
  OBVIOUS
<1>1. Init => Promises!Init
  BY DEF Init, Promises!Init, PromiseOf
<1>2. IInv /\ [Next]_vars => [Promises!Next \/ reused]_Promises!vars
  BY NextRefines
<1>. QED
  BY <1>1, <1>2, Invariance, PTL DEF Spec, ImplementsPromises

\* A run that never reuses a number in use is one of CarBusPromises.
COROLLARY DeviceRefinesPromises ==
  AsyncSeqs \subseteq {0} => (Spec /\ []~reused => Promises!Spec)
<1>. SUFFICES ASSUME AsyncSeqs \subseteq {0}
              PROVE  Spec /\ []~reused => Promises!Spec
  OBVIOUS
<1>1. Init => Promises!Init
  BY DEF Init, Promises!Init, PromiseOf
<1>2. IInv /\ ~reused /\ [Next]_vars => [Promises!Next]_Promises!vars
  BY NextRefines
<1>. QED
  BY <1>1, <1>2, Invariance, PTL DEF Spec, Promises!Spec
=============================================================================
