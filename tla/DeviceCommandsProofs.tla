------------------------ MODULE DeviceCommandsProofs ------------------------
(***************************************************************************)
(* What DeviceCommands guarantees about the operations of several          *)
(* requests, for any number of requests, filters and closers, and any      *)
(* arguments of open_can_channel.  The command plane is that of            *)
(* CarBusDevice, so its invariant IInv holds here too.                     *)
(***************************************************************************)
EXTENDS DeviceCommands, CarBusDeviceProofs, FiniteSetTheorems

NumRequests == Cardinality(Calls \ Closers)
UserCalls == 1 .. NumRequests

-----------------------------------------------------------------------------
(* The invariants *)

Sent == {c \in Calls : call[c] \notin {"idle", "refused"}}

\* Sequence numbers are given out in order, and are not used up.
Numbered ==
  /\ ~reused
  /\ seqCounter = Cardinality(Sent)
  /\ \A c \in Calls : seqOf[c] <= seqCounter
  /\ \A c, d \in UserCalls : c < d /\ d \in Sent => seqOf[c] < seqOf[d]

OnWire(c) == c \in inDev \/ \E i \in DOMAIN fromDev : fromDev[i].call = c

\* Each request is answered once at the most, and nothing comes unasked.
AnsweredOnce ==
  /\ \A i \in DOMAIN fromDev :
       /\ fromDev[i].kind \in {"REPLY", "ERROR"}
       /\ fromDev[i].call \in Calls \ inDev
  /\ \A i, j \in DOMAIN fromDev : fromDev[i].call = fromDev[j].call => i = j
  /\ \A c \in Calls : got[c] # NoCall => ~OnWire(c)

FuturesKnown ==
  \A c \in Calls :
    /\ c \in Sent => fut[c] # "none"
    /\ fut[c] \in {"none", "pending"} => got[c] = NoCall
    /\ fut[c] = "result" => got[c] # NoCall

\* What was answered tells what was executed.
AnswersTell ==
  /\ \A c \in inDev : c \notin executed
  /\ \A i \in DOMAIN fromDev : fromDev[i].kind = "REPLY" <=> fromDev[i].call \in executed
  /\ \A c \in Calls : got[c] # NoCall => (fut[c] = "result" <=> c \in executed)

\* The adapter takes its commands in the order of the requests.
ExecutedInOrder == \A c \in executed, d \in inDev : c \in UserCalls /\ d \in UserCalls => c < d

\* The task makes one request after another.
Progress ==
  /\ made \in 0 .. NumRequests
  /\ user \in {"syncing", "busy", "undrained", "idle", "gone"}
  /\ user \in {"busy", "undrained", "idle"} => made > 0
  /\ user = "syncing" => made = 0
  /\ \A c \in UserCalls :
       /\ c > made => call[c] = "idle"
       /\ c < made => call[c] \in Finished
       /\ c = made /\ user # "busy" => call[c] \in Finished
       /\ c = made /\ user = "busy" =>
            /\ call[c] # "idle"
            /\ call[c] = "returned" => fut[c] = "result"
            /\ call[c] = "raised" => fut[c] = "exception"

\* The room that the bound of Begin left.
RoomLeft ==
  user = "busy" /\ op.name = "ensure_terminator" /\ command[made].name = "DEVICE_INFO" =>
    made < NumRequests

AdapterTyped ==
  /\ adapter = [filters |-> adapter.filters, channel |-> adapter.channel,
                switched |-> adapter.switched]
  /\ adapter.filters \subseteq 0 .. MaxFilters - 1

CommandsKnown ==
  /\ \A k \in Closers : command[k] = Plain("none")
  /\ \A c \in Calls : command[c].name = "FILTER_SET" => command[c].filter \in 0 .. MaxFilters - 1

\* clear_all_filters is at filter i: all requests before this one were
\* answered, and what was executed of them was counted and is still so.
ClearingAt(i) ==
  LET batch == made - i .. made
      before == made - i .. made - 1
  IN  /\ i < made
      /\ user = "busy" => made + MaxFilters <= NumRequests + i + 1
      /\ command[made] = FilterClear(i)
      /\ \A c \in before : got[c] # NoCall
      /\ cleared = Cardinality(executed \cap before)
      /\ op.stopOnError => before \subseteq executed
      /\ \A c \in executed \cap batch : c - (made - i) \notin adapter.filters
      /\ user = "idle" /\ outcome.how = "returned" =>
           /\ got[made] # NoCall
           /\ outcome.count = Cardinality(executed \cap batch)
           /\ op.stopOnError /\ made \in executed => i = MaxFilters - 1

Clearing ==
  op.name = "clear_all_filters" =>
    user \in {"busy", "undrained", "idle"} /\ \E i \in 0 .. MaxFilters - 1 : ClearingAt(i)

WireInv == Numbered /\ AnsweredOnce /\ FuturesKnown

ExecutedInv == AnswersTell /\ ExecutedInOrder /\ executed \subseteq Sent

DeviceInv == IInv /\ WireInv /\ ExecutedInv

CommandsInv ==
  /\ DeviceInv
  /\ Progress /\ RoomLeft
  /\ AdapterTyped /\ CommandsKnown
  /\ Clearing

-----------------------------------------------------------------------------
(* Steps of the command plane that add nothing to the wire *)

Quiet ==
  /\ UNCHANGED <<seqCounter, seqOf, got, reused>>
  /\ inDev' \subseteq inDev /\ fromDev' \in {fromDev, <<>>}
  /\ Sent' = Sent
  /\ \A c \in Calls : fut'[c] # fut[c] => fut[c] = "pending" /\ fut'[c] \in {"exception", "cancelled"}

LEMMA UserCallsAre ==
  /\ UserCalls = Calls \ Closers /\ NumRequests \in Nat \ {0}
  /\ IsFiniteSet(Calls) /\ Cardinality(Calls) \in Nat
  /\ UserCalls \subseteq Nat /\ UserCalls \subseteq Calls
<1>1. IsFiniteSet(Calls) /\ IsFiniteSet(Calls \ Closers)  BY CommandsAssumption, FS_Difference
<1>2. NumRequests \in Nat /\ Cardinality(Calls) \in Nat
  BY <1>1, FS_CardinalityType DEF NumRequests
<1>3. NumRequests # 0  BY <1>1, FS_EmptySet, CommandsAssumption DEF NumRequests
<1>4. UserCalls = Calls \ Closers  BY CommandsAssumption DEF UserCalls, NumRequests
<1>. QED  BY <1>1, <1>2, <1>3, <1>4 DEF UserCalls

LEMMA FailAllQuiet ==
  ASSUME TypeOK, NEW f \in [Calls -> {"none", "pending", "result", "exception", "cancelled"}],
         FailAll(pending, f),
         \A c \in Calls : f[c] # fut[c] => fut[c] = "pending" /\ f[c] = "cancelled",
         UNCHANGED <<seqCounter, seqOf, got, reused, inDev, fromDev>>, Sent' = Sent
  PROVE  Quiet
<1>1. \A c \in Calls : fut'[c] = IF f[c] = "pending" /\ (\E s \in Seqs : pending[s] = c)
                                 THEN "exception" ELSE f[c]
  BY DEF FailAll
<1>. QED  BY <1>1 DEF Quiet

LEMMA CallsQuiet ==
  ASSUME TypeOK, NEW c \in Calls,
         Refuse(c) \/ Drained(c) \/ DrainFails(c) \/ Resume(c) \/ CancelCall(c)
  PROVE  Quiet
<1>. USE DEF TypeOK, Quiet, Sent, devVars, wireVars, history
<1>1. CASE Refuse(c)  BY <1>1 DEF Refuse
<1>2. CASE Drained(c)  BY <1>2 DEF Drained
<1>3. CASE DrainFails(c)  BY <1>3 DEF DrainFails
<1>4. CASE Resume(c)  BY <1>4 DEF Resume
<1>5. CASE CancelCall(c)
  <2>1. \A d \in Calls : fut'[d] # fut[d] => fut[d] = "pending" /\ fut'[d] = "cancelled"
    BY <1>5 DEF CancelCall, Complete
  <2>2. Sent' = Sent  BY <1>5 DEF CancelCall, Outstanding
  <2>. QED  BY <1>5, <2>1, <2>2 DEF CancelCall
<1>. QED  BY <1>1, <1>2, <1>3, <1>4, <1>5

LEMMA ClosesQuiet ==
  ASSUME TypeOK, NEW k \in Closers, CloseStep(k), ~CloseStart(k)
  PROVE  Quiet
<1>. USE DEF TypeOK, devVars, wireVars, history
<1>0. k \in Calls  BY CallsAssumption
<1>1. CASE CloseEarlyReturn(k) \/ CloseCancelsReader(k) \/ CloseWriter(k)
  BY <1>1 DEF CloseEarlyReturn, CloseCancelsReader, CloseWriter, Quiet, Sent
<1>2. CASE CloseFinally(k)
  <2>1. Sent' = Sent  BY <1>2 DEF CloseFinally, Sent
  <2>. QED  BY <1>2, <2>1, FailAllQuiet DEF CloseFinally
<1>3. CASE CloseAborted(k)
  <2>. DEFINE f == IF call[k] = "wait" THEN Complete(fut, k, "cancelled") ELSE fut
  <2>1. Sent' = Sent  BY <1>0, <1>3 DEF CloseAborted, Outstanding, Sent
  <2>2. f \in [Calls -> {"none", "pending", "result", "exception", "cancelled"}]
        /\ \A c \in Calls : f[c] # fut[c] => fut[c] = "pending" /\ f[c] = "cancelled"
    BY <1>0 DEF Complete
  <2>3. FailAll(pending, f) /\ UNCHANGED <<seqCounter, seqOf, got, reused, inDev, fromDev>>
    BY <1>3 DEF CloseAborted
  <2>. HIDE DEF f
  <2>. QED  BY <2>1, <2>2, <2>3, FailAllQuiet
<1>. QED  BY <1>1, <1>2, <1>3 DEF CloseStep

LEMMA EndsQuiet ==
  ASSUME TypeOK, ReadEof \/ ReaderCancelled \/ LinkDown \/ UNCHANGED vars
  PROVE  Quiet
<1>. USE DEF TypeOK, devVars, callVars, wireVars, history, vars
<1>1. CASE ReadEof \/ ReaderCancelled
  <2>1. Sent' = Sent  BY <1>1 DEF ReadEof, ReaderCancelled, Sent
  <2>2. FailAll(pending, fut) /\ UNCHANGED <<seqCounter, seqOf, got, reused, inDev, fromDev>>
    BY <1>1 DEF ReadEof, ReaderCancelled
  <2>. QED  BY <2>1, <2>2, FailAllQuiet
<1>2. CASE LinkDown \/ UNCHANGED vars  BY <1>2 DEF LinkDown, Quiet, Sent
<1>. QED  BY <1>1, <1>2

LEMMA QuietKeepsWire ==
  ASSUME TypeOK, WireInv, Quiet
  PROVE  WireInv' /\ \A c \in Calls : OnWire(c)' => OnWire(c)
<1>1. \A i \in DOMAIN fromDev' : i \in DOMAIN fromDev /\ fromDev'[i] = fromDev[i]
  <2>1. DOMAIN <<>> = {}  OBVIOUS
  <2>. QED  BY <2>1 DEF Quiet
<1>2. \A c \in Calls : OnWire(c)' => OnWire(c)  BY <1>1 DEF OnWire, Quiet
<1>3. Numbered'  BY DEF WireInv, Numbered, Quiet
<1>4. AnsweredOnce'
  BY <1>1, <1>2 DEF WireInv, AnsweredOnce, Quiet
<1>5. FuturesKnown'  BY DEF WireInv, FuturesKnown, Quiet
<1>. QED  BY <1>2, <1>3, <1>4, <1>5 DEF WireInv

LEMMA QuietKeepsExecuted ==
  ASSUME TypeOK, WireInv, ExecutedInv, Quiet, UNCHANGED executed
  PROVE  ExecutedInv'
<1>1. \A i \in DOMAIN fromDev' : i \in DOMAIN fromDev /\ fromDev'[i] = fromDev[i]
  <2>1. DOMAIN <<>> = {}  OBVIOUS
  <2>. QED  BY <2>1 DEF Quiet
<1>2. \A c \in Calls : got[c] # NoCall => fut'[c] = fut[c]  BY DEF Quiet, WireInv, FuturesKnown
<1>3. AnswersTell'  BY <1>1, <1>2 DEF ExecutedInv, AnswersTell, Quiet
<1>4. ExecutedInOrder'  BY DEF ExecutedInv, ExecutedInOrder, Quiet
<1>. QED  BY <1>3, <1>4 DEF ExecutedInv, Quiet

-----------------------------------------------------------------------------
(* Requests, answers and the reading of them *)

LEMMA SentCounted ==
  ASSUME TypeOK, WireInv, NEW c \in Calls, call[c] = "idle"
  PROVE  /\ IsFiniteSet(Sent) /\ Cardinality(Sent \cup {c}) = seqCounter + 1
         /\ seqCounter \in Nat /\ seqCounter < MaxSeq /\ NextSeq(seqCounter) = seqCounter + 1
<1>1. IsFiniteSet(Calls) /\ Sent \cup {c} \subseteq Calls /\ c \notin Sent  BY UserCallsAre DEF Sent
<1>2. IsFiniteSet(Sent) /\ IsFiniteSet(Sent \cup {c})  BY <1>1, FS_Subset
<1>3. Cardinality(Sent) \in Nat /\ Cardinality(Sent \cup {c}) = Cardinality(Sent) + 1
  BY <1>1, <1>2, FS_AddElement, FS_CardinalityType
<1>4. Cardinality(Sent \cup {c}) <= Cardinality(Calls) /\ Cardinality(Calls) \in Nat
  BY <1>1, FS_Subset, FS_CardinalityType
<1>5. Cardinality(Calls) <= MaxSeq /\ MaxSeq \in Nat  BY CommandsAssumption, CallsAssumption
<1>6. seqCounter = Cardinality(Sent)  BY DEF WireInv, Numbered
<1>7. seqCounter < MaxSeq  BY <1>3, <1>4, <1>5, <1>6
<1>8. (seqCounter + 1) % (MaxSeq + 1) = seqCounter + 1  BY <1>3, <1>5, <1>6, <1>7
<1>9. NextSeq(seqCounter) = seqCounter + 1  BY <1>3, <1>6, <1>8 DEF NextSeq
<1>. QED  BY <1>2, <1>3, <1>6, <1>7, <1>9

LEMMA NumberIsFree ==
  ASSUME IInv, WireInv
  PROVE  ~SeqInUse(seqCounter + 1)
<1>1. seqCounter \in Nat /\ \A c \in Calls : seqOf[c] \in Nat /\ seqOf[c] <= seqCounter
  BY CallsAssumption DEF IInv, TypeOK, WireInv, Numbered, Seqs
<1>2. \A s \in Registered : s # seqCounter + 1
  <2>. SUFFICES ASSUME NEW s \in Registered PROVE s # seqCounter + 1
    OBVIOUS
  <2>1. s \in Seqs /\ pending[s] # NoCall  BY DEF Registered
  <2>2. pending[s] \in Calls /\ seqOf[pending[s]] = s  BY <2>1 DEF IInv, TypeOK, TableNamesSender
  <2>. QED  BY <1>1, <2>2
<1>3. \A d \in inDev : seqOf[d] # seqCounter + 1  BY <1>1 DEF IInv, TypeOK
<1>4. \A i \in DOMAIN fromDev : fromDev[i].seq # seqCounter + 1
  <2>. SUFFICES ASSUME NEW i \in DOMAIN fromDev PROVE fromDev[i].seq # seqCounter + 1
    OBVIOUS
  <2>1. fromDev[i].call \in Calls  BY DEF WireInv, AnsweredOnce
  <2>2. fromDev[i].seq = seqOf[fromDev[i].call]
    BY <2>1, CallsAssumption DEF IInv, FramesNumbered
  <2>. QED  BY <1>1, <2>1, <2>2
<1>. QED  BY <1>2, <1>3, <1>4 DEF SeqInUse

\* A request goes out: the task's, after all its others, or the one of a close().
LEMMA TransmitKeepsWire ==
  ASSUME IInv, WireInv, NEW c \in Calls, Transmit(c, TRUE),
         c \in UserCalls => \A d \in UserCalls : d \in Sent => d < c
  PROVE  /\ WireInv'
         /\ Sent' = Sent \cup {c} /\ c \notin Sent
         /\ ~OnWire(c) /\ \A d \in Calls : d # c /\ OnWire(d)' => OnWire(d)
         /\ fut' = [fut EXCEPT ![c] = "pending"] /\ got[c] = NoCall
<1>1. call[c] = "idle" /\ fut[c] = "none" /\ c \notin inDev
      /\ (\A i \in DOMAIN fromDev : fromDev[i].call # c)
  BY DEF Transmit, IInv, UnsentIsSilent
<1>2. /\ call' = [call EXCEPT ![c] = "drain"] /\ fut' = [fut EXCEPT ![c] = "pending"]
      /\ inDev' \subseteq inDev \cup {c} /\ UNCHANGED <<fromDev, got>>
      /\ call \in [Calls -> {"idle", "drain", "wait"} \cup Finished]
      /\ fut \in [Calls -> {"none", "pending", "result", "exception", "cancelled"}]
  BY DEF Transmit, IInv, TypeOK
<1>3. Sent' = Sent \cup {c} /\ c \notin Sent  BY <1>1, <1>2 DEF Sent
<1>4. /\ seqCounter \in Nat /\ seqCounter' = seqCounter + 1
      /\ seqOf' = [seqOf EXCEPT ![c] = seqCounter + 1]
      /\ Cardinality(Sent') = seqCounter + 1
      /\ reused' = (reused \/ SeqInUse(seqCounter + 1))
  BY <1>1, <1>3, SentCounted DEF Transmit, IInv
<1>5. seqOf \in [Calls -> Nat]  BY CallsAssumption DEF IInv, TypeOK, Seqs
<1>6. Numbered'
  <2>1. ~reused'  BY <1>4, NumberIsFree DEF WireInv, Numbered
  <2>2. seqCounter' = Cardinality(Sent')  BY <1>4
  <2>3. \A d \in Calls : seqOf'[d] <= seqCounter'  BY <1>4, <1>5 DEF WireInv, Numbered
  <2>4. ASSUME NEW d \in UserCalls, NEW e \in UserCalls, d < e, e \in Sent'
        PROVE  seqOf'[d] < seqOf'[e]
    <3>0. d \in Nat /\ e \in Nat /\ d \in Calls /\ e \in Calls  BY UserCallsAre
    <3>1. CASE e = c
      <4>1. seqOf'[e] = seqCounter + 1 /\ seqOf'[d] = seqOf[d]  BY <1>4, <1>5, <2>4, <3>0, <3>1
      <4>2. seqOf[d] <= seqCounter  BY <3>0 DEF WireInv, Numbered
      <4>. QED  BY <1>4, <1>5, <3>0, <4>1, <4>2
    <3>2. CASE e # c
      <4>1. e \in Sent  BY <1>3, <2>4, <3>2
      <4>2. d # c  BY <2>4, <3>0, <4>1
      <4>. QED  BY <1>4, <1>5, <2>4, <3>0, <3>2, <4>1, <4>2 DEF WireInv, Numbered
    <3>. QED  BY <3>1, <3>2
  <2>. QED  BY <2>1, <2>2, <2>3, <2>4 DEF Numbered
<1>7. got[c] = NoCall  BY <1>1 DEF WireInv, FuturesKnown
<1>8. ~OnWire(c) /\ \A d \in Calls : d # c /\ OnWire(d)' => OnWire(d)  BY <1>1, <1>2 DEF OnWire
<1>9. AnsweredOnce'
  <2>1. \A i \in DOMAIN fromDev : fromDev[i].call \in Calls \ inDev'  BY <1>1, <1>2 DEF WireInv, AnsweredOnce
  <2>2. \A d \in Calls : got[d] # NoCall => ~OnWire(d)'  BY <1>7, <1>8 DEF WireInv, AnsweredOnce
  <2>. QED  BY <1>2, <2>1, <2>2 DEF WireInv, AnsweredOnce
<1>10. FuturesKnown'  BY <1>2, <1>3, <1>7 DEF WireInv, FuturesKnown
<1>. QED  BY <1>2, <1>3, <1>6, <1>7, <1>8, <1>9, <1>10 DEF WireInv

LEMMA TransmitKeepsExecuted ==
  ASSUME IInv, WireInv, ExecutedInv, NEW c \in Calls, Transmit(c, TRUE),
         c \in UserCalls => \A d \in UserCalls : d \in Sent => d < c,
         UNCHANGED executed
  PROVE  ExecutedInv'
<1>1. Sent' = Sent \cup {c} /\ c \notin Sent /\ fut' = [fut EXCEPT ![c] = "pending"] /\ got[c] = NoCall
  BY TransmitKeepsWire
<1>2. inDev' \subseteq inDev \cup {c} /\ UNCHANGED <<fromDev, got>>  BY DEF Transmit
<1>3. fut \in [Calls -> {"none", "pending", "result", "exception", "cancelled"}]
  BY DEF IInv, TypeOK
<1>4. c \notin executed  BY <1>1 DEF ExecutedInv
<1>5. AnswersTell'  BY <1>1, <1>2, <1>3, <1>4 DEF ExecutedInv, AnswersTell
<1>6. ExecutedInOrder'  BY <1>1, <1>2 DEF ExecutedInv, ExecutedInOrder
<1>. QED  BY <1>1, <1>5, <1>6 DEF ExecutedInv

\* The adapter answers request c, and executes it unless it refuses.
LEMMA AnswerKeepsWire ==
  ASSUME IInv, WireInv, NEW c \in Calls, DevAnswers(c)
  PROVE  /\ WireInv' /\ Sent' = Sent /\ c \in Sent /\ UNCHANGED <<fut, got>>
         /\ c \in inDev /\ inDev' = inDev \ {c} /\ got[c] = NoCall
         /\ \A d \in Calls : OnWire(d)' => OnWire(d)
         /\ \E kind \in {"REPLY", "ERROR"} :
              LET f == [kind |-> kind, seq |-> seqOf[c], call |-> c]
              IN  /\ Len(fromDev') = Len(fromDev) + 1 /\ fromDev'[Len(fromDev')] = f
                  /\ DOMAIN fromDev' = DOMAIN fromDev \cup {Len(fromDev')}
                  /\ Len(fromDev') \notin DOMAIN fromDev
                  /\ \A i \in DOMAIN fromDev : fromDev'[i] = fromDev[i]
<1>1. c \in inDev /\ inDev' = inDev \ {c} /\ UNCHANGED <<call, fut, got, seqOf, seqCounter, reused>>
  BY DEF DevAnswers, devVars, callVars, history
<1>2. c \in Sent /\ fut[c] # "none"
  BY <1>1 DEF IInv, UnsentIsSilent, Sent, WireInv, FuturesKnown
<1>3. PICK kind \in {"REPLY", "ERROR"} :
        fromDev' = Append(fromDev, [kind |-> kind, seq |-> seqOf[c], call |-> c])
  BY <1>2 DEF DevAnswers
<1>. DEFINE f == [kind |-> kind, seq |-> seqOf[c], call |-> c]
<1>4. /\ fromDev \in Seq(Frames) /\ f \in Frames
      /\ Len(fromDev) \in Nat /\ DOMAIN fromDev = 1 .. Len(fromDev)
  BY LenProperties DEF IInv, TypeOK, Frames
<1>5. /\ Len(fromDev') = Len(fromDev) + 1 /\ fromDev'[Len(fromDev')] = f
      /\ DOMAIN fromDev' = DOMAIN fromDev \cup {Len(fromDev')}
      /\ Len(fromDev') \notin DOMAIN fromDev
      /\ \A i \in DOMAIN fromDev : fromDev'[i] = fromDev[i]
  <2>1. /\ fromDev' \in Seq(Frames) /\ Len(fromDev') = Len(fromDev) + 1
        /\ fromDev'[Len(fromDev) + 1] = f
        /\ \A i \in 1 .. Len(fromDev) : fromDev'[i] = fromDev[i]
    BY <1>3, <1>4, AppendProperties
  <2>2. DOMAIN fromDev' = 1 .. Len(fromDev')  BY <2>1, LenProperties
  <2>. QED  BY <1>4, <2>1, <2>2
<1>6. Sent' = Sent  BY <1>1 DEF Sent
<1>7. got[c] = NoCall  BY <1>1 DEF WireInv, AnsweredOnce, OnWire
<1>8. \A d \in Calls : OnWire(d)' => OnWire(d)  BY <1>1, <1>5 DEF OnWire
<1>9. AnsweredOnce'
  <2>1. c \notin inDev'  BY <1>1
  <2>2. \A i \in DOMAIN fromDev : fromDev[i].call # c  BY <1>1 DEF WireInv, AnsweredOnce
  <2>. QED  BY <1>1, <1>5, <1>8, <2>1, <2>2 DEF WireInv, AnsweredOnce
<1>10. Numbered' /\ FuturesKnown'  BY <1>1, <1>6 DEF WireInv, Numbered, FuturesKnown
<1>. QED  BY <1>1, <1>2, <1>5, <1>6, <1>7, <1>8, <1>9, <1>10 DEF WireInv

LEMMA AnswerKeepsExecuted ==
  ASSUME IInv, WireInv, ExecutedInv, NEW c \in Calls, AdapterAnswers(c)
  PROVE  /\ ExecutedInv'
         /\ \/ UNCHANGED <<executed, adapter>>
            \/ executed' = executed \cup {c} /\ adapter' = Execute(command[c])
<1>0. DevAnswers(c)  BY DEF AdapterAnswers
<1>1. PICK kind \in {"REPLY", "ERROR"} :
        LET f == [kind |-> kind, seq |-> seqOf[c], call |-> c]
        IN  /\ Len(fromDev') = Len(fromDev) + 1 /\ fromDev'[Len(fromDev')] = f
            /\ DOMAIN fromDev' = DOMAIN fromDev \cup {Len(fromDev')}
            /\ Len(fromDev') \notin DOMAIN fromDev
            /\ \A i \in DOMAIN fromDev : fromDev'[i] = fromDev[i]
  BY <1>0, AnswerKeepsWire
<1>2. /\ Sent' = Sent /\ c \in Sent /\ UNCHANGED <<fut, got>>
      /\ c \in inDev /\ inDev' = inDev \ {c} /\ got[c] = NoCall
  BY <1>0, AnswerKeepsWire
<1>3. /\ kind = "REPLY" => executed' = executed \cup {c} /\ adapter' = Execute(command[c])
      /\ kind = "ERROR" => UNCHANGED <<executed, adapter>>
  BY <1>1 DEF AdapterAnswers
<1>4. AnswersTell'
  <2>1. \A d \in inDev' : d \notin executed'  BY <1>2, <1>3 DEF ExecutedInv, AnswersTell
  <2>2. \A i \in DOMAIN fromDev : fromDev[i].call # c  BY <1>2 DEF WireInv, AnsweredOnce
  <2>3. c \notin executed  BY <1>2 DEF ExecutedInv, AnswersTell
  <2>4. \A i \in DOMAIN fromDev' : fromDev'[i].kind = "REPLY" <=> fromDev'[i].call \in executed'
    BY <1>1, <1>3, <2>2, <2>3 DEF ExecutedInv, AnswersTell
  <2>5. \A d \in Calls : got'[d] # NoCall => (fut'[d] = "result" <=> d \in executed')
    BY <1>2, <1>3 DEF ExecutedInv, AnswersTell
  <2>. QED  BY <2>1, <2>4, <2>5 DEF AnswersTell
<1>5. ASSUME NEW d \in inDev', d \in UserCalls, c \in UserCalls PROVE c < d
  <2>0. c \in Nat /\ d \in Nat /\ d \in Calls /\ d \in inDev /\ d # c  BY <1>2, <1>5, UserCallsAre
  <2>1. seqOf[c] <= seqOf[d]  BY <2>0 DEF AdapterAnswers
  <2>2. d < c => seqOf[d] < seqOf[c]  BY <1>2, <1>5 DEF WireInv, Numbered
  <2>3. seqOf[c] \in Nat /\ seqOf[d] \in Nat  BY <2>0, CallsAssumption DEF IInv, TypeOK, Seqs
  <2>. QED  BY <2>0, <2>1, <2>2, <2>3
<1>6. ExecutedInOrder'  BY <1>2, <1>3, <1>5 DEF ExecutedInv, ExecutedInOrder
<1>. QED  BY <1>2, <1>3, <1>4, <1>6 DEF ExecutedInv

\* A future that is completed with an answer gets its own call's.
LEMMA ReadFrameKeepsWire ==
  ASSUME IInv, WireInv, ReadFrame
  PROVE  /\ WireInv' /\ Sent' = Sent /\ UNCHANGED inDev
         /\ 1 \in DOMAIN fromDev /\ Head(fromDev) = fromDev[1]
         /\ \A i \in DOMAIN fromDev' : i + 1 \in DOMAIN fromDev /\ fromDev'[i] = fromDev[i + 1]
         /\ \A c \in Calls :
              \/ UNCHANGED <<fut[c], got[c]>>
              \/ fut[c] = "pending" /\ got'[c] = got[c] /\ fut'[c] = "exception"
              \/ /\ fut[c] = "pending" /\ got'[c] = c /\ Head(fromDev).call = c
                 /\ fut'[c] = IF Head(fromDev).kind = "ERROR" THEN "exception" ELSE "result"
<1>. DEFINE f == Head(fromDev)
            c == pending[f.seq]
            p == [pending EXCEPT ![f.seq] = NoCall]
            told == IF f.kind = "ERROR" THEN "exception" ELSE "result"
            futures == IF c = NoCall THEN fut ELSE Complete(fut, c, told)
<1>1. /\ fromDev \in Seq(Frames) /\ fromDev # <<>> /\ fromDev' = Tail(fromDev)
      /\ UNCHANGED <<seqCounter, call, seqOf, inDev, reused>>
      /\ got' = IF c # NoCall /\ fut[c] = "pending" THEN [got EXCEPT ![c] = f.call] ELSE got
      /\ FailAll(p, futures) \/ fut' = futures
  BY DEF ReadFrame, IInv, TypeOK
<1>2. /\ Len(fromDev) \in Nat \ {0} /\ DOMAIN fromDev = 1 .. Len(fromDev)
      /\ f = fromDev[1] /\ f \in Frames
      /\ DOMAIN fromDev' = 1 .. Len(fromDev) - 1
      /\ \A i \in DOMAIN fromDev' : fromDev'[i] = fromDev[i + 1]
  <2>1. Len(fromDev) \in Nat \ {0} /\ DOMAIN fromDev = 1 .. Len(fromDev)
    BY <1>1, EmptySeq, LenProperties
  <2>2. /\ f = fromDev[1] /\ f \in Frames /\ fromDev' \in Seq(Frames) /\ Len(fromDev') = Len(fromDev) - 1
        /\ \A i \in 1 .. Len(fromDev') : fromDev'[i] = fromDev[i + 1]
    BY <1>1, HeadTailProperties
  <2>3. DOMAIN fromDev' = 1 .. Len(fromDev')  BY <2>2, LenProperties
  <2>. QED  BY <2>1, <2>2, <2>3
<1>3. \A i \in DOMAIN fromDev' : i + 1 \in DOMAIN fromDev /\ fromDev'[i] = fromDev[i + 1] /\ i + 1 # 1
  BY <1>2
<1>4. 1 \in DOMAIN fromDev /\ f.seq \in Seqs /\ f.call \in Calls  BY <1>2 DEF Frames, WireInv, AnsweredOnce
<1>5. c # NoCall => c \in Calls /\ f.call = c
  <2>. SUFFICES ASSUME c # NoCall PROVE c \in Calls /\ f.call = c
    OBVIOUS
  <2>1. c \in Calls /\ seqOf[c] = f.seq /\ Named(c)
    BY <1>4 DEF IInv, TypeOK, TableNamesSender, Named
  <2>2. seqOf[f.call] = f.seq /\ Named(f.call)
    BY <1>2, <1>4, CallsAssumption DEF IInv, FramesNumbered, Named
  <2>3. f.call = c  BY <1>4, <2>1, <2>2 DEF IInv, NamesDistinct, WireInv, Numbered
  <2>. QED  BY <2>1, <2>3
<1>6. fut \in [Calls -> {"none", "pending", "result", "exception", "cancelled"}]
      /\ got \in [Calls -> Calls \cup {NoCall}]
  BY DEF IInv, TypeOK
<1>7. \A d \in Calls : futures[d] = IF d = c /\ fut[d] = "pending" THEN told ELSE fut[d]
  BY <1>5, <1>6, CallsAssumption DEF Complete
<1>8. \A d \in Calls : fut'[d] = futures[d] \/ (futures[d] = "pending" /\ fut'[d] = "exception")
  BY <1>1 DEF FailAll
<1>9. \A d \in Calls : got'[d] = IF d = c /\ fut[d] = "pending" THEN d ELSE got[d]
  BY <1>1, <1>5, <1>6, CallsAssumption
<1>. HIDE DEF futures, p
<1>10. ASSUME NEW d \in Calls
       PROVE  \/ UNCHANGED <<fut[d], got[d]>>
              \/ fut[d] = "pending" /\ got'[d] = got[d] /\ fut'[d] = "exception"
              \/ /\ fut[d] = "pending" /\ got'[d] = d /\ f.call = d
                 /\ fut'[d] = told
  <2>1. CASE d = c /\ fut[d] = "pending"
    <3>1. fut'[d] = told  BY <1>7, <1>8, <2>1
    <3>. QED  BY <1>5, <1>9, <2>1, <3>1, CallsAssumption
  <2>2. CASE ~(d = c /\ fut[d] = "pending")
    <3>1. futures[d] = fut[d] /\ got'[d] = got[d]  BY <1>7, <1>9, <2>2
    <3>. QED  BY <1>8, <3>1
  <2>. QED  BY <2>1, <2>2
<1>11. Sent' = Sent  BY <1>1 DEF Sent
<1>12. Numbered'  BY <1>1, <1>11 DEF WireInv, Numbered
<1>13. FuturesKnown'
  <2>1. told \in {"exception", "result"}  OBVIOUS
  <2>. HIDE DEF told, f
  <2>. QED  BY <1>10, <1>11, <2>1, CallsAssumption DEF WireInv, FuturesKnown
<1>14. \A d \in Calls : OnWire(d)' => OnWire(d)  BY <1>1, <1>3 DEF OnWire
<1>15. \A d \in Calls : d = f.call => ~OnWire(d)'
  <2>1. f.call \notin inDev  BY <1>2, <1>4 DEF WireInv, AnsweredOnce
  <2>2. \A i \in DOMAIN fromDev' : fromDev'[i].call # f.call
    BY <1>2, <1>3, <1>4 DEF WireInv, AnsweredOnce
  <2>. QED  BY <1>1, <2>1, <2>2 DEF OnWire
<1>16. AnsweredOnce'
  <2>1. \A d \in Calls : got'[d] # NoCall => got[d] # NoCall \/ d = f.call  BY <1>10
  <2>2. \A d \in Calls : got'[d] # NoCall => ~OnWire(d)'
    BY <1>14, <1>15, <2>1 DEF WireInv, AnsweredOnce
  <2>3. \A i \in DOMAIN fromDev' : /\ fromDev'[i].kind \in {"REPLY", "ERROR"}
                                   /\ fromDev'[i].call \in Calls \ inDev'
    BY <1>1, <1>3 DEF WireInv, AnsweredOnce
  <2>4. \A i, j \in DOMAIN fromDev' : fromDev'[i].call = fromDev'[j].call => i = j
    BY <1>2, <1>3 DEF WireInv, AnsweredOnce
  <2>. QED  BY <2>2, <2>3, <2>4 DEF AnsweredOnce
<1>. QED  BY <1>1, <1>2, <1>3, <1>4, <1>10, <1>11, <1>12, <1>13, <1>16 DEF WireInv

LEMMA ReadFrameKeepsExecuted ==
  ASSUME IInv, WireInv, ExecutedInv, ReadFrame, UNCHANGED executed
  PROVE  ExecutedInv'
<1>1. \A i \in DOMAIN fromDev' : fromDev'[i].kind = "REPLY" <=> fromDev'[i].call \in executed'
  BY ReadFrameKeepsWire DEF ExecutedInv, AnswersTell
<1>2. ASSUME NEW c \in Calls, got'[c] # NoCall
      PROVE  fut'[c] = "result" <=> c \in executed'
  <2>1. CASE UNCHANGED <<fut[c], got[c]>>  BY <1>2, <2>1 DEF ExecutedInv, AnswersTell
  <2>2. CASE fut[c] = "pending" /\ got'[c] = got[c]
    BY <1>2, <2>2 DEF WireInv, FuturesKnown
  <2>3. CASE /\ Head(fromDev).call = c
             /\ fut'[c] = IF Head(fromDev).kind = "ERROR" THEN "exception" ELSE "result"
    <3>1. Head(fromDev).kind \in {"REPLY", "ERROR"}
      BY ReadFrameKeepsWire DEF WireInv, AnsweredOnce
    <3>2. Head(fromDev).kind = "REPLY" <=> c \in executed
      BY <2>3, ReadFrameKeepsWire DEF ExecutedInv, AnswersTell
    <3>. QED  BY <2>3, <3>1, <3>2
  <2>. QED  BY <2>1, <2>2, <2>3, ReadFrameKeepsWire
<1>3. AnswersTell'  BY <1>1, <1>2, ReadFrameKeepsWire DEF ExecutedInv, AnswersTell
<1>4. ExecutedInOrder'  BY ReadFrameKeepsWire DEF ExecutedInv, ExecutedInOrder
<1>. QED  BY <1>3, <1>4, ReadFrameKeepsWire DEF ExecutedInv

-----------------------------------------------------------------------------
(* What the task sees of the command plane *)

\* What was answered or given up stays so.
Steady ==
  \A c \in Calls :
    /\ fut[c] \notin {"none", "pending"} => fut'[c] = fut[c]
    /\ got[c] # NoCall => got'[c] = got[c]

\* A call of the task stays where it is, or the code goes on with it.
GoesOn(c) ==
  \/ call'[c] = call[c]
  \/ /\ call[c] \in {"drain", "wait"}
     /\ call'[c] \in {"wait", "returned", "raised", "cancelled"}
     /\ call'[c] = "returned" => fut'[c] = "result"
     /\ call'[c] = "raised" => fut'[c] = "exception"

LEMMA QuietKeeps ==
  ASSUME DeviceInv, [Next]_vars, Quiet, UNCHANGED executed
  PROVE  DeviceInv' /\ Steady
<1>1. IInv'  BY NextKeepsIInv DEF DeviceInv
<1>2. WireInv' /\ ExecutedInv'
  BY QuietKeepsWire, QuietKeepsExecuted DEF DeviceInv, IInv
<1>3. Steady  BY DEF Quiet, Steady
<1>. QED  BY <1>1, <1>2, <1>3 DEF DeviceInv

LEMMA WaitsKeep ==
  ASSUME DeviceInv, NEW c \in Calls, Waits(c), UNCHANGED executed
  PROVE  DeviceInv' /\ Steady /\ \A d \in UserCalls : GoesOn(d)
<1>1. Next  BY DEF Waits, Next, CallStep
<1>2. Quiet  BY CallsQuiet DEF Waits, DeviceInv, IInv
<1>3. ASSUME NEW d \in UserCalls PROVE GoesOn(d)
  <2>. USE UserCallsAre DEF DeviceInv, IInv, TypeOK, WireInv, FuturesKnown, Sent, GoesOn
  <2>1. CASE Drained(c)  BY <2>1 DEF Drained
  <2>2. CASE Resume(c)  BY <2>2 DEF Resume
  <2>3. CASE CancelCall(c)  BY <2>3 DEF CancelCall, Outstanding
  <2>. QED  BY <2>1, <2>2, <2>3 DEF Waits
<1>. QED  BY <1>1, <1>2, <1>3, QuietKeeps

LEMMA ClosesKeep ==
  ASSUME DeviceInv, NEW k \in Closers, CloseStep(k), UNCHANGED executed
  PROVE  DeviceInv' /\ Steady /\ \A d \in UserCalls : GoesOn(d)
<1>0. k \in Calls /\ k \notin UserCalls  BY CallsAssumption, UserCallsAre
<1>1. Next  BY DEF Next
<1>2. ASSUME NEW d \in UserCalls PROVE GoesOn(d)
  BY <1>0, UserCallsAre
  DEF CloseStep, CloseEarlyReturn, CloseStart, Transmit, CloseCancelsReader, CloseWriter, CloseFinally,
      CloseAborted, GoesOn, DeviceInv, IInv, TypeOK
<1>3. CASE CloseStart(k)
  <2>1. Transmit(k, TRUE)  BY <1>3 DEF CloseStart
  <2>2. WireInv' /\ ExecutedInv'
    BY <1>0, <2>1, TransmitKeepsWire, TransmitKeepsExecuted DEF DeviceInv
  <2>3. UNCHANGED got /\ fut' = [fut EXCEPT ![k] = "pending"] /\ fut[k] = "none"
    BY <1>0, <2>1, TransmitKeepsWire DEF Transmit, DeviceInv, IInv, UnsentIsSilent
  <2>4. Steady  BY <2>3 DEF Steady, DeviceInv, IInv, TypeOK
  <2>. QED  BY <1>1, <1>2, <2>2, <2>4, NextKeepsIInv DEF DeviceInv
<1>4. CASE ~CloseStart(k)
  <2>1. Quiet  BY <1>4, ClosesQuiet DEF DeviceInv, IInv
  <2>. QED  BY <1>1, <1>2, <2>1, QuietKeeps
<1>. QED  BY <1>3, <1>4

LEMMA ReadsKeep ==
  ASSUME DeviceInv, ReadStep \/ LinkDown, UNCHANGED executed
  PROVE  DeviceInv' /\ Steady /\ UNCHANGED call
<1>1. Next  BY DEF Next, LineStep
<1>2. ~HandlerRaises
  <2>1. SUFFICES ASSUME HandlerRaises PROVE FALSE
    OBVIOUS
  <2>2. fromDev \in Seq(Frames) /\ fromDev # <<>> /\ Head(fromDev).kind = "MESSAGE"
    BY <2>1 DEF HandlerRaises, DeviceInv, IInv, TypeOK
  <2>3. 1 \in DOMAIN fromDev /\ Head(fromDev) = fromDev[1]
    BY <2>2, EmptySeq, LenProperties, HeadTailProperties
  <2>. QED  BY <2>2, <2>3 DEF DeviceInv, WireInv, AnsweredOnce
<1>3. CASE ReadFrame
  <2>1. WireInv' /\ ExecutedInv'
    BY <1>3, ReadFrameKeepsWire, ReadFrameKeepsExecuted DEF DeviceInv
  <2>2. Steady
    BY <1>3, ReadFrameKeepsWire DEF Steady, DeviceInv, WireInv, FuturesKnown
  <2>3. UNCHANGED call  BY <1>3 DEF ReadFrame
  <2>. QED  BY <1>1, <2>1, <2>2, <2>3, NextKeepsIInv DEF DeviceInv
<1>4. CASE ReadEof \/ ReaderCancelled \/ LinkDown
  <2>1. Quiet  BY <1>4, EndsQuiet DEF DeviceInv, IInv
  <2>2. UNCHANGED call  BY <1>4 DEF ReadEof, ReaderCancelled, LinkDown, callVars
  <2>. QED  BY <1>1, <2>1, <2>2, QuietKeeps
<1>. QED  BY <1>2, <1>3, <1>4 DEF ReadStep

LEMMA AnswersKeep ==
  ASSUME DeviceInv, NEW c \in Calls, AdapterAnswers(c)
  PROVE  DeviceInv' /\ Steady /\ UNCHANGED <<call, fut, got>>
<1>0. DevAnswers(c)  BY DEF AdapterAnswers
<1>1. Next  BY <1>0 DEF Next, LineStep
<1>2. WireInv' /\ ExecutedInv'  BY <1>0, AnswerKeepsWire, AnswerKeepsExecuted DEF DeviceInv
<1>3. UNCHANGED <<call, fut, got>>  BY <1>0 DEF DevAnswers, callVars, history
<1>4. Steady  BY <1>3 DEF Steady
<1>. QED  BY <1>1, <1>2, <1>3, <1>4, NextKeepsIInv DEF DeviceInv

-----------------------------------------------------------------------------
(* The task's progress *)

LEMMA ProgressKept ==
  ASSUME Progress, Steady, \A c \in UserCalls : GoesOn(c), UNCHANGED <<user, made>>
  PROVE  Progress'
<1>1. \A c \in UserCalls : c \in Calls  BY UserCallsAre
<1>2. UserCalls' = UserCalls /\ NumRequests' = NumRequests  BY DEF UserCalls, NumRequests
<1>. QED  BY <1>1, <1>2 DEF Progress, Steady, GoesOn, Finished

LEMMA ProgressEnds ==
  ASSUME Progress, UNCHANGED <<vars, made>>, user' \in {"undrained", "idle", "gone"},
         user' # "gone" => made > 0, made > 0 => call[made] \in Finished
  PROVE  Progress'
<1>1. UserCalls' = UserCalls /\ NumRequests' = NumRequests  BY DEF UserCalls, NumRequests
<1>. QED  BY <1>1, UserCallsAre DEF Progress, vars, callVars

\* drain() raises in the call under way.
LEMMA UndrainedKeeps ==
  ASSUME DeviceInv, Progress, NEW c \in Calls, Undrained(c)
  PROVE  /\ DeviceInv' /\ Steady /\ Progress' /\ user' \in {user, "undrained"}
         /\ user' # user => user = "busy"
<1>1. DrainFails(c) /\ call[c] = "drain" /\ call' = [call EXCEPT ![c] = "raised"]
      /\ UNCHANGED <<fut, made, executed>>
  BY DEF Undrained, DrainFails, adapterVars
<1>2. Next  BY <1>1 DEF Next, CallStep
<1>3. Quiet  BY <1>1, CallsQuiet DEF DeviceInv, IInv
<1>4. DeviceInv' /\ Steady  BY <1>1, <1>2, <1>3, QuietKeeps
<1>5. CASE c \in Closers
  <2>1. UNCHANGED <<user, made>>  BY <1>1, <1>5 DEF Undrained
  <2>2. \A d \in UserCalls : GoesOn(d)
    BY <1>1, <1>5, UserCallsAre DEF GoesOn, DeviceInv, IInv, TypeOK
  <2>. QED  BY <1>4, <2>1, <2>2, ProgressKept
<1>6. CASE c \notin Closers
  <2>1. user' = "undrained" /\ c \in UserCalls  BY <1>6, UserCallsAre DEF Undrained
  <2>2. c = made /\ user = "busy"  BY <1>1, <2>1, UserCallsAre DEF Progress, Finished
  <2>3. \A d \in UserCalls : call'[d] = IF d = c THEN "raised" ELSE call[d]
    BY <1>1, UserCallsAre DEF DeviceInv, IInv, TypeOK
  <2>4. UserCalls' = UserCalls /\ NumRequests' = NumRequests  BY DEF UserCalls, NumRequests
  <2>5. Progress'  BY <1>1, <2>1, <2>2, <2>3, <2>4 DEF Progress, Finished
  <2>. QED  BY <1>4, <2>1, <2>2, <2>5
<1>. QED  BY <1>5, <1>6

\* The next request is made when the last one is over.
LEMMA IssueKeeps ==
  ASSUME DeviceInv, Progress, NEW cmd, Issue(cmd), user' = "busy", made < NumRequests,
         made > 0 => call[made] \in Finished
  PROVE  DeviceInv' /\ Progress' /\ made + 1 \in UserCalls /\ made' = made + 1 /\ UNCHANGED got /\ Next
<1>. DEFINE c == made + 1
<1>1. c \in UserCalls /\ c \in Calls /\ c \notin Closers /\ made \in Nat /\ NumRequests \in Nat
  BY UserCallsAre DEF Progress, UserCalls
<1>2. made' = c /\ UNCHANGED executed  BY DEF Issue, adapterVars
<1>3. \A d \in UserCalls : IF d < c THEN call[d] \in Finished ELSE call[d] = "idle"
  BY <1>1, UserCallsAre DEF Progress
<1>. HIDE DEF c
<1>4. Send(c, TRUE) \/ Refuse(c)  BY DEF Issue, c
<1>5. Next  BY <1>1, <1>4 DEF Next, CallStep
<1>6. /\ call' = [call EXCEPT ![c] = IF closed THEN "refused" ELSE "drain"] /\ UNCHANGED got
      /\ call \in [Calls -> {"idle", "drain", "wait"} \cup Finished]
  BY <1>4 DEF Send, Transmit, Refuse, history, DeviceInv, IInv, TypeOK
<1>7. DeviceInv'
  <2>1. CASE Send(c, TRUE)
    <3>1. Transmit(c, TRUE)  BY <2>1 DEF Send
    <3>2. \A d \in UserCalls : d \in Sent => d < c  BY <1>3 DEF Sent
    <3>3. WireInv' /\ ExecutedInv'
      BY <1>1, <1>2, <3>1, <3>2, TransmitKeepsWire, TransmitKeepsExecuted DEF DeviceInv
    <3>. QED  BY <1>5, <3>3, NextKeepsIInv DEF DeviceInv
  <2>2. CASE Refuse(c)
    <3>1. Quiet  BY <1>1, <2>2, CallsQuiet DEF DeviceInv, IInv
    <3>. QED  BY <1>2, <1>5, <3>1, QuietKeeps
  <2>. QED  BY <1>4, <2>1, <2>2
<1>8. UserCalls' = UserCalls /\ NumRequests' = NumRequests  BY DEF UserCalls, NumRequests
<1>9. \A d \in UserCalls : call'[d] = IF d = c THEN IF closed THEN "refused" ELSE "drain" ELSE call[d]
  BY <1>6, UserCallsAre
<1>10. Progress'
  <2>1. made' \in 0 .. NumRequests /\ made' > 0  BY <1>1, <1>2 DEF UserCalls
  <2>2. ASSUME NEW d \in UserCalls
        PROVE  /\ d > c => call'[d] = "idle"
               /\ d < c => call'[d] \in Finished
               /\ d = c => call'[d] \in {"refused", "drain"}
    <3>1. d \in Nat /\ c \in Nat  BY <1>1, UserCallsAre
    <3>. QED  BY <1>3, <1>9, <3>1
  <2>. QED  BY <1>2, <1>8, <2>1, <2>2 DEF Progress
<1>. QED  BY <1>1, <1>2, <1>5, <1>6, <1>7, <1>10 DEF c

LEMMA IssueKnown ==
  ASSUME TypeOK, CommandsKnown, NEW cmd, Issue(cmd), made + 1 \in UserCalls,
         cmd.name = "FILTER_SET" => cmd.filter \in 0 .. MaxFilters - 1
  PROVE  CommandsKnown' /\ command'[made + 1] = cmd
<1>1. command' = [c \in Calls |-> IF c = made + 1 THEN cmd
                                  ELSE IF c \in inDev THEN command[c] ELSE Plain("none")]
  BY DEF Issue
<1>2. made + 1 \in Calls /\ made + 1 \notin Closers  BY UserCallsAre
<1>3. \A k \in Closers : k \in Calls  BY CallsAssumption
<1>4. Plain("none").name = "none"  BY DEF Plain
<1>5. command'[made + 1] = cmd  BY <1>1, <1>2
<1>6. \A k \in Closers : command'[k] = Plain("none")  BY <1>1, <1>2, <1>3 DEF CommandsKnown
<1>7. \A c \in Calls : command'[c].name = "FILTER_SET" => command'[c].filter \in 0 .. MaxFilters - 1
  BY <1>1, <1>4 DEF CommandsKnown
<1>. QED  BY <1>5, <1>6, <1>7 DEF CommandsKnown

LEMMA ExecuteTyped ==
  ASSUME AdapterTyped, CommandsKnown, NEW c \in Calls,
         UNCHANGED adapter \/ adapter' = Execute(command[c])
  PROVE  AdapterTyped'
<1>. DEFINE cmd == command[c]
<1>1. \/ adapter' = adapter
      \/ \E x : adapter' = [adapter EXCEPT !.channel = x]
      \/ cmd.name = "FILTER_SET" /\ adapter' = [adapter EXCEPT !.filters = @ \cup {cmd.filter}]
      \/ adapter' = [adapter EXCEPT !.filters = @ \ {cmd.filter}]
      \/ \E x : adapter' = [adapter EXCEPT !.switched = x]
  BY DEF Execute
<1>2. cmd.name = "FILTER_SET" => cmd.filter \in 0 .. MaxFilters - 1  BY DEF CommandsKnown
<1>. HIDE DEF cmd
<1>. QED  BY <1>1, <1>2 DEF AdapterTyped

-----------------------------------------------------------------------------
(* clear_all_filters *)

GotStays == \A c \in Calls : got[c] # NoCall => got'[c] = got[c]

LEMMA BatchIs ==
  ASSUME Progress, NEW i \in 0 .. MaxFilters - 1, i < made
  PROVE  /\ i \in Nat /\ made \in Nat /\ NumRequests \in Nat /\ MaxFilters \in Nat
         /\ made \in UserCalls /\ made \in Calls
         /\ made - i .. made \subseteq UserCalls
         /\ \A c \in made - i .. made : c \in Calls /\ c \in Nat
         /\ made \notin made - i .. made - 1
         /\ made - i .. made = (made - i .. made - 1) \cup {made}
  BY UserCallsAre, CommandsAssumption DEF Progress, UserCalls

\* What the batch was is not lost when the task stays where it is, or fails.
LEMMA ClearingStays ==
  ASSUME Progress, Clearing, GotStays,
         UNCHANGED <<op, made, cleared, command, adapter, executed>>,
         user' \in {user, "undrained", "idle"},
         user' # user => user = "busy",
         user' = "idle" /\ user # "idle" => outcome'.how # "returned",
         user' = user => outcome' = outcome
  PROVE  Clearing'
<1>. SUFFICES ASSUME op.name = "clear_all_filters"
              PROVE  /\ user' \in {"busy", "undrained", "idle"}
                     /\ \E i \in 0 .. MaxFilters - 1 : ClearingAt(i)'
  BY DEF Clearing
<1>1. PICK i \in 0 .. MaxFilters - 1 : ClearingAt(i)  BY DEF Clearing
<1>2. i < made  BY <1>1 DEF ClearingAt
<1>3. made \in Calls /\ \A c \in made - i .. made - 1 : c \in Calls
  BY <1>2, BatchIs
<1>4. ClearingAt(i)'
  <2>1. user' = "busy" => user = "busy"  OBVIOUS
  <2>2. user' = "idle" /\ outcome'.how = "returned" => user = "idle" /\ outcome' = outcome
    OBVIOUS
  <2>3. NumRequests' = NumRequests  BY DEF NumRequests
  <2>. QED  BY <1>1, <1>3, <2>1, <2>2, <2>3 DEF ClearingAt, GotStays, FilterClear
<1>. QED  BY <1>4 DEF Clearing

LEMMA ClearingAnswered ==
  ASSUME DeviceInv, Progress, AdapterTyped, CommandsKnown, Clearing, NEW c \in Calls, AdapterAnswers(c)
  PROVE  Clearing'
<1>. SUFFICES ASSUME op.name = "clear_all_filters"
              PROVE  /\ user' \in {"busy", "undrained", "idle"}
                     /\ \E i \in 0 .. MaxFilters - 1 : ClearingAt(i)'
  BY DEF Clearing, AdapterAnswers, userVars
<1>0. UNCHANGED <<user, op, made, cleared, outcome, command, got>>
  BY AnswersKeep DEF AdapterAnswers, userVars
<1>1. PICK i \in 0 .. MaxFilters - 1 : ClearingAt(i)  BY DEF Clearing
<1>2. i < made  BY <1>1 DEF ClearingAt
<1>. DEFINE batch == made - i .. made
            before == made - i .. made - 1
<1>3. /\ i \in Nat /\ made \in Nat /\ made \in UserCalls /\ made \in Calls
      /\ batch \subseteq UserCalls /\ (\A d \in batch : d \in Calls /\ d \in Nat)
      /\ made \notin before /\ batch = before \cup {made}
  BY <1>2, BatchIs
<1>4. /\ \A d \in before : got[d] # NoCall
      /\ command[made] = FilterClear(i)
      /\ \A d \in executed \cap batch : d - (made - i) \notin adapter.filters
      /\ user = "idle" /\ outcome.how = "returned" => got[made] # NoCall
  BY <1>1 DEF ClearingAt
<1>5. c \in inDev /\ c \in Sent  BY AnswerKeepsWire DEF DeviceInv, AdapterAnswers
<1>6. \A d \in Calls : got[d] # NoCall => d # c
  BY <1>5 DEF DeviceInv, WireInv, AnsweredOnce, OnWire
<1>7. c \notin before  BY <1>3, <1>4, <1>6
<1>8. UNCHANGED <<executed, adapter>> \/ (executed' = executed \cup {c} /\ adapter' = Execute(command[c]))
  BY AnswerKeepsExecuted DEF DeviceInv
<1>9. c \notin batch \/ c = made  BY <1>3, <1>7
<1>. HIDE DEF batch, before
<1>10. executed' \cap before = executed \cap before  BY <1>7, <1>8
<1>11. c # made => executed' \cap batch = executed \cap batch  BY <1>8, <1>9
<1>12. \A d \in executed' \cap batch : d - (made - i) \notin adapter'.filters
  <2>1. CASE UNCHANGED <<executed, adapter>>  BY <1>4, <2>1
  <2>2. CASE executed' = executed \cup {c} /\ adapter' = Execute(command[c]) /\ c = made
    <3>0. command[c].name = "FILTER_CLEAR" /\ command[c].filter = i
      BY <1>4, <2>2 DEF FilterClear
    <3>1. adapter' = [adapter EXCEPT !.filters = @ \ {i}]
      BY <2>2, <3>0 DEF Execute
    <3>2. adapter'.filters = adapter.filters \ {i}  BY <3>1 DEF AdapterTyped
    <3>3. ASSUME NEW d \in executed' \cap batch PROVE d - (made - i) \notin adapter'.filters
      <4>1. CASE d = made
        <5>1. d - (made - i) = i  BY <1>3, <4>1
        <5>. QED  BY <3>2, <5>1
      <4>2. CASE d # made  BY <1>4, <2>2, <3>2, <3>3, <4>2
      <4>. QED  BY <4>1, <4>2
    <3>. QED  BY <3>3
  <2>3. CASE executed' = executed \cup {c} /\ adapter' = Execute(command[c]) /\ c \in Closers
    <3>1. adapter' = adapter  BY <2>3 DEF Execute, CommandsKnown, Plain
    <3>2. c # made  BY <1>3, <2>3, UserCallsAre
    <3>. QED  BY <1>4, <1>11, <3>1, <3>2
  <2>4. CASE executed' = executed \cup {c} /\ c \in UserCalls /\ c # made
    <3>1. c < made  BY <1>3, <1>5, <2>4, UserCallsAre DEF Progress, Sent
    <3>2. c < made - i  BY <1>3, <1>7, <2>4, <3>1, UserCallsAre DEF before
    <3>3. ASSUME NEW d \in executed \cap batch PROVE FALSE
      <4>1. d < c  BY <1>3, <1>5, <2>4, <3>3 DEF DeviceInv, ExecutedInv, ExecutedInOrder
      <4>2. d \in Nat /\ made - i <= d  BY <1>3, <3>3 DEF batch
      <4>. QED  BY <1>3, <2>4, <3>2, <4>1, <4>2, UserCallsAre
    <3>. QED  BY <1>11, <2>4, <3>3
  <2>. QED  BY <1>8, <2>1, <2>2, <2>3, <2>4, UserCallsAre
<1>13. user = "idle" /\ outcome.how = "returned" => executed' \cap batch = executed \cap batch
  BY <1>3, <1>4, <1>6, <1>11
<1>14. made' - i .. made' = batch /\ made' - i .. made' - 1 = before  BY <1>0 DEF batch, before
<1>15. NumRequests' = NumRequests  BY DEF NumRequests
<1>16. ClearingAt(i)'
  <2>1. /\ i < made
        /\ user = "busy" => made + MaxFilters <= NumRequests + i + 1
        /\ cleared = Cardinality(executed \cap before)
        /\ op.stopOnError => before \subseteq executed
        /\ user = "idle" /\ outcome.how = "returned" =>
             /\ outcome.count = Cardinality(executed \cap batch)
             /\ op.stopOnError /\ made \in executed => i = MaxFilters - 1
    BY <1>1 DEF ClearingAt, batch, before
  <2>2. op.stopOnError => before \subseteq executed'  BY <2>1, <1>8
  <2>3. user = "idle" /\ outcome.how = "returned" => (made \in executed' <=> made \in executed)
    BY <1>3, <1>4, <1>6, <1>8
  <2>. QED  BY <1>0, <1>4, <1>10, <1>12, <1>13, <1>14, <1>15, <2>1, <2>2, <2>3 DEF ClearingAt, FilterClear
<1>17. user' \in {"busy", "undrained", "idle"}  BY <1>0 DEF Clearing
<1>. QED  BY <1>16, <1>17

LEMMA CountedOneMore ==
  ASSUME NEW S, NEW m \in Nat, NEW i \in Nat, i < m
  PROVE  Cardinality(S \cap (m - i .. m)) =
           Cardinality(S \cap (m - i .. m - 1)) + IF m \in S THEN 1 ELSE 0
<1>. DEFINE T == S \cap (m - i .. m - 1)
<1>1. IsFiniteSet(m - i .. m - 1)  BY FS_Interval
<1>2. IsFiniteSet(T) /\ Cardinality(T) \in Nat  BY <1>1, FS_Subset, FS_CardinalityType
<1>3. m \notin T /\ S \cap (m - i .. m) = IF m \in S THEN T \cup {m} ELSE T  OBVIOUS
<1>. HIDE DEF T
<1>4. Cardinality(T \cup {m}) = Cardinality(T) + 1  BY <1>2, <1>3, FS_AddElement
<1>. QED  BY <1>2, <1>3, <1>4 DEF T

\* How the request under way ended tells whether it was executed.
LEMMA AnsweredExecuted ==
  ASSUME DeviceInv, Progress, user = "busy"
  PROVE  /\ Answered => got[made] # NoCall /\ made \in executed
         /\ Refused => made \notin executed
<1>1. made \in UserCalls /\ made \in Calls  BY UserCallsAre DEF Progress, UserCalls
<1>2. CASE Answered
  <2>1. fut[made] = "result"  BY <1>1, <1>2 DEF Answered, Progress
  <2>. QED  BY <1>1, <1>2, <2>1
       DEF DeviceInv, WireInv, FuturesKnown, ExecutedInv, AnswersTell, Answered, Refused
<1>3. CASE Refused
  <2>1. fut[made] = "exception" /\ got[made] # NoCall  BY <1>1, <1>3 DEF Refused, Progress
  <2>. QED  BY <1>1, <1>3, <2>1 DEF DeviceInv, ExecutedInv, AnswersTell, Answered, Refused
<1>. QED  BY <1>2, <1>3

\* What does not change when the task makes its next request.
LEMMA IssueFrame ==
  ASSUME CommandsInv, NEW cmd, Issue(cmd), user' = "busy", made < NumRequests,
         made > 0 => call[made] \in Finished,
         cmd.name = "FILTER_SET" => cmd.filter \in 0 .. MaxFilters - 1
  PROVE  /\ DeviceInv' /\ Progress' /\ AdapterTyped' /\ CommandsKnown'
         /\ made' = made + 1 /\ command'[made'] = cmd
         /\ UNCHANGED <<adapter, executed, got>> /\ made + 1 \notin executed /\ Next
<1>1. /\ DeviceInv' /\ Progress' /\ made + 1 \in UserCalls /\ made' = made + 1
      /\ UNCHANGED got /\ Next
  BY IssueKeeps DEF CommandsInv
<1>2. CommandsKnown' /\ command'[made + 1] = cmd
  BY <1>1, IssueKnown DEF CommandsInv, DeviceInv, IInv
<1>3. UNCHANGED <<adapter, executed>>  BY DEF Issue, adapterVars
<1>4. AdapterTyped'  BY <1>3 DEF CommandsInv, AdapterTyped
<1>5. made + 1 \notin executed
  <2>1. made \in Nat /\ made < made + 1  BY DEF CommandsInv, Progress
  <2>2. call[made + 1] = "idle"  BY <1>1, <2>1 DEF CommandsInv, Progress
  <2>. QED  BY <2>2 DEF CommandsInv, DeviceInv, ExecutedInv, Sent
<1>. QED  BY <1>1, <1>2, <1>3, <1>4, <1>5

LEMMA NextFilterKeeps ==
  ASSUME CommandsInv, op.name = "clear_all_filters", user = "busy",
         \/ Answered /\ NextFilter(command[made].filter, cleared + 1)
         \/ ~op.stopOnError /\ Refused /\ NextFilter(command[made].filter, cleared)
  PROVE  CommandsInv' /\ [Next]_vars
<1>1. PICK i \in 0 .. MaxFilters - 1 : ClearingAt(i)  BY DEF CommandsInv, Clearing
<1>2. i < made  BY <1>1 DEF ClearingAt
<1>. DEFINE count == IF Answered THEN cleared + 1 ELSE cleared
            batch == made - i .. made
            before == made - i .. made - 1
<1>3. /\ i \in Nat /\ made \in Nat /\ NumRequests \in Nat /\ MaxFilters \in Nat
      /\ made \in UserCalls /\ made \in Calls
      /\ (\A c \in batch : c \in Calls /\ c \in Nat) /\ batch = before \cup {made}
  BY <1>2, BatchIs DEF CommandsInv
<1>4. command[made].filter = i /\ (Answered => ~Refused)
  BY <1>1 DEF ClearingAt, FilterClear, Answered, Refused
<1>5. NextFilter(i, count) /\ (Answered \/ Refused) /\ (op.stopOnError => Answered)
  BY <1>4
<1>6. /\ cleared = Cardinality(executed \cap before)
      /\ made + MaxFilters <= NumRequests + i + 1
      /\ \A c \in before : got[c] # NoCall
      /\ op.stopOnError => before \subseteq executed
      /\ \A c \in executed \cap batch : c - (made - i) \notin adapter.filters
  BY <1>1 DEF ClearingAt
<1>7. /\ got[made] # NoCall /\ call[made] \in Finished
      /\ Answered <=> made \in executed
  BY <1>5, AnsweredExecuted DEF CommandsInv, Answered, Refused, Finished
<1>8. count = Cardinality(executed \cap batch)
  <2>1. Cardinality(executed \cap before) \in Nat
    <3>1. IsFiniteSet(before)  BY <1>3, FS_Interval
    <3>2. IsFiniteSet(executed \cap before)  BY <3>1, FS_Subset
    <3>. QED  BY <3>2, FS_CardinalityType
  <2>. QED  BY <1>2, <1>3, <1>6, <1>7, <2>1, CountedOneMore
<1>. HIDE DEF count
<1>9. /\ \A c \in batch : got[c] # NoCall
      /\ op.stopOnError => batch \subseteq executed
  BY <1>3, <1>5, <1>6, <1>7
<1>10. CASE i + 1 < MaxFilters
  <2>1. cleared' = count /\ Issue(FilterClear(i + 1)) /\ UNCHANGED <<user, op, outcome>>
    BY <1>5, <1>10 DEF NextFilter
  <2>2. FilterClear(i + 1).name = "FILTER_CLEAR"  BY DEF FilterClear
  <2>3. made < NumRequests  BY <1>3, <1>6, <1>10
  <2>4. /\ DeviceInv' /\ Progress' /\ AdapterTyped' /\ CommandsKnown'
        /\ made' = made + 1 /\ command'[made'] = FilterClear(i + 1)
        /\ UNCHANGED <<adapter, executed, got>> /\ made + 1 \notin executed /\ Next
    BY <1>7, <2>1, <2>2, <2>3, IssueFrame
  <2>5. RoomLeft'  BY <2>1 DEF RoomLeft
  <2>6. made' - (i + 1) .. made' - 1 = batch /\ made' - (i + 1) = made - i
        /\ made' - (i + 1) .. made' = batch \cup {made + 1}
    BY <1>3, <2>4
  <2>7. i + 1 \in 0 .. MaxFilters - 1 /\ i + 1 < made' /\ NumRequests' = NumRequests
        /\ made' + MaxFilters <= NumRequests + (i + 1) + 1
    BY <1>2, <1>3, <1>6, <1>10, <2>4 DEF NumRequests
  <2>. HIDE DEF batch, before
  <2>8. ClearingAt(i + 1)'
    <3>1. \A c \in executed \cap (batch \cup {made + 1}) : c - (made - i) \notin adapter.filters
      BY <1>6, <2>4
    <3>. QED  BY <1>8, <1>9, <2>1, <2>4, <2>6, <2>7, <3>1 DEF ClearingAt, FilterClear
  <2>9. Clearing'  BY <2>1, <2>7, <2>8 DEF Clearing
  <2>. QED  BY <2>4, <2>5, <2>9 DEF CommandsInv
<1>11. CASE ~(i + 1 < MaxFilters)
  <2>1. Ends([how |-> "returned", count |-> count])  BY <1>5, <1>11 DEF NextFilter
  <2>2. /\ user' = "idle" /\ outcome' = [how |-> "returned", count |-> count]
        /\ UNCHANGED <<vars, op, made, cleared, command, adapterVars>>
    BY <2>1 DEF Ends
  <2>3. Progress'  BY <1>3, <1>7, <2>2, ProgressEnds DEF CommandsInv, UserCalls
  <2>4. DeviceInv'  BY <2>2, QuietKeeps, EndsQuiet DEF CommandsInv, DeviceInv, IInv, adapterVars
  <2>5. AdapterTyped' /\ CommandsKnown' /\ RoomLeft'
    BY <2>2 DEF CommandsInv, AdapterTyped, CommandsKnown, RoomLeft, adapterVars
  <2>6. made' - i .. made' = batch /\ made' - i .. made' - 1 = before /\ UNCHANGED got
        /\ NumRequests' = NumRequests /\ i = MaxFilters - 1
    BY <1>3, <1>11, <2>2 DEF vars, history, NumRequests
  <2>. HIDE DEF batch, before
  <2>7. ClearingAt(i)'
    BY <1>1, <1>2, <1>6, <1>7, <1>8, <2>2, <2>6 DEF ClearingAt, batch, before, adapterVars, FilterClear
  <2>8. Clearing'  BY <2>2, <2>7 DEF Clearing
  <2>. QED  BY <2>2, <2>3, <2>4, <2>5, <2>8 DEF CommandsInv
<1>. QED  BY <1>10, <1>11

\* An operation ends, or open() fails, and no request is made.
LEMMA EndKeeps ==
  ASSUME CommandsInv,
         UNCHANGED <<vars, op, made, cleared, command, adapterVars>>,
         user' \in {"idle", "gone"}, user' = "gone" => op.name # "clear_all_filters",
         user' = "idle" => made > 0, made > 0 => call[made] \in Finished,
         op.name = "clear_all_filters" => user \in {"busy", "undrained"} /\ outcome'.how # "returned"
  PROVE  CommandsInv' /\ [Next]_vars
<1>1. DeviceInv'  BY QuietKeeps, EndsQuiet DEF CommandsInv, DeviceInv, IInv, adapterVars
<1>2. Progress'  BY ProgressEnds DEF CommandsInv
<1>3. AdapterTyped' /\ CommandsKnown' /\ RoomLeft'
  BY DEF CommandsInv, AdapterTyped, CommandsKnown, RoomLeft, adapterVars
<1>4. Clearing'
  <2>. SUFFICES ASSUME op.name = "clear_all_filters"
                PROVE  /\ user' \in {"busy", "undrained", "idle"}
                       /\ \E i \in 0 .. MaxFilters - 1 : ClearingAt(i)'
    BY DEF Clearing
  <2>1. PICK i \in 0 .. MaxFilters - 1 : ClearingAt(i)  BY DEF CommandsInv, Clearing
  <2>2. user' = "idle" /\ outcome'.how # "returned"  OBVIOUS
  <2>3. UNCHANGED <<got, NumRequests, adapter, executed>>  BY DEF vars, history, adapterVars, NumRequests
  <2>4. ClearingAt(i)'  BY <2>1, <2>2, <2>3 DEF ClearingAt, FilterClear
  <2>. QED  BY <2>2, <2>4
<1>. QED  BY <1>1, <1>2, <1>3, <1>4 DEF CommandsInv

LEMMA OverIsFinished ==
  ASSUME Progress, Answered \/ Refused \/ Broken
  PROVE  made > 0 /\ call[made] \in Finished /\ user \in {"busy", "undrained"}
<1>1. user \in {"busy", "undrained"} /\ made > 0
  BY DEF Answered, Refused, Broken, Progress
<1>2. made \in UserCalls  BY <1>1 DEF Progress, UserCalls
<1>. QED  BY <1>1, <1>2 DEF Answered, Refused, Broken, Progress, Finished

LEMMA TakesUpKeeps == CommandsInv /\ TakesUp => CommandsInv' /\ [Next]_vars
<1>. SUFFICES ASSUME CommandsInv, TakesUp PROVE CommandsInv' /\ [Next]_vars
  OBVIOUS
<1>0. Progress  BY DEF CommandsInv
<1>1. CASE Opened \/ OneRequestEnds
  <2>1. op.name # "clear_all_filters" /\ (Answered \/ Refused \/ Broken)
    BY <1>1 DEF Opened, OneRequestEnds, Opening, Plain
  <2>2. user' = "idle" /\ UNCHANGED <<vars, op, made, cleared, command, adapterVars>>
    BY <1>1 DEF Opened, OneRequestEnds, Ends
  <2>. QED  BY <1>0, <2>1, <2>2, OverIsFinished, EndKeeps
<1>2. CASE OpenFails
  <2>1. op.name # "clear_all_filters" /\ (Refused \/ Broken)
    BY <1>2 DEF OpenFails, Opening, Plain
  <2>2. user' = "gone" /\ UNCHANGED <<vars, op, made, cleared, command, adapterVars>>
    BY <1>2 DEF OpenFails
  <2>. QED  BY <1>0, <2>1, <2>2, OverIsFinished, EndKeeps
<1>3. CASE ClearGoesOn
  BY <1>3, NextFilterKeeps DEF ClearGoesOn, Answered, Refused
<1>4. CASE ClearStops
  <2>0. op.name = "clear_all_filters"  BY <1>4 DEF ClearStops
  <2>1. CASE Broken /\ Ends(Raised)
    <3>1. user' = "idle" /\ outcome'.how # "returned"
          /\ UNCHANGED <<vars, op, made, cleared, command, adapterVars>>
      BY <2>1 DEF Ends, Raised
    <3>. QED  BY <1>0, <2>1, <3>1, OverIsFinished, EndKeeps
  <2>2. CASE op.stopOnError /\ Refused /\ Ends([how |-> "returned", count |-> cleared])
    <3>1. /\ user' = "idle" /\ outcome' = [how |-> "returned", count |-> cleared]
          /\ UNCHANGED <<vars, op, made, cleared, command, adapterVars>>
      BY <2>2 DEF Ends
    <3>2. made > 0 /\ call[made] \in Finished  BY <1>0, <2>2, OverIsFinished
    <3>3. DeviceInv'  BY <3>1, QuietKeeps, EndsQuiet DEF CommandsInv, DeviceInv, IInv, adapterVars
    <3>4. Progress'  BY <1>0, <3>1, <3>2, ProgressEnds
    <3>5. AdapterTyped' /\ CommandsKnown' /\ RoomLeft'
      BY <3>1 DEF CommandsInv, AdapterTyped, CommandsKnown, RoomLeft, adapterVars
    <3>6. PICK i \in 0 .. MaxFilters - 1 : ClearingAt(i)
      BY <2>0 DEF CommandsInv, Clearing
    <3>7. made \notin executed /\ got[made] # NoCall
      BY <1>0, <2>2, AnsweredExecuted DEF CommandsInv, Refused
    <3>8. i < made /\ cleared = Cardinality(executed \cap (made - i .. made - 1))
      BY <3>6 DEF ClearingAt
    <3>9. i \in Nat /\ made \in Nat /\ made - i .. made = (made - i .. made - 1) \cup {made}
      BY <1>0, <3>8, BatchIs
    <3>10. executed \cap (made - i .. made) = executed \cap (made - i .. made - 1)
      BY <3>7, <3>9
    <3>11. UNCHANGED <<got, NumRequests, adapter, executed>>
      BY <3>1 DEF vars, history, adapterVars, NumRequests
    <3>12. ClearingAt(i)'
      BY <3>1, <3>6, <3>7, <3>8, <3>10, <3>11 DEF ClearingAt, FilterClear
    <3>. QED  BY <3>1, <3>3, <3>4, <3>5, <3>12 DEF CommandsInv, Clearing
  <2>. QED  BY <1>4, <2>1, <2>2 DEF ClearStops
<1>5. CASE TerminatorFails
  <2>1. op.name # "clear_all_filters" /\ (Refused \/ Broken) /\ user' = "idle"
        /\ UNCHANGED <<vars, op, made, cleared, command, adapterVars>>
    BY <1>5 DEF TerminatorFails, Ends
  <2>. QED  BY <1>0, <2>1, OverIsFinished, EndKeeps
<1>6. CASE TerminatorGoesOn
  <2>1. op.name = "ensure_terminator" /\ Answered /\ user = "busy"
    BY <1>6 DEF TerminatorGoesOn, Answered
  <2>2. made > 0 /\ call[made] \in Finished  BY <1>0, <2>1, OverIsFinished
  <2>3. CASE command[made].name = "DEVICE_INFO" /\ HasTerminator(Info(terminated))
    <3>. DEFINE cmd == SetTerminator(op.enabled)
    <3>1. cmd.name = "CHANNEL_CONFIG"  BY DEF SetTerminator
    <3>. HIDE DEF cmd
    <3>2. Issue(cmd) /\ UNCHANGED <<user, op, cleared, outcome>>
      BY <1>6, <2>3 DEF TerminatorGoesOn, cmd
    <3>3. made < NumRequests  BY <2>1, <2>3 DEF CommandsInv, RoomLeft
    <3>4. /\ DeviceInv' /\ Progress' /\ AdapterTyped' /\ CommandsKnown'
          /\ command'[made'] = cmd /\ Next
      BY <2>1, <2>2, <3>1, <3>2, <3>3, IssueFrame
    <3>. QED  BY <2>1, <3>1, <3>2, <3>4 DEF CommandsInv, RoomLeft, Clearing
  <2>4. CASE ~(command[made].name = "DEVICE_INFO" /\ HasTerminator(Info(terminated)))
    <3>1. user' = "idle" /\ UNCHANGED <<vars, op, made, cleared, command, adapterVars>>
      BY <1>6, <2>4 DEF TerminatorGoesOn, Ends
    <3>. QED  BY <2>1, <2>2, <3>1, EndKeeps
  <2>. QED  BY <2>3, <2>4
<1>. QED  BY <1>1, <1>2, <1>3, <1>4, <1>5, <1>6 DEF TakesUp

LEMMA SyncKeeps == CommandsInv /\ (Synced \/ SyncFails) => CommandsInv' /\ [Next]_vars
<1>. SUFFICES ASSUME CommandsInv, Synced \/ SyncFails PROVE CommandsInv' /\ [Next]_vars
  OBVIOUS
<1>1. user = "syncing" /\ made = 0 /\ op.name # "clear_all_filters"
  BY DEF Synced, SyncFails, CommandsInv, Progress, Clearing
<1>2. CASE SyncFails
  <2>1. user' = "gone" /\ UNCHANGED <<vars, op, made, cleared, command, adapterVars>>
    BY <1>2 DEF SyncFails
  <2>. QED  BY <1>1, <2>1, EndKeeps
<1>3. CASE Synced
  <2>. DEFINE cmd == Plain("DEVICE_OPEN")
  <2>1. cmd.name = "DEVICE_OPEN"  BY DEF Plain
  <2>. HIDE DEF cmd
  <2>2. Issue(cmd) /\ user' = "busy" /\ UNCHANGED op  BY <1>3 DEF Synced, cmd
  <2>3. made < NumRequests  BY <1>1, UserCallsAre
  <2>4. /\ DeviceInv' /\ Progress' /\ AdapterTyped' /\ CommandsKnown' /\ command'[made'] = cmd
        /\ Next
    BY <1>1, <2>1, <2>2, <2>3, IssueFrame
  <2>. QED  BY <1>1, <2>1, <2>2, <2>4 DEF CommandsInv, RoomLeft, Clearing
<1>. QED  BY <1>2, <1>3

LEMMA BeginKeeps ==
  ASSUME CommandsInv, NEW o \in Operations, Begin(o)
  PROVE  CommandsInv' /\ [Next]_vars
<1>. DEFINE cmd == FirstCommand(o)
<1>1. /\ o.name \in {"open_can_channel", "set_can_filter", "clear_all_filters", "ensure_terminator"}
      /\ o.name = "set_can_filter" => o.index \in 0 .. MaxFilters - 1
  BY DEF Operations
<1>2. /\ cmd.name = "FILTER_SET" => cmd.filter \in 0 .. MaxFilters - 1
      /\ o.name = "clear_all_filters" => cmd = FilterClear(0)
  BY <1>1 DEF FirstCommand, FilterClear, Plain
<1>3. /\ user = "idle" /\ user' = "busy" /\ op' = o /\ cleared' = 0 /\ Issue(cmd)
      /\ made + MaxRequests(o) <= NumRequests
  BY DEF Begin, NumRequests
<1>. HIDE DEF cmd
<1>4. made \in Nat /\ made > 0 /\ call[made] \in Finished /\ NumRequests \in Nat
  <2>1. made \in UserCalls  BY <1>3, UserCallsAre DEF CommandsInv, Progress, UserCalls
  <2>. QED  BY <1>3, <2>1, UserCallsAre DEF CommandsInv, Progress
<1>5. /\ MaxFilters \in Nat \ {0} /\ MaxRequests(o) >= 1
      /\ o.name = "clear_all_filters" => MaxRequests(o) = MaxFilters
      /\ o.name = "ensure_terminator" => MaxRequests(o) = 2
      /\ MaxRequests(o) \in Nat
  BY <1>1, CommandsAssumption DEF MaxRequests
<1>6. made < NumRequests  BY <1>3, <1>4, <1>5
<1>7. /\ DeviceInv' /\ Progress' /\ AdapterTyped' /\ CommandsKnown'
      /\ made' = made + 1 /\ command'[made'] = cmd
      /\ UNCHANGED <<adapter, executed, got>> /\ made + 1 \notin executed /\ Next
  BY <1>2, <1>3, <1>4, <1>6, IssueFrame
<1>8. NumRequests' = NumRequests  BY DEF NumRequests
<1>9. RoomLeft'  BY <1>3, <1>4, <1>5, <1>7, <1>8 DEF RoomLeft
<1>10. Clearing'
  <2>. SUFFICES ASSUME o.name = "clear_all_filters" PROVE ClearingAt(0)'
    BY <1>3, <1>5 DEF Clearing
  <2>1. /\ made' - 0 = made + 1 /\ made' - 0 .. made' = {made + 1} /\ made' - 0 .. made' - 1 = {}
        /\ 0 < made' /\ made' + MaxFilters <= NumRequests + 0 + 1
    BY <1>3, <1>4, <1>5, <1>7
  <2>2. executed \cap {} = {} /\ Cardinality({}) = 0 /\ executed \cap {made + 1} = {}
    BY <1>7, FS_EmptySet
  <2>. QED  BY <1>2, <1>3, <1>7, <1>8, <2>1, <2>2 DEF ClearingAt, FilterClear
<1>. QED  BY <1>7, <1>9, <1>10 DEF CommandsInv

\* Steps of the command plane beside the task.
LEMMA AloneKeeps ==
  ASSUME CommandsInv, DeviceInv', Steady, \A c \in UserCalls : GoesOn(c),
         UNCHANGED <<userVars, adapterVars>>
  PROVE  CommandsInv'
<1>. USE DEF CommandsInv, userVars, adapterVars
<1>1. Progress'  BY ProgressKept
<1>2. NumRequests' = NumRequests  BY DEF NumRequests
<1>3. RoomLeft' /\ AdapterTyped' /\ CommandsKnown'
  BY <1>2 DEF RoomLeft, AdapterTyped, CommandsKnown
<1>4. GotStays  BY DEF GotStays, Steady
<1>5. Clearing'  BY <1>4, ClearingStays
<1>. QED  BY <1>1, <1>3, <1>5

LEMMA CommandsNextKeeps == CommandsInv /\ [CommandsNext]_allVars => CommandsInv' /\ [Next]_vars
<1>. SUFFICES ASSUME CommandsInv, [CommandsNext]_allVars PROVE CommandsInv' /\ [Next]_vars
  OBVIOUS
<1>0. DeviceInv /\ Progress  BY DEF CommandsInv
<1>1. CASE Synced \/ SyncFails  BY <1>1, SyncKeeps
<1>2. CASE TakesUp  BY <1>2, TakesUpKeeps
<1>3. CASE \E o \in Operations : Begin(o)  BY <1>3, BeginKeeps
<1>4. ASSUME NEW c \in Calls, Alone(Waits(c)) PROVE CommandsInv' /\ Next
  <2>1. Waits(c) /\ UNCHANGED <<userVars, adapterVars>>  BY <1>4 DEF Alone
  <2>2. Next  BY <2>1 DEF Waits, Next, CallStep
  <2>. QED  BY <1>0, <2>1, <2>2, WaitsKeep, AloneKeeps DEF adapterVars
<1>5. ASSUME NEW c \in Calls, Undrained(c) PROVE CommandsInv' /\ Next
  <2>1. /\ DeviceInv' /\ Steady /\ Progress' /\ user' \in {user, "undrained"}
        /\ user' # user => user = "busy"
    BY <1>0, <1>5, UndrainedKeeps
  <2>2. UNCHANGED <<op, made, cleared, outcome, command, adapterVars>>  BY <1>5 DEF Undrained
  <2>3. GotStays /\ NumRequests' = NumRequests  BY <2>1 DEF GotStays, Steady, NumRequests
  <2>4. RoomLeft' /\ AdapterTyped' /\ CommandsKnown'
    BY <2>1, <2>2, <2>3 DEF CommandsInv, RoomLeft, AdapterTyped, CommandsKnown, adapterVars
  <2>5. Clearing'  BY <1>0, <2>1, <2>2, <2>3, ClearingStays DEF CommandsInv, adapterVars
  <2>6. Next  BY <1>5 DEF Undrained, Next, CallStep
  <2>. QED  BY <2>1, <2>4, <2>5, <2>6 DEF CommandsInv
<1>6. ASSUME NEW c \in Calls, AdapterAnswers(c) PROVE CommandsInv' /\ Next
  <2>1. DeviceInv' /\ Steady /\ UNCHANGED <<call, fut, got>>  BY <1>0, <1>6, AnswersKeep
  <2>2. UNCHANGED userVars  BY <1>6 DEF AdapterAnswers
  <2>3. Progress'  BY <1>0, <2>1, <2>2, ProgressKept DEF GoesOn, userVars
  <2>4. UNCHANGED adapter \/ adapter' = Execute(command[c])
    BY <1>0, <1>6, AnswerKeepsExecuted DEF DeviceInv
  <2>5. AdapterTyped'  BY <2>4, ExecuteTyped DEF CommandsInv
  <2>6. RoomLeft' /\ CommandsKnown'
    BY <2>2 DEF CommandsInv, RoomLeft, CommandsKnown, userVars, NumRequests
  <2>7. Clearing'  BY <1>0, <1>6, ClearingAnswered DEF CommandsInv
  <2>8. Next  BY <1>6 DEF AdapterAnswers, Next, LineStep
  <2>. QED  BY <2>1, <2>3, <2>5, <2>6, <2>7, <2>8 DEF CommandsInv
<1>7. ASSUME NEW k \in Closers, Alone(UserCloses(k)) PROVE CommandsInv' /\ Next
  <2>1. CloseStep(k) /\ UNCHANGED <<userVars, adapterVars>>  BY <1>7 DEF Alone, UserCloses
  <2>2. Next  BY <2>1 DEF Next
  <2>. QED  BY <1>0, <2>1, <2>2, ClosesKeep, AloneKeeps DEF adapterVars
<1>8. CASE Alone(ReaderRuns) \/ Alone(LinkDown)
  <2>1. (ReadStep \/ LinkDown) /\ UNCHANGED <<userVars, adapterVars>>
    BY <1>8 DEF Alone, ReaderRuns
  <2>2. DeviceInv' /\ Steady /\ UNCHANGED call  BY <1>0, <2>1, ReadsKeep DEF adapterVars
  <2>3. Next  BY <2>1 DEF Next, LineStep
  <2>. QED  BY <2>1, <2>2, <2>3, AloneKeeps DEF GoesOn
<1>9. CASE UNCHANGED allVars
  <2>1. UNCHANGED <<vars, userVars, adapterVars>>  BY <1>9 DEF allVars
  <2>2. DeviceInv' /\ Steady
    BY <1>0, <2>1, EndsQuiet, QuietKeeps DEF DeviceInv, IInv, adapterVars
  <2>. QED  BY <2>1, <2>2, AloneKeeps DEF GoesOn, vars, callVars
<1>. QED  BY <1>1, <1>2, <1>3, <1>4, <1>5, <1>6, <1>7, <1>8, <1>9 DEF CommandsNext

LEMMA InitCommandsInv == CommandsInit => CommandsInv
<1>. SUFFICES ASSUME CommandsInit PROVE CommandsInv
  OBVIOUS
<1>1. IInv  BY InitIInv DEF CommandsInit
<1>2. Init  BY DEF CommandsInit
<1>3. Sent = {} /\ Cardinality({}) = 0  BY <1>2, FS_EmptySet DEF Init, Sent
<1>4. DOMAIN fromDev = {} /\ \A c \in Calls : ~OnWire(c)
  BY <1>2 DEF Init, OnWire
<1>5. WireInv
  BY <1>2, <1>3, <1>4, UserCallsAre DEF Init, WireInv, Numbered, AnsweredOnce, FuturesKnown
<1>6. ExecutedInv
  BY <1>2, <1>4 DEF CommandsInit, Init, ExecutedInv, AnswersTell, ExecutedInOrder
<1>7. Progress
  BY <1>2, UserCallsAre DEF CommandsInit, Init, Progress, UserCalls
<1>8. Opening.name = "open" /\ Plain("none").name = "none"  BY DEF Opening, Plain
<1>9. RoomLeft /\ Clearing  BY <1>8 DEF CommandsInit, RoomLeft, Clearing
<1>10. AdapterTyped  BY DEF CommandsInit, AdapterTyped
<1>11. CommandsKnown  BY <1>8, CallsAssumption DEF CommandsInit, CommandsKnown
<1>. QED  BY <1>1, <1>5, <1>6, <1>7, <1>9, <1>10, <1>11 DEF CommandsInv, DeviceInv

\* Whatever the operations do, each request and each close() is one the command
\* plane allows its callers: open(), the loop over the filters and
\* ensure_terminator make every request in a fresh call, and the adapter answers
\* as it may.  So all that holds of CarBusDevice holds here.
THEOREM CommandsAreCalls == CommandsSpec => Spec
<1>1. CommandsInit => Init /\ CommandsInv  BY InitCommandsInv DEF CommandsInit
<1>2. CommandsInv /\ [CommandsNext]_allVars => CommandsInv' /\ [Next]_vars  BY CommandsNextKeeps
<1>. QED  BY <1>1, <1>2, PTL DEF CommandsSpec, Spec

LEMMA CommandsInvHolds == CommandsSpec => []CommandsInv
<1>1. CommandsInv /\ [CommandsNext]_allVars => CommandsInv'  BY CommandsNextKeeps
<1>. QED  BY <1>1, InitCommandsInv, PTL DEF CommandsSpec

\* The number that clear_all_filters returns is the number of filters the
\* adapter cleared for it; when it stops at the first refusal, no filter below
\* that number is left.
THEOREM ClearCounts == CommandsSpec => []ClearCount
<1>1. ASSUME CommandsInv PROVE ClearCount
  <2>. SUFFICES ASSUME Done("clear_all_filters")
                PROVE  /\ outcome.count = Cardinality(executed \cap (made - command[made].filter .. made))
                       /\ op.stopOnError => \A f \in adapter.filters : f >= outcome.count
    BY DEF ClearCount
  <2>0. op.name = "clear_all_filters" /\ user = "idle" /\ outcome.how = "returned"  BY DEF Done
  <2>1. PICK i \in 0 .. MaxFilters - 1 : ClearingAt(i)  BY <1>1, <2>0 DEF CommandsInv, Clearing
  <2>2. i < made /\ command[made].filter = i  BY <2>1 DEF ClearingAt, FilterClear
  <2>. DEFINE batch == made - i .. made
              before == made - i .. made - 1
  <2>3. /\ i \in Nat /\ made \in Nat /\ MaxFilters \in Nat
        /\ made \notin before /\ batch = before \cup {made}
    BY <1>1, <2>2, BatchIs DEF CommandsInv
  <2>4. /\ outcome.count = Cardinality(executed \cap batch)
        /\ cleared = Cardinality(executed \cap before)
        /\ op.stopOnError => before \subseteq executed
        /\ op.stopOnError /\ made \in executed => i = MaxFilters - 1
        /\ \A c \in executed \cap batch : c - (made - i) \notin adapter.filters
    BY <2>0, <2>1 DEF ClearingAt
  <2>5. ASSUME op.stopOnError, NEW f \in adapter.filters PROVE f >= outcome.count
    <3>1. f \in 0 .. MaxFilters - 1  BY <1>1 DEF CommandsInv, AdapterTyped
    <3>2. executed \cap before = before  BY <2>4, <2>5
    <3>3. Cardinality(before) = i
      <4>1. made - i \in Int /\ made - 1 \in Int  BY <2>3
      <4>. QED  BY <2>2, <2>3, <4>1, FS_Interval
    <3>4. outcome.count = IF made \in executed THEN i + 1 ELSE i
      <4>1. Cardinality(executed \cap batch) =
              Cardinality(executed \cap before) + IF made \in executed THEN 1 ELSE 0
        BY <2>2, <2>3, CountedOneMore
      <4>. HIDE DEF batch, before
      <4>. QED  BY <2>3, <2>4, <3>2, <3>3, <4>1
    <3>. DEFINE c == made - i + f
    <3>5. CASE f < outcome.count
      <4>1. f <= i /\ (f = i => made \in executed)  BY <2>3, <3>1, <3>4, <3>5
      <4>2. c \in batch /\ c - (made - i) = f /\ (f < i => c \in before) /\ (f = i => c = made)
        BY <2>3, <3>1, <4>1
      <4>3. c \in executed  BY <2>3, <2>4, <2>5, <3>1, <4>1, <4>2
      <4>. QED  BY <2>4, <4>2, <4>3
    <3>6. CASE ~(f < outcome.count)  BY <2>3, <3>1, <3>4, <3>6
    <3>. QED  BY <3>5, <3>6
  <2>. QED  BY <2>2, <2>4, <2>5
<1>2. CommandsSpec => []CommandsInv  BY CommandsInvHolds
<1>3. CommandsInv => ClearCount  BY <1>1
<1>. QED  BY <1>2, <1>3, PTL

-----------------------------------------------------------------------------
(* Lists of words.  Params is defined by a recursive function; that there is *)
(* one is shown by the positions that reading from position i gets to.       *)

\* At most so many data words as Params leaves room for.
Skips(words) == \A i \in DOMAIN words : words[i].data \in 0 .. 255

\* What Params(words) computes, from each position.
Walk(words, from) ==
  \A i \in 1 .. Len(words) + 256 :
    from[i] = IF i > Len(words) THEN {} ELSE {words[i]} \cup from[i + 1 + words[i].data]

LEMMA ParamsWalk ==
  ASSUME NEW W, NEW words \in Seq(W), Skips(words)
  PROVE  \E from : Walk(words, from) /\ Params(words) = from[1]
<1>. DEFINE L == Len(words)
            S == 1 .. L + 256
            next(i) == i + 1 + words[i].data
            Closed(X) == \A k \in X : k <= L => next(k) \in X
            reach(i) == {j \in 1 .. L : \A X \in SUBSET S : i \in X /\ Closed(X) => j \in X}
            F == [i \in S |-> {words[j] : j \in reach(i)}]
            Body(f) == [i \in S |-> IF i > L THEN {} ELSE {words[i]} \cup f[i + 1 + words[i].data]]
<1>1. L \in Nat /\ DOMAIN words = 1 .. L  BY LenProperties
<1>. HIDE DEF L
<1>2a. ASSUME NEW i \in 1 .. L PROVE next(i) \in S /\ next(i) > i
  <2>1. PICK k \in 0 .. 255 : words[i].data = k  BY <1>1 DEF Skips
  <2>2. next(i) = i + 1 + k  BY <2>1
  <2>. HIDE DEF next
  <2>. QED  BY <1>1, <2>2
<1>2. ASSUME NEW i \in S, i > L PROVE reach(i) = {}
  <2>1. {i} \in SUBSET S /\ i \in {i} /\ Closed({i})  BY <1>1, <1>2a, <1>2
  <2>2. \A j \in 1 .. L : j \notin {i}  BY <1>1, <1>2a, <1>2
  <2>. QED  BY <2>1, <2>2
<1>3. ASSUME NEW i \in 1 .. L PROVE reach(i) = {i} \cup reach(next(i))
  <2>0. i \in S /\ next(i) \in S  BY <1>1, <1>2a
  <2>. HIDE DEF next, S
  <2>1. i \in reach(i)  OBVIOUS
  <2>2. ASSUME NEW j \in reach(next(i)) PROVE j \in reach(i)
    <3>1. j \in 1 .. L  OBVIOUS
    <3>2. ASSUME NEW X \in SUBSET S, i \in X, Closed(X) PROVE j \in X
      <4>1. next(i) \in X  BY <1>1, <1>2a, <3>2
      <4>. QED  BY <4>1, <3>2
    <3>. QED  BY <3>1, <3>2
  <2>3. ASSUME NEW j \in reach(i), j # i PROVE j \in reach(next(i))
    <3>1. j \in 1 .. L  OBVIOUS
    <3>2. ASSUME NEW X \in SUBSET S, next(i) \in X, Closed(X) PROVE j \in X
      <4>1. X \cup {i} \in SUBSET S /\ Closed(X \cup {i})  BY <2>0, <3>2
      <4>2. j \in X \cup {i}  BY <4>1
      <4>. QED  BY <2>3, <4>2
    <3>. QED  BY <3>1, <3>2
  <2>. QED  BY <2>1, <2>2, <2>3
<1>4. F = Body(F)
  <2>1. ASSUME NEW i \in S PROVE F[i] = Body(F)[i]
    <3>1. CASE i > L  BY <1>2, <3>1
    <3>2. CASE ~(i > L)
      <4>1. i \in 1 .. L  BY <1>1, <1>2a, <3>2
      <4>2. next(i) \in S /\ F[next(i)] = {words[j] : j \in reach(next(i))}  BY <1>1, <1>2a, <4>1
      <4>3. F[i] = {words[j] : j \in reach(i)}  OBVIOUS
      <4>4. reach(i) = {i} \cup reach(next(i))  BY <1>3, <4>1
      <4>. HIDE DEF reach, F, next
      <4>5. F[i] = {words[i]} \cup F[next(i)]  BY <4>2, <4>3, <4>4
      <4>. QED  BY <3>2, <4>5 DEF next
    <3>. QED  BY <3>1, <3>2
  <2>. QED  BY <2>1
<1>5. PICK from : from = Body(from) /\ Params(words) = from[1]
  <2>. HIDE DEF F
  <2>. DEFINE g == CHOOSE f : f = Body(f)
  <2>1. g = Body(g)  BY <1>4
  <2>2. Params(words) = g[1]  BY DEF Params, L
  <2>. HIDE DEF g
  <2>. QED  BY <2>1, <2>2
<1>6. Walk(words, from)  BY <1>5 DEF Walk, L
<1>. QED  BY <1>5, <1>6

Codes ==
  {"CAN_MODE", "CAN_FRAME", "BUS_SPEED_N", "BUS_SPEED_D", "timing", "RETRANSMIT", "NON_ISO",
   "CHANNEL_FEATURES", "DEVICE_SERIAL"}
Values ==
  {"normal", "listen", "loopback", "classic", "brs", "fd", "index", 1, 2, "plain", "terminator"}

Words ==
  {Word(code, value) : code \in Codes, value \in Values}
    \cup {MultiWord(code, length) : code \in Codes, length \in {1, 2}}

LEMMA WordIs ==
  ASSUME NEW code \in Codes, NEW value \in Values
  PROVE  /\ Word(code, value) \in Words /\ Word(code, value).data = 0
         /\ Word(code, value).code = code /\ Word(code, value).value = value
<1>1. Word(code, value) \in Words  BY DEF Words
<1>2. Word(code, value) = [code |-> code, value |-> value, data |-> 0]  BY DEF Word
<1>. QED  BY <1>1, <1>2

LEMMA MultiWordIs ==
  ASSUME NEW code \in Codes, NEW length \in {1, 2}
  PROVE  /\ MultiWord(code, length) \in Words /\ MultiWord(code, length).data = length
         /\ MultiWord(code, length).code = code /\ MultiWord(code, length).value = "custom"
<1>1. MultiWord(code, length) \in Words  BY DEF Words
<1>2. MultiWord(code, length) = [code |-> code, value |-> "custom", data |-> length]  BY DEF MultiWord
<1>. QED  BY <1>1, <1>2

LEMMA WordsSkip == \A words \in Seq(Words) : Skips(words)
<1>1. \A w \in Words : w.data \in 0 .. 255  BY WordIs, MultiWordIs DEF Words
<1>. QED  BY <1>1, ElementOfSeq DEF Skips

LEMMA JoinIs ==
  ASSUME NEW s \in Seq(Words), NEW t \in Seq(Words)
  PROVE  /\ s \o t \in Seq(Words) /\ Len(s \o t) = Len(s) + Len(t)
         /\ \A i \in 1 .. Len(s) : (s \o t)[i] = s[i]
         /\ \A i \in 1 .. Len(t) : (s \o t)[Len(s) + i] = t[i]
<1>1. /\ s \o t \in Seq(Words) /\ Len(s \o t) = Len(s) + Len(t)
      /\ \A i \in 1 .. Len(s) + Len(t) : (s \o t)[i] = IF i <= Len(s) THEN s[i] ELSE t[i - Len(s)]
  BY ConcatProperties
<1>2. Len(s) \in Nat /\ Len(t) \in Nat  BY LenProperties
<1>. HIDE DEF Words
<1>3. ASSUME NEW i \in 1 .. Len(t) PROVE (s \o t)[Len(s) + i] = t[i]
  <2>1. Len(s) + i \in 1 .. Len(s) + Len(t) /\ ~(Len(s) + i <= Len(s)) /\ Len(s) + i - Len(s) = i
    BY <1>2
  <2>. QED  BY <1>1, <2>1
<1>4. ASSUME NEW i \in 1 .. Len(s) PROVE (s \o t)[i] = s[i]
  <2>1. i \in 1 .. Len(s) + Len(t) /\ i <= Len(s)  BY <1>2
  <2>. QED  BY <1>1, <2>1
<1>. QED  BY <1>1, <1>3, <1>4

LEMMA SpeedIs ==
  ASSUME NEW code \in Codes, NEW custom \in BOOLEAN
  PROVE  LET s == Speed(code, custom) IN
         /\ s \in Seq(Words)
         /\ Len(s) = IF custom THEN 3 ELSE 1
         /\ s[1] = IF custom THEN MultiWord(code, 2) ELSE Word(code, "index")
<1>1. CASE custom
  <2>. DEFINE m == MultiWord(code, 2)
              v == Word("timing", 1)
              w == Word("timing", 2)
  <2>1. m \in Words /\ v \in Words /\ w \in Words  BY WordIs, MultiWordIs DEF Codes, Values
  <2>2. Speed(code, custom) = <<m, v, w>>  BY <1>1 DEF Speed
  <2>. HIDE DEF m, v, w
  <2>3. <<m, v, w>> \in Seq(Words) /\ Len(<<m, v, w>>) = 3 /\ <<m, v, w>>[1] = m  BY <2>1
  <2>. QED  BY <1>1, <2>2, <2>3 DEF m
<1>2. CASE ~custom
  <2>. DEFINE w == Word(code, "index")
  <2>1. w \in Words  BY WordIs DEF Codes, Values
  <2>2. Speed(code, custom) = <<w>>  BY <1>2 DEF Speed
  <2>. HIDE DEF w
  <2>3. <<w>> \in Seq(Words) /\ Len(<<w>>) = 1 /\ <<w>>[1] = w  BY <2>1
  <2>. QED  BY <1>2, <2>2, <2>3 DEF w
<1>. QED  BY <1>1, <1>2

LEMMA OptionsAre ==
  ASSUME NEW a \in Channels
  PROVE  LET s == Options(a)
             iso == ~(a.nonIso /\ (a.fd \/ a.custom))
             R == Word("RETRANSMIT", 1)
             I == Word("NON_ISO", 1)
         IN  /\ s \in Seq(Words)
             /\ ~a.retransmit /\ iso => Len(s) = 0
             /\ a.retransmit /\ iso => Len(s) = 1 /\ s[1] = R
             /\ ~a.retransmit /\ ~iso => Len(s) = 1 /\ s[1] = I
             /\ a.retransmit /\ ~iso => Len(s) = 2 /\ s[1] = R /\ s[2] = I
<1>. DEFINE R == Word("RETRANSMIT", 1)
            I == Word("NON_ISO", 1)
            iso == ~(a.nonIso /\ (a.fd \/ a.custom))
            r == IF a.retransmit THEN <<R>> ELSE <<>>
            t == IF ~iso THEN <<I>> ELSE <<>>
<1>1. R \in Words /\ I \in Words  BY WordIs DEF Codes, Values
<1>. HIDE DEF R, I, iso
<1>2. r \in Seq(Words) /\ t \in Seq(Words)  BY <1>1
<1>3. Len(r) = (IF a.retransmit THEN 1 ELSE 0) /\ (a.retransmit => r[1] = R)  BY <1>1
<1>4. Len(t) = (IF iso THEN 0 ELSE 1) /\ (~iso => t[1] = I)  BY <1>1
<1>5. Options(a) = r \o t  BY DEF Options, r, t, R, I, iso
<1>. HIDE DEF r, t
<1>6. /\ r \o t \in Seq(Words) /\ Len(r \o t) = Len(r) + Len(t)
      /\ \A i \in 1 .. Len(r) : (r \o t)[i] = r[i]
      /\ \A i \in 1 .. Len(t) : (r \o t)[Len(r) + i] = t[i]
  BY <1>2, JoinIs
<1>7. a.retransmit => (r \o t)[1] = R  BY <1>3, <1>6
<1>8. ~iso => (r \o t)[Len(r) + 1] = I  BY <1>4, <1>6
<1>. QED  BY <1>3, <1>4, <1>5, <1>6, <1>7, <1>8 DEF R, I, iso

\* Where the parameters of open_can_channel are among its words.
LEMMA OpenWordsAre ==
  ASSUME NEW a \in Channels
  PROVE  LET words == OpenWords(a)
             n == IF Custom(a) THEN 3 ELSE 1
             p == 3 + n + (IF a.fd THEN n ELSE 0)
         IN  /\ words \in Seq(Words)
             /\ Len(words) = p - 1 + Len(Options(a)) /\ Len(Options(a)) \in Nat
             /\ words[1] = ModeWords(a)[1] /\ words[2] = ModeWords(a)[2]
             /\ words[3] = Speed("BUS_SPEED_N", Custom(a))[1]
             /\ a.fd => words[3 + n] = Speed("BUS_SPEED_D", Custom(a))[1]
             /\ \A i \in 1 .. Len(Options(a)) : words[p - 1 + i] = Options(a)[i]
<1>. DEFINE m == ModeWords(a)
            n == IF Custom(a) THEN 3 ELSE 1
            d == IF a.fd THEN n ELSE 0
            sN == Speed("BUS_SPEED_N", Custom(a))
            sD == Speed("BUS_SPEED_D", Custom(a))
            data == IF a.fd THEN sD ELSE <<>>
            o == Options(a)
            r == m \o sN
            s == r \o data
            t == s \o o
<1>1. a.fd \in BOOLEAN /\ Custom(a) \in BOOLEAN  BY CommandsAssumption DEF Custom
<1>2. m \in Seq(Words) /\ Len(m) = 2
  <2>. DEFINE v == m[1]
              w == m[2]
  <2>1. v \in Words /\ w \in Words  BY WordIs DEF ModeWords, Codes, Values
  <2>2. m = <<v, w>>  BY DEF ModeWords
  <2>. HIDE DEF v, w, m
  <2>. QED  BY <2>1, <2>2
<1>3. sN \in Seq(Words) /\ Len(sN) = n /\ sD \in Seq(Words) /\ Len(sD) = n
  BY <1>1, SpeedIs DEF Codes
<1>4. o \in Seq(Words) /\ Len(o) \in Nat  BY OptionsAre, LenProperties
<1>5. OpenWords(a) = t  BY DEF OpenWords
<1>6. n \in {1, 3} /\ d \in Nat  OBVIOUS
<1>. HIDE DEF m, n, d, sN, sD, o
<1>7. data \in Seq(Words) /\ Len(data) = d  BY <1>3 DEF d
<1>8. a.fd => Len(data) = n /\ data = sD  BY <1>3
<1>. HIDE DEF data, r, s, t
<1>9. r \in Seq(Words) /\ Len(r) = 2 + n /\ r[1] = m[1] /\ r[2] = m[2] /\ r[3] = sN[1]
  <2>1. /\ r \in Seq(Words) /\ Len(r) = Len(m) + Len(sN)
        /\ \A i \in 1 .. Len(m) : r[i] = m[i]
        /\ \A i \in 1 .. Len(sN) : r[Len(m) + i] = sN[i]
    BY <1>2, <1>3, JoinIs DEF r
  <2>2. 1 \in 1 .. Len(m) /\ 2 \in 1 .. Len(m) /\ 1 \in 1 .. Len(sN) /\ Len(m) + 1 = 3
    BY <1>2, <1>3, <1>6
  <2>3. r[Len(m) + 1] = sN[1]  BY <2>1, <2>2
  <2>. QED  BY <1>2, <1>3, <2>1, <2>2, <2>3
<1>10. /\ s \in Seq(Words) /\ Len(s) = 2 + n + d
       /\ s[1] = m[1] /\ s[2] = m[2] /\ s[3] = sN[1] /\ (a.fd => s[3 + n] = sD[1])
  <2>1. /\ s \in Seq(Words) /\ Len(s) = Len(r) + Len(data)
        /\ \A i \in 1 .. Len(r) : s[i] = r[i]
        /\ \A i \in 1 .. Len(data) : s[Len(r) + i] = data[i]
    BY <1>7, <1>9, JoinIs DEF s
  <2>2. {1, 2, 3} \subseteq 1 .. Len(r)  BY <1>6, <1>9
  <2>3. ASSUME a.fd PROVE s[3 + n] = sD[1]
    <3>1. 1 \in 1 .. Len(data) /\ Len(r) + 1 = 3 + n  BY <1>6, <1>8, <1>9, <2>3
    <3>. QED  BY <1>8, <2>1, <2>3, <3>1
  <2>. QED  BY <1>7, <1>9, <2>1, <2>2, <2>3
<1>11. /\ t \in Seq(Words) /\ Len(t) = 2 + n + d + Len(o)
       /\ t[1] = m[1] /\ t[2] = m[2] /\ t[3] = sN[1] /\ (a.fd => t[3 + n] = sD[1])
       /\ \A i \in 1 .. Len(o) : t[2 + n + d + i] = o[i]
  <2>1. /\ t \in Seq(Words) /\ Len(t) = Len(s) + Len(o)
        /\ \A i \in 1 .. Len(s) : t[i] = s[i]
        /\ \A i \in 1 .. Len(o) : t[Len(s) + i] = o[i]
    BY <1>4, <1>10, JoinIs DEF t
  <2>2. {1, 2, 3} \subseteq 1 .. Len(s)  BY <1>6, <1>10
  <2>3. a.fd => 3 + n \in 1 .. Len(s)  BY <1>6, <1>10 DEF d
  <2>. QED  BY <1>10, <2>1, <2>2, <2>3
<1>. QED
  <2>1. 3 + n + (IF a.fd THEN n ELSE 0) - 1 = 2 + n + d  BY <1>6 DEF d
  <2>. QED  BY <1>4, <1>5, <1>11, <2>1 DEF n, m, sN, sD, o

LEMMA WalkStep ==
  ASSUME NEW words \in Seq(Words), NEW from, Walk(words, from), NEW i \in Nat \ {0}
  PROVE  /\ \A k \in Nat : i <= Len(words) /\ words[i].data = k =>
              from[i] = {words[i]} \cup from[i + 1 + k]
         /\ i > Len(words) /\ i <= Len(words) + 256 => from[i] = {}
<1>1. Len(words) \in Nat  BY LenProperties
<1>2. i <= Len(words) + 256 => i \in 1 .. Len(words) + 256  BY <1>1
<1>3. i <= Len(words) => i <= Len(words) + 256 /\ ~(i > Len(words))  BY <1>1
<1>. QED  BY <1>2, <1>3 DEF Walk

\* The adapter reads each parameter, and takes no timing for one.
LEMMA OpenParams ==
  ASSUME NEW a \in Channels
  PROVE  Params(OpenWords(a)) =
           {ModeWords(a)[1], ModeWords(a)[2], Speed("BUS_SPEED_N", Custom(a))[1]}
             \cup (IF a.fd THEN {Speed("BUS_SPEED_D", Custom(a))[1]} ELSE {})
             \cup (IF a.retransmit THEN {Word("RETRANSMIT", 1)} ELSE {})
             \cup (IF a.nonIso /\ (a.fd \/ a.custom) THEN {Word("NON_ISO", 1)} ELSE {})
<1>. DEFINE words == OpenWords(a)
            n == IF Custom(a) THEN 3 ELSE 1
            p == 3 + n + (IF a.fd THEN n ELSE 0)
            o == Options(a)
            m1 == ModeWords(a)[1]
            m2 == ModeWords(a)[2]
            sN == Speed("BUS_SPEED_N", Custom(a))[1]
            sD == Speed("BUS_SPEED_D", Custom(a))[1]
            R == Word("RETRANSMIT", 1)
            I == Word("NON_ISO", 1)
            iso == ~(a.nonIso /\ (a.fd \/ a.custom))
<1>1. a.fd \in BOOLEAN /\ Custom(a) \in BOOLEAN  BY CommandsAssumption DEF Custom
<1>2. /\ words \in Seq(Words) /\ Len(words) = p - 1 + Len(o) /\ Len(o) \in Nat
      /\ words[1] = m1 /\ words[2] = m2 /\ words[3] = sN /\ (a.fd => words[3 + n] = sD)
      /\ \A i \in 1 .. Len(o) : words[p - 1 + i] = o[i]
  BY OpenWordsAre
<1>3. m1.data = 0 /\ m2.data = 0  BY WordIs DEF ModeWords, Codes, Values
<1>4. sN.data = n - 1 /\ sD.data = n - 1
  <2>1. \A code \in Codes : Speed(code, Custom(a))[1] =
          IF Custom(a) THEN MultiWord(code, 2) ELSE Word(code, "index")
    BY <1>1, SpeedIs
  <2>2. \A code \in Codes : MultiWord(code, 2).data = 2 /\ Word(code, "index").data = 0
    BY WordIs, MultiWordIs DEF Values
  <2>3. \A code \in Codes : Speed(code, Custom(a))[1].data = n - 1
    BY <1>1, <2>1, <2>2
  <2>4. "BUS_SPEED_N" \in Codes /\ "BUS_SPEED_D" \in Codes  BY DEF Codes
  <2>. QED  BY <2>3, <2>4
<1>5. /\ ~a.retransmit /\ iso => Len(o) = 0
      /\ a.retransmit /\ iso => Len(o) = 1 /\ o[1] = R
      /\ ~a.retransmit /\ ~iso => Len(o) = 1 /\ o[1] = I
      /\ a.retransmit /\ ~iso => Len(o) = 2 /\ o[1] = R /\ o[2] = I
  BY OptionsAre
<1>6. R.data = 0 /\ I.data = 0  BY WordIs DEF Codes, Values
<1>7. n \in {1, 3} /\ p \in Nat /\ p >= 3 + n /\ (a.fd => p = 3 + n + n) /\ (~a.fd => p = 3 + n)
  BY <1>1
<1>. HIDE DEF words, n, p, o, m1, m2, sN, sD, R, I, iso
<1>8. Skips(words)  BY <1>2, WordsSkip
<1>9. PICK from : Walk(words, from) /\ Params(words) = from[1]
  BY <1>2, <1>8, ParamsWalk
<1>10. \A i \in Nat \ {0} :
         /\ \A k \in Nat : i <= Len(words) /\ words[i].data = k => from[i] = {words[i]} \cup from[i + 1 + k]
         /\ i > Len(words) /\ i <= Len(words) + 256 => from[i] = {}
  BY <1>2, <1>9, WalkStep
<1>11. from[1] = {m1} \cup from[2] /\ from[2] = {m2} \cup from[3]
  <2>1. 2 <= Len(words) /\ 1 <= Len(words) /\ 1 + 1 + 0 = 2 /\ 2 + 1 + 0 = 3  BY <1>2, <1>7
  <2>. QED  BY <1>2, <1>3, <1>10, <2>1
<1>12. from[3] = {sN} \cup from[3 + n]
  <2>1. 3 <= Len(words) /\ 3 + 1 + (n - 1) = 3 + n /\ n - 1 \in Nat  BY <1>2, <1>7
  <2>. QED  BY <1>2, <1>4, <1>10, <2>1
<1>13. from[3 + n] = (IF a.fd THEN {sD} ELSE {}) \cup from[p]
  <2>1. CASE a.fd
    <3>1. 3 + n \in Nat \ {0} /\ 3 + n <= Len(words) /\ 3 + n + 1 + (n - 1) = p
          /\ n - 1 \in Nat
      BY <1>2, <1>7, <2>1
    <3>2. words[3 + n] = sD  BY <1>2, <2>1
    <3>. HIDE DEF p
    <3>. QED  BY <1>4, <1>10, <2>1, <3>1, <3>2
  <2>2. CASE ~a.fd  BY <1>7, <2>2
  <2>. QED  BY <2>1, <2>2
<1>14. from[p] = (IF a.retransmit THEN {R} ELSE {}) \cup (IF ~iso THEN {I} ELSE {})
  <2>0. p \in Nat /\ p >= 4 /\ Len(words) = p - 1 + Len(o)  BY <1>2, <1>7
  <2>1. CASE Len(o) = 0
    <3>1. from[p] = {}  BY <1>10, <2>0, <2>1
    <3>. QED  BY <1>5, <2>1, <3>1
  <2>2. CASE Len(o) = 1
    <3>1. p - 1 + 1 = p /\ 1 \in 1 .. Len(o) /\ p <= Len(words) /\ p + 1 + 0 = p + 1
          /\ p + 1 > Len(words) /\ p + 1 <= Len(words) + 256 /\ p \in Nat \ {0} /\ p + 1 \in Nat \ {0}
      BY <2>0, <2>2
    <3>2. words[p] = o[1]  BY <1>2, <3>1
    <3>3. o[1].data = 0  BY <1>5, <1>6, <2>2
    <3>4. from[p] = {o[1]} \cup from[p + 1] /\ from[p + 1] = {}
      BY <1>10, <3>1, <3>2, <3>3
    <3>. QED  BY <1>5, <2>2, <3>4
  <2>3. CASE Len(o) = 2
    <3>1. p - 1 + 1 = p /\ p - 1 + 2 = p + 1 /\ 1 \in 1 .. Len(o) /\ 2 \in 1 .. Len(o) /\ p + 1 <= Len(words)
          /\ p <= Len(words) /\ p + 1 + 0 = p + 1 /\ p + 1 + 1 + 0 = p + 2
          /\ p + 2 > Len(words) /\ p + 2 <= Len(words) + 256
          /\ p \in Nat \ {0} /\ p + 1 \in Nat \ {0} /\ p + 2 \in Nat \ {0}
      BY <2>0, <2>3
    <3>2. words[p] = o[1] /\ words[p + 1] = o[2]  BY <1>2, <3>1
    <3>3. o[1].data = 0 /\ o[2].data = 0 /\ o[1] = R /\ o[2] = I /\ a.retransmit /\ ~iso
      BY <1>5, <1>6, <2>3
    <3>4. from[p] = {o[1]} \cup from[p + 1]  BY <1>10, <3>1, <3>2, <3>3
    <3>5. from[p + 1] = {o[2]} \cup from[p + 2]  BY <1>10, <3>1, <3>2, <3>3
    <3>6. from[p + 2] = {}  BY <1>10, <3>1
    <3>. QED  BY <3>3, <3>4, <3>5, <3>6
  <2>. QED  BY <1>5, <2>1, <2>2, <2>3
<1>15. Params(words) = {m1, m2, sN} \cup (IF a.fd THEN {sD} ELSE {})
         \cup (IF a.retransmit THEN {R} ELSE {}) \cup (IF ~iso THEN {I} ELSE {})
  BY <1>9, <1>11, <1>12, <1>13, <1>14
<1>. QED  BY <1>15 DEF words, m1, m2, sN, sD, R, I, iso

\* The words of open_can_channel mean what its arguments ask for.
LEMMA MeantAsAsked == \A a \in Channels : Meaning(Params(OpenWords(a))) = Asked(a)
<1>. SUFFICES ASSUME NEW a \in Channels PROVE Meaning(Params(OpenWords(a))) = Asked(a)
  OBVIOUS
<1>. DEFINE P == Params(OpenWords(a))
            m1 == ModeWords(a)[1]
            m2 == ModeWords(a)[2]
            sN == Speed("BUS_SPEED_N", Custom(a))[1]
            sD == Speed("BUS_SPEED_D", Custom(a))[1]
            R == Word("RETRANSMIT", 1)
            I == Word("NON_ISO", 1)
            iso == ~(a.nonIso /\ (a.fd \/ a.custom))
<1>1. /\ a.custom \in BOOLEAN /\ a.fd \in BOOLEAN /\ a.indexed \in BOOLEAN /\ a.brs \in BOOLEAN
      /\ a.listenOnly \in BOOLEAN /\ a.loopback \in BOOLEAN /\ a.retransmit \in BOOLEAN
      /\ a.nonIso \in BOOLEAN /\ Custom(a) \in BOOLEAN
  BY CommandsAssumption DEF Custom
<1>2. P = {m1, m2, sN} \cup (IF a.fd THEN {sD} ELSE {})
            \cup (IF a.retransmit THEN {R} ELSE {}) \cup (IF ~iso THEN {I} ELSE {})
  BY OpenParams
<1>3. /\ m1.code = "CAN_MODE"
      /\ m1.value = IF a.loopback THEN "loopback" ELSE IF a.listenOnly THEN "listen" ELSE "normal"
      /\ m2.code = "CAN_FRAME"
      /\ m2.value = IF ~a.fd THEN "classic" ELSE IF a.brs THEN "brs" ELSE "fd"
  BY <1>1 DEF ModeWords, Word
<1>4. \A code \in Codes : /\ Speed(code, Custom(a))[1].code = code
                          /\ Speed(code, Custom(a))[1].value = IF Custom(a) THEN "custom" ELSE "index"
  BY <1>1, SpeedIs, WordIs, MultiWordIs DEF Values
<1>5. /\ sN.code = "BUS_SPEED_N" /\ sN.value = IF Custom(a) THEN "custom" ELSE "index"
      /\ sD.code = "BUS_SPEED_D" /\ sD.value = IF Custom(a) THEN "custom" ELSE "index"
  BY <1>4 DEF Codes
<1>6. R.code = "RETRANSMIT" /\ R.value = 1 /\ I.code = "NON_ISO" /\ I.value = 1
  BY DEF Word
<1>. DEFINE has(code, values) == \E p \in P : p.code = code /\ p.value \in values
<1>. HIDE DEF P, m1, m2, sN, sD, R, I
<1>7. has("CAN_MODE", {"loopback"}) = a.loopback
      /\ has("CAN_MODE", {"listen"}) = (a.listenOnly /\ ~a.loopback)
  BY <1>1, <1>2, <1>3, <1>5, <1>6
<1>8. has("CAN_FRAME", {"fd", "brs"}) = a.fd /\ has("CAN_FRAME", {"brs"}) = (a.fd /\ a.brs)
  BY <1>1, <1>2, <1>3, <1>5, <1>6
<1>9. has("BUS_SPEED_N", {"custom"}) = Custom(a) /\ has("BUS_SPEED_D", {"index", "custom"}) = a.fd
  BY <1>1, <1>2, <1>3, <1>5, <1>6
<1>10. has("RETRANSMIT", {1}) = a.retransmit /\ has("NON_ISO", {1}) = ~iso
  BY <1>1, <1>2, <1>3, <1>5, <1>6
<1>. QED
  <2>1. Meaning(P) =
          [loopback |-> has("CAN_MODE", {"loopback"}), silent |-> has("CAN_MODE", {"listen"}),
           fd |-> has("CAN_FRAME", {"fd", "brs"}), brs |-> has("CAN_FRAME", {"brs"}),
           timed |-> has("BUS_SPEED_N", {"custom"}),
           dataSpeed |-> has("BUS_SPEED_D", {"index", "custom"}),
           retransmit |-> has("RETRANSMIT", {1}), nonIso |-> has("NON_ISO", {1})]
    BY DEF Meaning
  <2>. HIDE DEF has
  <2>2. Meaning(P) = Asked(a)
    BY <1>1, <1>7, <1>8, <1>9, <1>10, <2>1 DEF Asked, Custom
  <2>. QED  BY <2>2 DEF P

\* DeviceInfo finds the terminator where there is one, and does not take the
\* data word of the serial number for a parameter.
LEMMA TerminatorRead == \A t \in BOOLEAN : HasTerminator(Info(t)) <=> t
<1>. SUFFICES ASSUME NEW t \in BOOLEAN PROVE HasTerminator(Info(t)) <=> t
  OBVIOUS
<1>. DEFINE words == Info(t)
            u == Word("CHANNEL_FEATURES", IF t THEN "terminator" ELSE "plain")
            v == MultiWord("DEVICE_SERIAL", 1)
            w == Word("CHANNEL_FEATURES", "terminator")
<1>1. u \in Words /\ u.data = 0 /\ v \in Words /\ v.data = 1 /\ w \in Words /\ w.data = 0
  BY WordIs, MultiWordIs DEF Codes, Values
<1>2. words = <<u, v, w>>  BY DEF Info
<1>3. (u = w <=> t) /\ v # w  BY DEF Word, MultiWord
<1>. HIDE DEF words, u, v, w
<1>4. words \in Seq(Words) /\ Len(words) = 3 /\ words[1] = u /\ words[2] = v /\ words[3] = w
  BY <1>1, <1>2
<1>5. Skips(words)  BY <1>4, WordsSkip
<1>6. PICK from : Walk(words, from) /\ Params(words) = from[1]  BY <1>4, <1>5, ParamsWalk
<1>7. \A i \in Nat \ {0} :
        /\ \A k \in Nat : i <= Len(words) /\ words[i].data = k => from[i] = {words[i]} \cup from[i + 1 + k]
        /\ i > Len(words) /\ i <= Len(words) + 256 => from[i] = {}
  BY <1>4, <1>6, WalkStep
<1>8. from[1] = {u} \cup from[2] /\ from[2] = {v} \cup from[4] /\ from[4] = {}
  <2>1. 1 + 1 + 0 = 2 /\ 2 + 1 + 1 = 4  OBVIOUS
  <2>. QED  BY <1>1, <1>4, <1>7, <2>1
<1>9. Params(words) = {u, v}  BY <1>6, <1>8
<1>. QED  BY <1>3, <1>9 DEF HasTerminator, words, w

-----------------------------------------------------------------------------
(* What the adapter was told *)

Terminates ==
  /\ terminated \in BOOLEAN
  /\ adapter.switched # {} => terminated
  /\ \A c \in Calls : command[c].name = "CHANNEL_CONFIG" => terminated

\* The adapter's channel is that of the last open_can_channel once it executed
\* it, and it cannot execute an earlier one any more.
ChannelSet ==
  op.name = "open_can_channel" =>
    /\ op.args \in Channels /\ command[made] = FirstCommand(op)
    /\ made \in executed => adapter.channel = Params(OpenWords(op.args))
    /\ Done("open_can_channel") => made \in executed

TerminatorSet ==
  op.name = "ensure_terminator" =>
    /\ command[made] \in {Plain("DEVICE_INFO"), SetTerminator(op.enabled)}
    /\ made \in executed /\ command[made] = SetTerminator(op.enabled) =>
         adapter.switched = {op.enabled}
    /\ Done("ensure_terminator") =>
         /\ made \in executed
         /\ outcome.switched = (command[made].name = "CHANNEL_CONFIG")
         /\ terminated => command[made].name = "CHANNEL_CONFIG"

Told == Terminates /\ ChannelSet /\ TerminatorSet

LEMMA CommandNames ==
  /\ \A name : Plain(name).name = name
  /\ \A on : SetTerminator(on).name = "CHANNEL_CONFIG" /\ SetTerminator(on).enabled = on
  /\ \A i : FilterClear(i).name = "FILTER_CLEAR"
  /\ Opening.name = "open"
BY DEF Plain, SetTerminator, FilterClear, Opening

\* Nothing is told, and nothing returns.
LEMMA ToldStays ==
  ASSUME Told, UNCHANGED <<op, made, command, terminated, adapter, executed>>,
         user' = "idle" /\ outcome'.how = "returned" => UNCHANGED <<user, outcome>>
  PROVE  Told'
<1>1. \A name \in {"open_can_channel", "ensure_terminator"} : Done(name)' => Done(name) /\ outcome' = outcome
  BY DEF Done
<1>2. Terminates'  BY DEF Told, Terminates
<1>3. ChannelSet'  BY <1>1 DEF Told, ChannelSet, FirstCommand
<1>4. TerminatorSet'  BY <1>1 DEF Told, TerminatorSet, SetTerminator
<1>. QED  BY <1>2, <1>3, <1>4 DEF Told

LEMMA ToldElsewhere ==
  ASSUME Told, op.name \notin {"open_can_channel", "ensure_terminator"},
         UNCHANGED <<op, command, terminated, adapter>>
  PROVE  Told'
BY DEF Told, Terminates, ChannelSet, TerminatorSet

\* The next request is made; it tells the adapter nothing yet.
LEMMA ToldIssued ==
  ASSUME Told, CommandsInv, NEW cmd, Issue(cmd), user' = "busy",
         made' = made + 1, command'[made'] = cmd, made + 1 \notin executed,
         cmd.name = "CHANNEL_CONFIG" => terminated,
         op'.name = "open_can_channel" => op'.args \in Channels /\ cmd = FirstCommand(op'),
         op'.name = "ensure_terminator" => cmd \in {Plain("DEVICE_INFO"), SetTerminator(op'.enabled)}
  PROVE  Told'
<1>1. /\ command' = [c \in Calls |-> IF c = made + 1 THEN cmd
                                     ELSE IF c \in inDev THEN command[c] ELSE Plain("none")]
      /\ UNCHANGED <<terminated, adapter, executed>>
  BY DEF Issue, adapterVars
<1>2. Terminates'  BY <1>1, CommandNames DEF Told, Terminates
<1>3. made' \notin executed' /\ \A name : ~Done(name)'  BY <1>1 DEF Done
<1>4. ChannelSet'  BY <1>3 DEF ChannelSet, FirstCommand
<1>5. TerminatorSet'  BY <1>3 DEF TerminatorSet, SetTerminator
<1>. QED  BY <1>2, <1>4, <1>5 DEF Told

\* Once the task's last request was executed, none of its requests is with the
\* adapter.
LEMMA LastIsLast ==
  ASSUME CommandsInv, made \in executed, NEW c \in Calls, c \in inDev, c \in Sent
  PROVE  c \in Closers
<1>1. SUFFICES ASSUME c \in UserCalls PROVE FALSE  BY UserCallsAre
<1>2. made \in Nat /\ c \in Nat /\ (made \in UserCalls => made < c) /\ c <= made
  BY <1>1, UserCallsAre
  DEF CommandsInv, Progress, DeviceInv, ExecutedInv, ExecutedInOrder, Sent
<1>3. made \in UserCalls  BY <1>1, <1>2, UserCallsAre DEF CommandsInv, Progress, UserCalls
<1>. QED  BY <1>2, <1>3

LEMMA ToldAnswered ==
  ASSUME Told, CommandsInv, NEW c \in Calls, AdapterAnswers(c)
  PROVE  Told'
<1>1. UNCHANGED <<terminated, user, op, made, outcome, command>>
  BY DEF AdapterAnswers, userVars
<1>2. UNCHANGED <<executed, adapter>> \/ (executed' = executed \cup {c} /\ adapter' = Execute(command[c]))
  BY AnswerKeepsExecuted DEF CommandsInv, DeviceInv
<1>3. CASE UNCHANGED <<executed, adapter>>  BY <1>1, <1>3, ToldStays
<1>4. CASE executed' = executed \cup {c} /\ adapter' = Execute(command[c])
  <2>1. c \in inDev /\ c \in Sent
    BY AnswerKeepsWire DEF CommandsInv, DeviceInv, AdapterAnswers
  <2>2. \A k \in Closers : command[k].name = "none"
    BY CommandNames DEF CommandsInv, CommandsKnown
  <2>3. made \in executed => adapter' = adapter
    BY <1>4, <2>1, <2>2, LastIsLast DEF Execute
  <2>4. /\ adapter'.switched # {} => adapter.switched # {} \/ command[c].name = "CHANNEL_CONFIG"
        /\ command[c].name = "CHANNEL_CONFIG" => adapter'.switched = {command[c].enabled}
        /\ command[c].name = "CHANNEL_OPEN" => adapter'.channel = Params(command[c].words)
    <3>1. adapter = [filters |-> adapter.filters, channel |-> adapter.channel,
                     switched |-> adapter.switched]
      BY DEF CommandsInv, AdapterTyped
    <3>. QED  BY <1>4, <3>1 DEF Execute
  <2>5. Terminates'  BY <1>1, <2>4 DEF Told, Terminates
  <2>6. \A name : Done(name)' <=> Done(name)  BY <1>1 DEF Done
  <2>7. made \in executed' => made \in executed \/ c = made  BY <1>4
  <2>8. ChannelSet'
    <3>1. op.name = "open_can_channel" =>
            FirstCommand(op).name = "CHANNEL_OPEN" /\ FirstCommand(op).words = OpenWords(op.args)
      BY DEF FirstCommand
    <3>2. op.name = "open_can_channel" /\ c = made => adapter'.channel = Params(OpenWords(op.args))
      BY <2>4, <3>1 DEF Told, ChannelSet
    <3>3. FirstCommand(op') = FirstCommand(op)  BY <1>1
    <3>. QED  BY <1>1, <1>4, <2>3, <2>6, <2>7, <3>2, <3>3 DEF Told, ChannelSet
  <2>9. TerminatorSet'
    <3>1. op.name = "ensure_terminator" /\ c = made /\ command[made] = SetTerminator(op.enabled) =>
            adapter'.switched = {op.enabled}
      BY <2>4, CommandNames
    <3>. QED
      BY <1>1, <1>4, <2>3, <2>6, <2>7, <3>1 DEF Told, TerminatorSet, SetTerminator
  <2>. QED  BY <2>5, <2>8, <2>9 DEF Told
<1>. QED  BY <1>2, <1>3, <1>4

LEMMA ToldBegun ==
  ASSUME Told, CommandsInv, NEW o \in Operations, Begin(o)
  PROVE  Told'
<1>. DEFINE cmd == FirstCommand(o)
<1>1. /\ o.name \in {"open_can_channel", "set_can_filter", "clear_all_filters", "ensure_terminator"}
      /\ o.name = "open_can_channel" => o.args \in Channels
      /\ o.name = "set_can_filter" => o.index \in 0 .. MaxFilters - 1
  BY DEF Operations
<1>2. /\ cmd.name # "CHANNEL_CONFIG"
      /\ cmd.name = "FILTER_SET" => cmd.filter \in 0 .. MaxFilters - 1
      /\ o.name = "ensure_terminator" => cmd = Plain("DEVICE_INFO")
  BY <1>1, CommandNames DEF FirstCommand, FilterClear
<1>3. user = "idle" /\ user' = "busy" /\ op' = o /\ Issue(cmd) /\ made + MaxRequests(o) <= NumRequests
  BY DEF Begin, NumRequests
<1>4. cmd = FirstCommand(op')  BY <1>3
<1>. HIDE DEF cmd
<1>5. made \in UserCalls /\ made > 0 /\ made \in Nat /\ NumRequests \in Nat /\ call[made] \in Finished
  <2>1. made \in UserCalls  BY <1>3, UserCallsAre DEF CommandsInv, Progress, UserCalls
  <2>. QED  BY <1>3, <2>1, UserCallsAre DEF CommandsInv, Progress
<1>6. MaxRequests(o) \in Nat /\ MaxRequests(o) >= 1  BY <1>1, CommandsAssumption DEF MaxRequests
<1>7. made < NumRequests  BY <1>3, <1>5, <1>6
<1>8. made' = made + 1 /\ command'[made'] = cmd /\ made + 1 \notin executed
  BY <1>2, <1>3, <1>5, <1>7, IssueFrame
<1>. QED  BY <1>1, <1>2, <1>3, <1>4, <1>8, ToldIssued

LEMMA ToldTaken ==
  ASSUME Told, CommandsInv, TakesUp
  PROVE  Told'
<1>0. Progress /\ DeviceInv  BY DEF CommandsInv
<1>1. CASE Opened \/ ClearStops
  <2>1. op.name \notin {"open_can_channel", "ensure_terminator"}
        /\ UNCHANGED <<op, command, terminated, adapter>>
    BY <1>1, CommandNames DEF Opened, ClearStops, Ends, adapterVars
  <2>. QED  BY <2>1, ToldElsewhere
<1>2. CASE OpenFails \/ TerminatorFails
  <2>1. /\ UNCHANGED <<op, made, command, terminated, adapter, executed>>
        /\ user' = "idle" => outcome'.how # "returned"
    BY <1>2 DEF OpenFails, TerminatorFails, Ends, Raised, adapterVars
  <2>. QED  BY <2>1, ToldStays
<1>3. CASE OneRequestEnds
  <2>1. UNCHANGED <<op, made, command, terminated, adapter, executed>>
        /\ op.name \in {"open_can_channel", "set_can_filter"}
    BY <1>3 DEF OneRequestEnds, Ends, adapterVars
  <2>2. CASE Answered
    <3>1. made \in executed  BY <1>0, <2>2, AnsweredExecuted DEF Answered
    <3>2. Terminates' /\ TerminatorSet'  BY <2>1 DEF Told, Terminates, TerminatorSet
    <3>3. ChannelSet'  BY <2>1, <3>1 DEF Told, ChannelSet, FirstCommand
    <3>. QED  BY <3>2, <3>3 DEF Told
  <2>3. CASE ~Answered
    <3>1. outcome'.how # "returned"  BY <1>3, <2>3 DEF OneRequestEnds, Ends, Raised
    <3>. QED  BY <2>1, <3>1, ToldStays
  <2>. QED  BY <2>2, <2>3
<1>4. CASE ClearGoesOn
  <2>1. op.name = "clear_all_filters" /\ user = "busy"
        /\ \E count : NextFilter(command[made].filter, count)
    BY <1>4 DEF ClearGoesOn, Answered, Refused
  <2>2. PICK count : NextFilter(command[made].filter, count)  BY <2>1
  <2>3. CASE Ends([how |-> "returned", count |-> count])
    <3>1. UNCHANGED <<op, command, terminated, adapter>>  BY <2>3 DEF Ends, adapterVars
    <3>. QED  BY <2>1, <3>1, ToldElsewhere
  <2>4. CASE ~Ends([how |-> "returned", count |-> count])
    <3>. DEFINE cmd == FilterClear(command[made].filter + 1)
    <3>1. Issue(cmd) /\ UNCHANGED <<user, op>>  BY <2>2, <2>4 DEF NextFilter
    <3>2. cmd.name = "FILTER_CLEAR"  BY CommandNames
    <3>. HIDE DEF cmd
    <3>3. Terminates'
      BY <3>1, <3>2, CommandNames DEF Issue, adapterVars, Told, Terminates
    <3>4. ChannelSet' /\ TerminatorSet'  BY <2>1, <3>1 DEF ChannelSet, TerminatorSet
    <3>. QED  BY <3>3, <3>4 DEF Told
  <2>. QED  BY <2>3, <2>4
<1>5. CASE TerminatorGoesOn
  <2>1. op.name = "ensure_terminator" /\ Answered /\ user = "busy"
    BY <1>5 DEF TerminatorGoesOn, Answered
  <2>2. terminated \in BOOLEAN /\ (HasTerminator(Info(terminated)) <=> terminated)
    BY TerminatorRead DEF Told, Terminates
  <2>3. CASE command[made].name = "DEVICE_INFO" /\ HasTerminator(Info(terminated))
    <3>. DEFINE cmd == SetTerminator(op.enabled)
    <3>1. Issue(cmd) /\ UNCHANGED <<user, op>>  BY <1>5, <2>3 DEF TerminatorGoesOn
    <3>2. cmd.name = "CHANNEL_CONFIG" /\ cmd = SetTerminator(op'.enabled)  BY <3>1, CommandNames
    <3>. HIDE DEF cmd
    <3>3. made < NumRequests /\ made > 0 /\ call[made] \in Finished
      BY <1>0, <2>1, <2>3, OverIsFinished DEF CommandsInv, RoomLeft
    <3>4. made' = made + 1 /\ command'[made'] = cmd /\ made + 1 \notin executed
      BY <2>1, <3>1, <3>2, <3>3, IssueFrame
    <3>. QED  BY <2>1, <2>2, <2>3, <3>1, <3>2, <3>4, ToldIssued
  <2>4. CASE ~(command[made].name = "DEVICE_INFO" /\ HasTerminator(Info(terminated)))
    <3>. DEFINE switched == command[made].name = "CHANNEL_CONFIG"
    <3>1. Ends([how |-> "returned", switched |-> switched])
      BY <1>5, <2>4 DEF TerminatorGoesOn
    <3>2. /\ UNCHANGED <<op, made, command, terminated, adapter, executed>>
          /\ outcome'.switched = switched
      BY <3>1 DEF Ends, adapterVars
    <3>3. made \in executed  BY <1>0, <2>1, AnsweredExecuted
    <3>4. terminated => switched
      BY <2>1, <2>2, <2>4, CommandNames DEF Told, TerminatorSet
    <3>5. Terminates' /\ ChannelSet'  BY <2>1, <3>2 DEF Told, Terminates, ChannelSet
    <3>6. TerminatorSet'
      BY <2>1, <3>2, <3>3, <3>4 DEF Told, TerminatorSet, SetTerminator
    <3>. QED  BY <3>5, <3>6 DEF Told
  <2>. QED  BY <2>3, <2>4
<1>. QED  BY <1>1, <1>2, <1>3, <1>4, <1>5 DEF TakesUp

StillOpening == user = "syncing" => op = Opening

LEMMA StillOpeningKept == StillOpening /\ [CommandsNext]_allVars => StillOpening'
<1>. SUFFICES ASSUME StillOpening, [CommandsNext]_allVars, user' = "syncing"
              PROVE  UNCHANGED <<user, op>>
  BY DEF StillOpening
<1>1. ~Synced /\ ~SyncFails  BY DEF Synced, SyncFails
<1>2. ~TakesUp
  BY DEF TakesUp, Opened, OpenFails, OneRequestEnds, ClearGoesOn, ClearStops, TerminatorGoesOn,
         TerminatorFails, NextFilter, Ends, Answered, Refused
<1>3. ~\E o \in Operations : Begin(o)  BY DEF Begin
<1>4. CASE \E c \in Calls : Undrained(c)  BY <1>4 DEF Undrained
<1>5. CASE UNCHANGED userVars  BY <1>5 DEF userVars
<1>. QED  BY <1>1, <1>2, <1>3, <1>4, <1>5 DEF CommandsNext, Alone, allVars, AdapterAnswers

LEMMA ToldKept == Told /\ StillOpening /\ CommandsInv /\ [CommandsNext]_allVars => Told'
<1>. SUFFICES ASSUME Told, StillOpening, CommandsInv, [CommandsNext]_allVars PROVE Told'
  OBVIOUS
<1>1. CASE SyncFails
  BY <1>1, ToldStays DEF SyncFails, adapterVars
<1>2. CASE Synced
  <2>. DEFINE cmd == Plain("DEVICE_OPEN")
  <2>1. Issue(cmd) /\ user' = "busy" /\ UNCHANGED op /\ user = "syncing"  BY <1>2 DEF Synced
  <2>2. cmd.name = "DEVICE_OPEN"  BY CommandNames
  <2>. HIDE DEF cmd
  <2>3. made = 0 /\ made < NumRequests  BY <2>1, UserCallsAre DEF CommandsInv, Progress
  <2>4. made' = made + 1 /\ command'[made'] = cmd /\ made + 1 \notin executed
    BY <2>1, <2>2, <2>3, IssueFrame
  <2>5. op'.name = "open"  BY <2>1, CommandNames DEF StillOpening
  <2>. QED  BY <2>1, <2>2, <2>4, <2>5, ToldIssued
<1>3. CASE TakesUp  BY <1>3, ToldTaken
<1>4. CASE \E o \in Operations : Begin(o)  BY <1>4, ToldBegun
<1>5. CASE \E c \in Calls : AdapterAnswers(c)  BY <1>5, ToldAnswered
<1>6. CASE \E c \in Calls : Undrained(c)
  <2>1. /\ UNCHANGED <<op, made, command, terminated, adapter, executed, outcome>>
        /\ user' \in {user, "undrained"}
    BY <1>6 DEF Undrained, adapterVars
  <2>. QED  BY <2>1, ToldStays
<1>7. CASE UNCHANGED <<userVars, adapterVars>>
  BY <1>7, ToldStays DEF userVars, adapterVars
<1>. QED  BY <1>1, <1>2, <1>3, <1>4, <1>5, <1>6, <1>7 DEF CommandsNext, Alone, allVars

\* When open_can_channel returns, the adapter's channel is set up as its
\* arguments ask and not as an earlier, cancelled call asked; the terminator is
\* switched only on an adapter that says it has one, and ensure_terminator tells
\* its caller whether it was.
THEOREM AdapterIsAsTold == CommandsSpec => []AdapterAsTold
<1>1. CommandsInit => Told /\ StillOpening
  BY CommandNames DEF CommandsInit, StillOpening, Told, Terminates, ChannelSet, TerminatorSet
<1>2. Told /\ StillOpening /\ CommandsInv /\ [CommandsNext]_allVars => Told' /\ StillOpening'
  BY ToldKept, StillOpeningKept
<1>3. Told => AdapterAsTold
  <2>. SUFFICES ASSUME Told PROVE AdapterAsTold
    OBVIOUS
  <2>1. ASSUME Done("open_can_channel") PROVE Meaning(adapter.channel) = Asked(op.args)
    BY <2>1, MeantAsAsked DEF Told, ChannelSet, Done
  <2>2. adapter.switched # {} => terminated  BY DEF Told, Terminates
  <2>3. ASSUME Done("ensure_terminator")
        PROVE  /\ outcome.switched = terminated
               /\ terminated => adapter.switched = {op.enabled}
    <3>1. /\ command[made] \in {Plain("DEVICE_INFO"), SetTerminator(op.enabled)}
          /\ made \in executed /\ terminated \in BOOLEAN
          /\ outcome.switched = (command[made].name = "CHANNEL_CONFIG")
          /\ terminated => command[made].name = "CHANNEL_CONFIG"
          /\ command[made] = SetTerminator(op.enabled) => adapter.switched = {op.enabled}
      BY <2>3 DEF Told, Terminates, TerminatorSet, Done
    <3>2. command[made].name = "CHANNEL_CONFIG" =>
            terminated /\ command[made] = SetTerminator(op.enabled)
      BY <3>1, CommandNames DEF Told, Terminates
    <3>. QED  BY <3>1, <3>2
  <2>. QED  BY <2>1, <2>2, <2>3 DEF AdapterAsTold
<1>. QED  BY <1>1, <1>2, <1>3, CommandsInvHolds, PTL DEF CommandsSpec
=============================================================================
