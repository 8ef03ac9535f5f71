----------------------------- MODULE RelayProofs -----------------------------
(***************************************************************************)
(* What RelayServer and RelayAgent guarantee for any number of connections *)
(* and of serial numbers.  What the relay does is proved once, for its     *)
(* steps with any peers and for those with the agent of RelayAgent.        *)
(***************************************************************************)
EXTENDS RelayAgent, SequenceTheorems, TLAPS

\* The agent's only step that is none of RelayServer: a request is forgotten.
ForgetsRequest(c) ==
  /\ data[c] = "asked"
  /\ data' = [data EXCEPT ![c] = "none"]
  /\ UNCHANGED <<agentVars, sessionVars, clientUp, clientOpen, dataUp>>

RelayMoves == [Next]_vars \/ \E c \in Clients : ForgetsRequest(c)

-----------------------------------------------------------------------------
(* Type correctness of RelayServer *)

LEMMA InitTyped == Init => TypeOK
<1>. SUFFICES ASSUME Init PROVE TypeOK
  OBVIOUS
<1>1. <<>> \in Seq({"ok", "error", "bytes"})  BY EmptySeq
<1>. QED  BY <1>1 DEF Init, TypeOK

LEMMA WrittenTyped ==
  ASSUME TypeOK, NEW c \in Clients, NEW what \in {"ok", "error", "bytes"}
  PROVE  Written(c, what) \in [Clients -> Seq({"ok", "error", "bytes"})]
<1>1. Append(toClient[c], what) \in Seq({"ok", "error", "bytes"})
  BY AppendProperties DEF TypeOK
<1>. QED  BY <1>1 DEF Written, TypeOK

LEMMA AgentStepTyped ==
  ASSUME TypeOK, NEW a \in Agents, AgentStep(a)
  PROVE  TypeOK'
<1>. USE RelayAssumption DEF TypeOK, sessionVars, lineVars
<1>1. CASE AgentRegisters(a)
  <2>1. registry' \in [Serials -> Agents \cup {NoAgent}]  BY <1>1 DEF AgentRegisters
  <2>2. agentUp' \in [Agents -> BOOLEAN]  BY <1>1 DEF AgentRegisters
  <2>3. agentPhase' \in [Agents -> {"new", "serving", "leaving", "gone"}]
    BY <1>1 DEF AgentRegisters
  <2>. QED  BY <1>1, <2>1, <2>2, <2>3 DEF AgentRegisters
<1>2. CASE AgentRefused(a)  BY <1>2 DEF AgentRefused
<1>3. CASE AgentEof(a)  BY <1>3 DEF AgentEof
<1>4. CASE AgentLeaves(a)  BY <1>4 DEF AgentLeaves
<1>. QED  BY <1>1, <1>2, <1>3, <1>4 DEF AgentStep

LEMMA ClientStepTyped ==
  ASSUME TypeOK, NEW c \in Clients, ClientStep(c)
  PROVE  TypeOK'
<1>. USE RelayAssumption DEF agentVars, lineVars
<1>1. ASSUME NEW reason, ClientRefused(c, reason) PROVE TypeOK'
  BY <1>1, WrittenTyped DEF TypeOK, ClientRefused
<1>2. CASE ClientAsks(c)  BY <1>2 DEF TypeOK, ClientAsks
<1>3. CASE ClientAccepted(c)  BY <1>3, WrittenTyped DEF TypeOK, ClientAccepted
<1>4. CASE ClientOkFails(c)  BY <1>4 DEF TypeOK, ClientOkFails
<1>5. CASE AgentWriteFails(c)  BY <1>5, WrittenTyped DEF TypeOK, AgentWriteFails
<1>6. CASE ClientPaired(c)  BY <1>6 DEF TypeOK, ClientPaired
<1>7. CASE ClientTimeout(c)  BY <1>7 DEF TypeOK, ClientTimeout
<1>8. CASE ClientGivesUp(c)  BY <1>8, WrittenTyped DEF TypeOK, ClientGivesUp
<1>9. CASE ClientDone(c)  BY <1>9 DEF TypeOK, ClientDone
<1>. QED  BY <1>1, <1>2, <1>3, <1>4, <1>5, <1>6, <1>7, <1>8, <1>9 DEF ClientStep

LEMMA DataStepTyped ==
  ASSUME TypeOK, NEW c \in Clients, DataStep(c)
  PROVE  TypeOK'
<1>. USE DEF agentVars, sessionVars, lineVars
<1>1. CASE DataPairs(c)  BY <1>1 DEF TypeOK, DataPairs
<1>2. CASE DataRefused(c)  BY <1>2 DEF TypeOK, DataRefused
<1>3. CASE PumpToClient(c)  BY <1>3, WrittenTyped DEF TypeOK, PumpToClient
<1>4. CASE PipeEnds(c)  BY <1>4 DEF TypeOK, PipeEnds
<1>. QED  BY <1>1, <1>2, <1>3, <1>4 DEF DataStep

LEMMA RelayMovesTyped == TypeOK /\ RelayMoves => TypeOK'
<1>. SUFFICES ASSUME TypeOK, RelayMoves PROVE TypeOK'
  OBVIOUS
<1>1. CASE PeerStep
  <2>. USE DEF TypeOK, agentVars, sessionVars, lineVars
  <2>1. ASSUME NEW a \in Agents, AgentHangsUp(a) PROVE TypeOK'  BY <2>1 DEF AgentHangsUp
  <2>2. ASSUME NEW c \in Clients, AgentDials(c) PROVE TypeOK'  BY <2>2 DEF AgentDials
  <2>3. ASSUME NEW c \in Clients, ClientHangsUp(c) PROVE TypeOK'  BY <2>3 DEF ClientHangsUp
  <2>4. ASSUME NEW c \in Clients, DataHangsUp(c) PROVE TypeOK'  BY <2>4 DEF DataHangsUp
  <2>. QED  BY <1>1, <2>1, <2>2, <2>3, <2>4 DEF PeerStep
<1>2. ASSUME NEW c \in Clients, ForgetsRequest(c) PROVE TypeOK'
  BY <1>2 DEF TypeOK, ForgetsRequest, agentVars, sessionVars
<1>3. CASE UNCHANGED vars
  BY <1>3 DEF TypeOK, vars, agentVars, sessionVars, lineVars
<1>. QED
  BY <1>1, <1>2, <1>3, AgentStepTyped, ClientStepTyped, DataStepTyped DEF RelayMoves, Next

-----------------------------------------------------------------------------
(* The tables *)

LEMMA TablesTrueKept == TypeOK /\ TablesTrue /\ RelayMoves => TablesTrue'
<1>. SUFFICES ASSUME TypeOK, TablesTrue, RelayMoves PROVE TablesTrue'
  OBVIOUS
<1>. USE RelayAssumption DEF TypeOK, TablesTrue
<1>1. ASSUME NEW a \in Agents, AgentStep(a) PROVE TablesTrue'
  <2>1. CASE AgentRegisters(a)  BY <2>1 DEF AgentRegisters, sessionVars, lineVars
  <2>2. CASE AgentRefused(a)  BY <2>2 DEF AgentRefused, sessionVars, lineVars
  <2>3. CASE AgentEof(a)  BY <2>3 DEF AgentEof, sessionVars, lineVars
  <2>4. CASE AgentLeaves(a)  BY <2>4 DEF AgentLeaves, sessionVars, lineVars
  <2>. QED  BY <1>1, <2>1, <2>2, <2>3, <2>4 DEF AgentStep
<1>2. ASSUME NEW c \in Clients, ClientStep(c) PROVE TablesTrue'
  <2>. USE DEF agentVars, lineVars
  <2>1. ASSUME NEW reason, ClientRefused(c, reason) PROVE TablesTrue'  BY <2>1 DEF ClientRefused
  <2>2. CASE ClientAsks(c)  BY <2>2 DEF ClientAsks
  <2>3. CASE ClientAccepted(c)  BY <2>3 DEF ClientAccepted
  <2>4. CASE ClientOkFails(c)  BY <2>4 DEF ClientOkFails
  <2>5. CASE AgentWriteFails(c)  BY <2>5 DEF AgentWriteFails
  <2>6. CASE ClientPaired(c)  BY <2>6 DEF ClientPaired
  <2>7. CASE ClientTimeout(c)  BY <2>7 DEF ClientTimeout
  <2>8. CASE ClientGivesUp(c)  BY <2>8 DEF ClientGivesUp
  <2>9. CASE ClientDone(c)  BY <2>9 DEF ClientDone
  <2>. QED  BY <1>2, <2>1, <2>2, <2>3, <2>4, <2>5, <2>6, <2>7, <2>8, <2>9 DEF ClientStep
<1>3. ASSUME NEW c \in Clients, DataStep(c) PROVE TablesTrue'
  BY <1>3 DEF DataStep, DataPairs, DataRefused, PumpToClient, PipeEnds, agentVars, sessionVars
<1>4. CASE PeerStep
  BY <1>4 DEF PeerStep, AgentHangsUp, AgentDials, ClientHangsUp, DataHangsUp, agentVars, sessionVars
<1>5. ASSUME NEW c \in Clients, ForgetsRequest(c) PROVE TablesTrue'
  BY <1>5 DEF ForgetsRequest, agentVars, sessionVars
<1>6. CASE UNCHANGED vars  BY <1>6 DEF vars, agentVars, sessionVars
<1>. QED  BY <1>1, <1>2, <1>3, <1>4, <1>5, <1>6 DEF RelayMoves, Next

-----------------------------------------------------------------------------
(* The order of what the client reads *)

\* The ok line is what the client reads first, or nothing more reaches it.
Opened(c) ==
  \/ toClient[c] # <<>> /\ toClient[c][1] = "ok"
  \/ ~clientUp[c]
  \/ ~clientOpen[c]

\* Nothing is written, and nothing copied, before a client's handler is past
\* the lock; once it is past it, the stream has been opened.
StreamInv ==
  \A c \in Clients :
    /\ phase[c] = "new" => data[c] = "none" /\ c \notin pending
    /\ phase[c] \in {"new", "sending"} => toClient[c] = <<>> /\ data[c] # "piping"
    /\ phase[c] \notin {"new", "sending"} => Opened(c)

LEMMA WrittenKeepsOrder ==
  ASSUME TypeOK, NEW c \in Clients, NEW what \in {"ok", "error", "bytes"},
         NEW d \in Clients
  PROVE  /\ d # c => Written(c, what)[d] = toClient[d]
         /\ ~(clientUp[c] /\ clientOpen[c]) => Written(c, what) = toClient
         /\ toClient[c] # <<>> => Written(c, what)[c] # <<>>
                                  /\ Written(c, what)[c][1] = toClient[c][1]
         /\ clientUp[c] /\ clientOpen[c] /\ toClient[c] = <<>> =>
              Written(c, what)[c] = <<what>>
         /\ \A i \in DOMAIN Written(c, what)[c] :
              Written(c, what)[c][i] = what \/ (i \in DOMAIN toClient[c] /\ Written(c, what)[c][i] = toClient[c][i])
<1>. DEFINE q == toClient[c]
            r == Append(q, what)
            S == {"ok", "error", "bytes"}
<1>1. q \in Seq(S)  BY DEF TypeOK
<1>2. /\ r \in Seq(S) /\ r # <<>> /\ Len(r) = Len(q) + 1
      /\ \A i \in 1 .. Len(q) : r[i] = q[i]
      /\ r[Len(q) + 1] = what
  BY <1>1, AppendProperties
<1>3. Len(q) \in Nat /\ DOMAIN q = 1 .. Len(q) /\ DOMAIN r = 1 .. Len(r)
  BY <1>1, <1>2, LenProperties
<1>4. q # <<>> => r[1] = q[1]  BY <1>1, <1>2, <1>3, EmptySeq
<1>5. q = <<>> => r = <<what>>  BY <1>1
<1>6. \A i \in DOMAIN r : r[i] = what \/ (i \in DOMAIN q /\ r[i] = q[i])  BY <1>2, <1>3
<1>7. CASE clientUp[c] /\ clientOpen[c]
  <2>1. Written(c, what) = [toClient EXCEPT ![c] = r]  BY <1>7 DEF Written
  <2>2. Written(c, what)[c] = r  BY <2>1 DEF TypeOK
  <2>. QED  BY <1>2, <1>4, <1>5, <1>6, <1>7, <2>1, <2>2 DEF TypeOK
<1>8. CASE ~(clientUp[c] /\ clientOpen[c])
  BY <1>8 DEF Written
<1>. QED  BY <1>7, <1>8

\* Nothing a line or a chunk is written to closes, and nothing opens again.
LEMMA OpenedKept ==
  ASSUME TypeOK, NEW c \in Clients, Opened(c), NEW d \in Clients,
         NEW what \in {"ok", "error", "bytes"},
         toClient' = Written(d, what) \/ UNCHANGED toClient,
         clientUp'[c] => clientUp[c], clientOpen'[c] => clientOpen[c]
  PROVE  Opened(c)'
<1>1. CASE toClient' = Written(d, what)
  <2>1. CASE c = d  BY <1>1, <2>1, WrittenKeepsOrder DEF Opened
  <2>2. CASE c # d
    <3>1. toClient'[c] = toClient[c]  BY <1>1, <2>2, WrittenKeepsOrder
    <3>. QED  BY <3>1 DEF Opened
  <2>. QED  BY <2>1, <2>2
<1>2. CASE UNCHANGED toClient  BY <1>2 DEF Opened
<1>. QED  BY <1>1, <1>2

LEMMA ClientStepKeepsStream ==
  ASSUME TypeOK, StreamInv, NEW c \in Clients, ClientStep(c)
  PROVE  StreamInv'
<1>. USE DEF agentVars, lineVars
<1>0. ASSUME NEW d \in Clients, d # c, NEW what \in {"ok", "error"},
             toClient' = Written(c, what) \/ UNCHANGED toClient,
             phase'[d] = phase[d], data'[d] = data[d],
             d \in pending' => d \in pending,
             clientUp'[d] => clientUp[d], clientOpen'[d] => clientOpen[d]
      PROVE  /\ phase'[d] = "new" => data'[d] = "none" /\ d \notin pending'
             /\ phase'[d] \in {"new", "sending"} => toClient'[d] = <<>> /\ data'[d] # "piping"
             /\ phase'[d] \notin {"new", "sending"} => Opened(d)'
  <2>1. toClient'[d] = toClient[d]  BY <1>0, WrittenKeepsOrder
  <2>. QED  BY <1>0, <2>1 DEF StreamInv, Opened
<1>1. ASSUME NEW reason, ClientRefused(c, reason) PROVE StreamInv'
  <2>1. ~clientOpen'[c] /\ phase'[c] = "ended"  BY <1>1 DEF ClientRefused, TypeOK
  <2>. QED  BY <1>0, <1>1, <2>1 DEF ClientRefused, StreamInv, Opened, TypeOK
<1>2. CASE ClientAsks(c)
  BY <1>2 DEF ClientAsks, StreamInv, Opened, TypeOK
<1>3. CASE ClientAccepted(c)
  <2>1. Opened(c)'
    BY <1>3, WrittenKeepsOrder DEF ClientAccepted, StreamInv, Opened
  <2>2. phase'[c] = "wait"  BY <1>3 DEF ClientAccepted, TypeOK
  <2>. QED  BY <1>0, <1>3, <2>1, <2>2 DEF ClientAccepted, StreamInv, TypeOK
<1>4. CASE ClientOkFails(c)
  BY <1>4 DEF ClientOkFails, StreamInv, Opened, TypeOK
<1>5. CASE AgentWriteFails(c)
  <2>1. ~clientOpen'[c] /\ phase'[c] = "ended"  BY <1>5 DEF AgentWriteFails, TypeOK
  <2>. QED  BY <1>0, <1>5, <2>1 DEF AgentWriteFails, StreamInv, Opened, TypeOK
<1>6. CASE ClientPaired(c)
  BY <1>6 DEF ClientPaired, StreamInv, Opened, TypeOK
<1>7. CASE ClientTimeout(c)
  BY <1>7 DEF ClientTimeout, StreamInv, Opened, TypeOK
<1>8. CASE ClientGivesUp(c)
  <2>1. Opened(c)  BY <1>8 DEF ClientGivesUp, StreamInv
  <2>2. toClient' = Written(c, "error")  BY <1>8 DEF ClientGivesUp
  <2>3. /\ phase' = [phase EXCEPT ![c] = "ended"] /\ pending' = pending \ {c}
        /\ UNCHANGED <<clientUp, data>>
        /\ \A d \in Clients : clientOpen'[d] => clientOpen[d]
    BY <1>8 DEF ClientGivesUp, TypeOK
  <2>4. Opened(c)'  BY <2>1, <2>2, <2>3, OpenedKept
  <2>. QED  BY <1>0, <2>2, <2>3, <2>4 DEF StreamInv, TypeOK
<1>9. CASE ClientDone(c)
  BY <1>9 DEF ClientDone, StreamInv, Opened, TypeOK
<1>. QED  BY <1>1, <1>2, <1>3, <1>4, <1>5, <1>6, <1>7, <1>8, <1>9 DEF ClientStep

LEMMA DataStepKeepsStream ==
  ASSUME TypeOK, TablesTrue, StreamInv, NEW c \in Clients, DataStep(c)
  PROVE  StreamInv'
<1>. USE DEF agentVars, sessionVars, lineVars
<1>1. CASE DataPairs(c)
  <2>1. phase[c] \notin {"new", "sending"}
    BY <1>1 DEF DataPairs, LockFree, TablesTrue
  <2>. QED  BY <1>1, <2>1 DEF DataPairs, StreamInv, Opened, TypeOK
<1>2. CASE DataRefused(c)
  <2>1. phase[c] \notin {"new", "sending"}
    BY <1>2 DEF DataRefused, LockFree, StreamInv
  <2>. QED  BY <1>2, <2>1 DEF DataRefused, StreamInv, Opened, TypeOK
<1>3. CASE PumpToClient(c)
  <2>1. toClient' = Written(c, "bytes") /\ UNCHANGED <<phase, pending, clientUp, clientOpen, data>>
        /\ phase[c] \notin {"new", "sending"}
    BY <1>3 DEF PumpToClient, StreamInv
  <2>2. \A d \in Clients : Opened(d) => Opened(d)'  BY <2>1, OpenedKept
  <2>3. \A d \in Clients : d # c => toClient'[d] = toClient[d]  BY <2>1, WrittenKeepsOrder
  <2>. QED  BY <2>1, <2>2, <2>3 DEF StreamInv
<1>4. CASE PipeEnds(c)
  BY <1>4 DEF PipeEnds, StreamInv, Opened, TypeOK
<1>. QED  BY <1>1, <1>2, <1>3, <1>4 DEF DataStep

LEMMA StreamInvKept == TypeOK /\ TablesTrue /\ StreamInv /\ RelayMoves => StreamInv'
<1>. SUFFICES ASSUME TypeOK, TablesTrue, StreamInv, RelayMoves PROVE StreamInv'
  OBVIOUS
<1>1. ASSUME NEW a \in Agents, AgentStep(a) PROVE StreamInv'
  BY <1>1 DEF AgentStep, AgentRegisters, AgentRefused, AgentEof, AgentLeaves,
              sessionVars, lineVars, StreamInv, Opened
<1>2. CASE PeerStep
  <2>. USE DEF agentVars, sessionVars, lineVars, StreamInv, Opened
  <2>1. ASSUME NEW a \in Agents, AgentHangsUp(a) PROVE StreamInv'  BY <2>1 DEF AgentHangsUp
  <2>2. ASSUME NEW c \in Clients, AgentDials(c) PROVE StreamInv'  BY <2>2 DEF AgentDials, TypeOK
  <2>3. ASSUME NEW c \in Clients, ClientHangsUp(c) PROVE StreamInv'
    BY <2>3 DEF ClientHangsUp, TypeOK
  <2>4. ASSUME NEW c \in Clients, DataHangsUp(c) PROVE StreamInv'  BY <2>4 DEF DataHangsUp
  <2>. QED  BY <1>2, <2>1, <2>2, <2>3, <2>4 DEF PeerStep
<1>3. ASSUME NEW c \in Clients, ForgetsRequest(c) PROVE StreamInv'
  BY <1>3 DEF ForgetsRequest, agentVars, sessionVars, StreamInv, Opened, TypeOK
<1>4. CASE UNCHANGED vars
  BY <1>4 DEF vars, agentVars, sessionVars, lineVars, StreamInv, Opened
<1>. QED
  BY <1>1, <1>2, <1>3, <1>4, ClientStepKeepsStream, DataStepKeepsStream DEF RelayMoves, Next

LEMMA OkBeforeStreamKept == TypeOK /\ StreamInv /\ OkBeforeStream /\ RelayMoves => OkBeforeStream'
<1>. SUFFICES ASSUME TypeOK, StreamInv, OkBeforeStream, RelayMoves PROVE OkBeforeStream'
  OBVIOUS
<1>1. ASSUME NEW c \in Clients, NEW what \in {"ok", "error", "bytes"},
             toClient' = Written(c, what), what = "bytes" => Opened(c)
      PROVE  OkBeforeStream'
  <2>. SUFFICES ASSUME NEW d \in Clients, NEW i \in DOMAIN toClient'[d], toClient'[d][i] = "bytes"
                PROVE  toClient'[d][1] = "ok"
    BY DEF OkBeforeStream
  <2>1. CASE d # c
    <3>1. toClient'[d] = toClient[d]  BY <1>1, <2>1, WrittenKeepsOrder
    <3>. QED  BY <3>1 DEF OkBeforeStream
  <2>2. CASE d = c /\ toClient[c] = <<>>
    <3>1. toClient'[c] = <<what>> \/ toClient'[c] = <<>>
      BY <1>1, <2>2, WrittenKeepsOrder
    <3>2. ~(what = "bytes" /\ clientUp[c] /\ clientOpen[c])
      BY <1>1, <2>2 DEF Opened
    <3>3. toClient'[c] = <<>> \/ what # "bytes"
      BY <1>1, <2>2, <3>2, WrittenKeepsOrder
    <3>. QED  BY <2>2, <3>1, <3>3
  <2>3. CASE d = c /\ toClient[c] # <<>>
    <3>1. toClient'[c][1] = toClient[c][1]  BY <1>1, <2>3, WrittenKeepsOrder
    <3>2. CASE what = "bytes" /\ toClient'[c] # toClient[c]
      <4>1. clientUp[c] /\ clientOpen[c]  BY <1>1, <3>2, WrittenKeepsOrder
      <4>. QED  BY <1>1, <2>3, <3>1, <3>2, <4>1 DEF Opened
    <3>3. CASE what # "bytes"
      <4>1. i \in DOMAIN toClient[c] /\ toClient'[c][i] = toClient[c][i]
        BY <1>1, <2>3, <3>3, WrittenKeepsOrder
      <4>. QED  BY <2>3, <3>1, <4>1 DEF OkBeforeStream
    <3>4. CASE toClient'[c] = toClient[c]  BY <2>3, <3>4 DEF OkBeforeStream
    <3>. QED  BY <3>2, <3>3, <3>4
  <2>. QED  BY <2>1, <2>2, <2>3
<1>2. CASE UNCHANGED toClient  BY <1>2 DEF OkBeforeStream
<1>3. ASSUME NEW a \in Agents, AgentStep(a) PROVE UNCHANGED toClient
  BY <1>3 DEF AgentStep, AgentRegisters, AgentRefused, AgentEof, AgentLeaves, sessionVars
<1>4. ASSUME NEW c \in Clients, ClientStep(c)
      PROVE  UNCHANGED toClient \/ \E what \in {"ok", "error"} : toClient' = Written(c, what)
  BY <1>4 DEF ClientStep, ClientRefused, ClientAsks, ClientAccepted, ClientOkFails,
              AgentWriteFails, ClientPaired, ClientTimeout, ClientGivesUp, ClientDone
<1>5. ASSUME NEW c \in Clients, DataStep(c)
      PROVE  UNCHANGED toClient \/ (Opened(c) /\ toClient' = Written(c, "bytes"))
  BY <1>5 DEF DataStep, DataPairs, DataRefused, PumpToClient, PipeEnds, sessionVars, StreamInv
<1>6. PeerStep \/ (\E c \in Clients : ForgetsRequest(c)) \/ UNCHANGED vars => UNCHANGED toClient
  BY DEF PeerStep, AgentHangsUp, AgentDials, ClientHangsUp, DataHangsUp, ForgetsRequest,
         vars, sessionVars
<1>. QED  BY <1>1, <1>2, <1>3, <1>4, <1>5, <1>6 DEF RelayMoves, Next

-----------------------------------------------------------------------------
(* The relay *)

RelayInv == TypeOK /\ TablesTrue /\ StreamInv /\ OkBeforeStream

LEMMA InitRelayInv == Init => RelayInv
<1>. SUFFICES ASSUME Init PROVE RelayInv
  OBVIOUS
<1>1. TypeOK  BY InitTyped
<1>2. TablesTrue  BY DEF Init, TablesTrue
<1>3. StreamInv  BY DEF Init, StreamInv
<1>4. OkBeforeStream  BY DEF Init, OkBeforeStream
<1>. QED  BY <1>1, <1>2, <1>3, <1>4 DEF RelayInv

LEMMA RelayInvKept == RelayInv /\ RelayMoves => RelayInv'
  BY RelayMovesTyped, TablesTrueKept, StreamInvKept, OkBeforeStreamKept DEF RelayInv

LEMMA RelayInvHolds == Spec => []RelayInv
<1>1. RelayInv /\ [Next]_vars => RelayInv'  BY RelayInvKept DEF RelayMoves
<1>. QED  BY <1>1, InitRelayInv, PTL DEF Spec

\* The relay's tables tell the truth whatever its peers do.
THEOREM RelayTablesTrue == Spec => []TablesTrue
<1>1. RelayInv => TablesTrue  BY DEF RelayInv
<1>. QED  BY <1>1, RelayInvHolds, PTL

\* No byte of the adapter precedes the client's ok line, whatever the peers do.
THEOREM RelayOkBeforeStream == Spec => []OkBeforeStream
<1>1. RelayInv => OkBeforeStream  BY DEF RelayInv
<1>. QED  BY <1>1, RelayInvHolds, PTL

-----------------------------------------------------------------------------
(* The relay with its agent *)

\* The agent connects for a session it was asked for.
ConnectsAsAsked == step = "connect" => data[session] = "asked"

\* A data connection the agent has not hung up is the one of its session.
UpIsCurrent ==
  \A c \in Clients :
    data[c] \in {"hello", "piping"} /\ dataUp[c] =>
      session = c /\ step \in {"hello", "reopen", "stream"}

LEMMA CloseDataMoves ==
  ASSUME TypeOK, CloseData(session),
         UNCHANGED <<agentVars, sessionVars, clientUp, clientOpen, data>>
  PROVE  (\E c \in Clients : DataHangsUp(c)) \/ UNCHANGED vars
<1>1. CASE session \in Clients /\ dataUp[session]
  <2>1. DataHangsUp(session)  BY <1>1 DEF CloseData, DataHangsUp
  <2>. QED  BY <1>1, <2>1
<1>2. CASE ~(session \in Clients /\ dataUp[session])
  <2>1. dataUp' = dataUp  BY <1>2 DEF CloseData, TypeOK
  <2>. QED  BY <2>1 DEF vars, lineVars
<1>. QED  BY <1>1, <1>2

\* Of the agent the relay sees connections that are made and that end; and
\* requests may be forgotten.
LEMMA AgentIsAPeer ==
  ASSUME RemoteTypeOK, ConnectsAsAsked, [RemoteNext]_remoteVars
  PROVE  RelayMoves
<1>. USE AgentAssumption DEF RemoteTypeOK
<1>. DEFINE Moves == Next \/ UNCHANGED vars \/ \E c \in Clients : ForgetsRequest(c)
<1>. SUFFICES Moves
  BY DEF RelayMoves
<1>1. CASE RelayStep
  BY <1>1 DEF RelayStep, Next, AgentStep
<1>2. CASE LineBreaks
  BY <1>2 DEF LineBreaks, Next, PeerStep
<1>3. CASE SupervisorStep
  <2>1. ASSUME NEW a \in Agents, Dial(a) PROVE Moves  BY <2>1 DEF Dial
  <2>2. CASE Registered  BY <2>2 DEF Registered
  <2>3. CASE DialFails
    <3>1. CASE conn \in Agents /\ agentUp[conn]
      <4>1. AgentHangsUp(conn)  BY <2>3, <3>1 DEF DialFails, AgentHangsUp
      <4>. QED  BY <3>1, <4>1 DEF Next, PeerStep
    <3>2. CASE ~(conn \in Agents /\ agentUp[conn])
      <4>1. agentUp' = agentUp  BY <2>3, <3>2 DEF DialFails, TypeOK
      <4>. QED  BY <2>3, <4>1 DEF DialFails, vars, agentVars
    <3>. QED  BY <3>1, <3>2
  <2>4. ASSUME NEW c \in Clients, IgnoreSession(c) PROVE Moves
    BY <2>4 DEF IgnoreSession, Asked, ForgetsRequest
  <2>5. ASSUME NEW c \in Clients, OpenSession(c) PROVE Moves  BY <2>5 DEF OpenSession
  <2>6. CASE ControlEnds
    <3>1. CASE session = NoClient
      BY <2>6, <3>1 DEF ControlEnds, vars, lineVars
    <3>2. CASE session # NoClient
      BY <2>6, <3>2, CloseDataMoves DEF ControlEnds, Next, PeerStep
    <3>. QED  BY <3>1, <3>2
  <2>. QED  BY <1>3, <2>1, <2>2, <2>3, <2>4, <2>5, <2>6 DEF SupervisorStep
<1>4. ASSUME Leave PROVE Moves
  BY <1>4, CloseDataMoves DEF Leave, Next, PeerStep
<1>5. CASE SessionStep
  <2>1. CASE Connect  BY <2>1 DEF Connect, Next, PeerStep
  <2>2. CASE ConnectFails  BY <2>2 DEF ConnectFails, ForgetsRequest, ConnectsAsAsked
  <2>3. CASE Accepted  BY <2>3 DEF Accepted
  <2>4. CASE HelloFails  BY <1>4, <2>4 DEF HelloFails
  <2>5. CASE SerialOpens  BY <2>5 DEF SerialOpens
  <2>6. CASE SerialFails  BY <1>4, <2>6 DEF SerialFails
  <2>7. CASE NetEnds  BY <1>4, <2>7 DEF NetEnds
  <2>8. CASE SessionDone  BY <2>8 DEF SessionDone
  <2>. QED  BY <1>5, <2>1, <2>2, <2>3, <2>4, <2>5, <2>6, <2>7, <2>8 DEF SessionStep
<1>6. CASE SerialEnds  BY <1>4, <1>6 DEF SerialEnds
<1>7. ASSUME NEW c \in Clients, ClientCloses(c) PROVE Moves
  BY <1>7 DEF ClientCloses, Next, PeerStep
<1>8. CASE UNCHANGED remoteVars  BY <1>8 DEF remoteVars
<1>. QED
  BY <1>1, <1>2, <1>3, <1>5, <1>6, <1>7, <1>8 DEF RemoteNext

RemoteInv ==
  /\ RelayInv
  /\ RemoteTypeOK
  /\ ConnectsAsAsked
  /\ UpIsCurrent

LEMMA InitRemoteInv == RemoteInit => RemoteInv
<1>. SUFFICES ASSUME RemoteInit PROVE RemoteInv
  OBVIOUS
<1>1. RelayInv  BY InitRelayInv DEF RemoteInit
<1>2. RemoteTypeOK  BY <1>1, AgentAssumption DEF RemoteInit, RemoteTypeOK, RelayInv
<1>3. ConnectsAsAsked  BY DEF RemoteInit, ConnectsAsAsked
<1>4. UpIsCurrent  BY DEF RemoteInit, Init, UpIsCurrent
<1>. QED  BY <1>1, <1>2, <1>3, <1>4 DEF RemoteInv

LEMMA RemoteTypeOKKept ==
  ASSUME RemoteTypeOK, ConnectsAsAsked, [RemoteNext]_remoteVars
  PROVE  RemoteTypeOK'
<1>1. TypeOK'  BY AgentIsAPeer, RelayMovesTyped DEF RemoteTypeOK
<1>. USE <1>1, AgentAssumption DEF RemoteTypeOK, agentProc, Fails
<1>2. CASE RelayStep /\ UNCHANGED <<agentProc, failures>>  BY <1>2
<1>3. CASE LineBreaks  BY <1>3 DEF LineBreaks
<1>4. CASE SupervisorStep
  <2>1. ASSUME NEW a \in Agents, Dial(a) PROVE RemoteTypeOK'  BY <2>1 DEF Dial
  <2>2. CASE Registered  BY <2>2 DEF Registered
  <2>3. CASE DialFails  BY <2>3 DEF DialFails
  <2>4. ASSUME NEW c \in Clients, IgnoreSession(c) PROVE RemoteTypeOK'  BY <2>4 DEF IgnoreSession
  <2>5. ASSUME NEW c \in Clients, OpenSession(c) PROVE RemoteTypeOK'
    BY <2>5 DEF OpenSession, Asked
  <2>6. CASE ControlEnds  BY <2>6 DEF ControlEnds
  <2>. QED  BY <1>4, <2>1, <2>2, <2>3, <2>4, <2>5, <2>6 DEF SupervisorStep
<1>5. CASE SessionStep
  BY <1>5 DEF SessionStep, Connect, ConnectFails, Accepted, HelloFails, SerialOpens,
              SerialFails, NetEnds, SessionDone, Leave
<1>6. CASE SerialEnds  BY <1>6 DEF SerialEnds, Leave
<1>7. ASSUME NEW c \in Clients, ClientCloses(c) PROVE RemoteTypeOK'
  BY <1>7 DEF ClientCloses
<1>8. CASE UNCHANGED remoteVars  BY <1>8 DEF remoteVars
<1>. QED  BY <1>2, <1>3, <1>4, <1>5, <1>6, <1>7, <1>8 DEF RemoteNext

\* What the relay itself does to a data connection.
LEMMA RelayStepOnData ==
  ASSUME RelayInv, RelayStep
  PROVE  /\ UNCHANGED dataUp
         /\ \A c \in Clients : data[c] = "asked" => data'[c] = "asked"
         /\ \A c \in Clients : data'[c] \in {"hello", "piping"} => data[c] \in {"hello", "piping"}
<1>. USE DEF RelayInv, TypeOK, agentVars, sessionVars, lineVars
<1>1. ASSUME NEW a \in Agents, AgentStep(a) PROVE UNCHANGED <<data, dataUp>>
  BY <1>1 DEF AgentStep, AgentRegisters, AgentRefused, AgentEof, AgentLeaves
<1>2. ASSUME NEW c \in Clients, ClientStep(c)
      PROVE  /\ UNCHANGED dataUp
             /\ UNCHANGED data \/ (ClientAsks(c) /\ data[c] = "none")
  BY <1>2 DEF ClientStep, ClientRefused, ClientAsks, ClientAccepted, ClientOkFails,
              AgentWriteFails, ClientPaired, ClientTimeout, ClientGivesUp, ClientDone, StreamInv
<1>3. ASSUME NEW c \in Clients, ClientAsks(c), data[c] = "none"
      PROVE  \A d \in Clients : data'[d] = data[d] \/ (data[d] = "none" /\ data'[d] = "asked")
  BY <1>3 DEF ClientAsks
<1>4. ASSUME NEW c \in Clients, DataStep(c)
      PROVE  /\ UNCHANGED dataUp
             /\ \A d \in Clients : data'[d] = data[d] \/ (data[d] \in {"hello", "piping"} /\ data'[d] # "asked")
  BY <1>4 DEF DataStep, DataPairs, DataRefused, PumpToClient, PipeEnds
<1>. QED  BY <1>1, <1>2, <1>3, <1>4 DEF RelayStep, AgentStep

LEMMA ConnectsAsAskedKept ==
  ASSUME RelayInv, RemoteTypeOK, ConnectsAsAsked, [RemoteNext]_remoteVars
  PROVE  ConnectsAsAsked'
<1>. USE AgentAssumption DEF RemoteTypeOK, ConnectsAsAsked, agentProc
<1>1. CASE RelayStep /\ UNCHANGED <<agentProc, failures>>
  BY <1>1, RelayStepOnData
<1>2. CASE LineBreaks
  BY <1>2 DEF LineBreaks, AgentHangsUp, DataHangsUp, ClientHangsUp, sessionVars, lineVars
<1>3. CASE SupervisorStep
  <2>1. ASSUME NEW a \in Agents, Dial(a) PROVE ConnectsAsAsked'
    BY <2>1 DEF Dial, vars, lineVars
  <2>2. CASE Registered  BY <2>2 DEF Registered, vars, lineVars
  <2>3. CASE DialFails  BY <2>3 DEF DialFails, lineVars
  <2>4. ASSUME NEW c \in Clients, IgnoreSession(c) PROVE ConnectsAsAsked'
    BY <2>4 DEF IgnoreSession, Asked, TypeOK
  <2>5. ASSUME NEW c \in Clients, OpenSession(c) PROVE ConnectsAsAsked'
    BY <2>5 DEF OpenSession, Asked, vars, lineVars
  <2>6. CASE ControlEnds  BY <2>6 DEF ControlEnds
  <2>. QED  BY <1>3, <2>1, <2>2, <2>3, <2>4, <2>5, <2>6 DEF SupervisorStep
<1>4. CASE SessionStep
  BY <1>4 DEF SessionStep, Connect, ConnectFails, Accepted, HelloFails, SerialOpens,
              SerialFails, NetEnds, SessionDone, Leave
<1>5. CASE SerialEnds  BY <1>5 DEF SerialEnds, Leave
<1>6. ASSUME NEW c \in Clients, ClientCloses(c) PROVE ConnectsAsAsked'
  BY <1>6 DEF ClientCloses, ClientHangsUp
<1>7. CASE UNCHANGED remoteVars  BY <1>7 DEF remoteVars, vars, lineVars
<1>. QED  BY <1>1, <1>2, <1>3, <1>4, <1>5, <1>6, <1>7 DEF RemoteNext

LEMMA UpIsCurrentKept ==
  ASSUME RelayInv, RemoteTypeOK, UpIsCurrent, [RemoteNext]_remoteVars
  PROVE  UpIsCurrent'
<1>. USE AgentAssumption DEF RemoteTypeOK, UpIsCurrent, agentProc, TypeOK
<1>1. CASE RelayStep /\ UNCHANGED <<agentProc, failures>>
  BY <1>1, RelayStepOnData
<1>2. CASE LineBreaks
  BY <1>2 DEF LineBreaks, AgentHangsUp, DataHangsUp, ClientHangsUp, sessionVars, lineVars
<1>3. CASE SupervisorStep
  <2>1. ASSUME NEW a \in Agents, Dial(a) PROVE UpIsCurrent'  BY <2>1 DEF Dial, vars, lineVars
  <2>2. CASE Registered  BY <2>2 DEF Registered, vars, lineVars
  <2>3. CASE DialFails  BY <2>3 DEF DialFails, lineVars
  <2>4. ASSUME NEW c \in Clients, IgnoreSession(c) PROVE UpIsCurrent'
    BY <2>4 DEF IgnoreSession
  <2>5. ASSUME NEW c \in Clients, OpenSession(c) PROVE UpIsCurrent'
    BY <2>5 DEF OpenSession, vars, lineVars
  <2>6. CASE ControlEnds  BY <2>6 DEF ControlEnds, CloseData
  <2>. QED  BY <1>3, <2>1, <2>2, <2>3, <2>4, <2>5, <2>6 DEF SupervisorStep
<1>4. ASSUME Leave PROVE UpIsCurrent'  BY <1>4 DEF Leave, CloseData
<1>5. CASE SessionStep
  <2>1. CASE Connect  BY <2>1 DEF Connect, AgentDials
  <2>2. CASE ConnectFails  BY <2>2 DEF ConnectFails
  <2>3. CASE Accepted  BY <2>3 DEF Accepted, vars, lineVars
  <2>4. CASE SerialOpens  BY <2>4 DEF SerialOpens, vars, lineVars
  <2>5. CASE SessionDone  BY <2>5 DEF SessionDone, vars, lineVars
  <2>. QED
    BY <1>4, <1>5, <2>1, <2>2, <2>3, <2>4, <2>5 DEF SessionStep, HelloFails, SerialFails, NetEnds
<1>6. CASE SerialEnds  BY <1>4, <1>6 DEF SerialEnds
<1>7. ASSUME NEW c \in Clients, ClientCloses(c) PROVE UpIsCurrent'
  BY <1>7 DEF ClientCloses, ClientHangsUp
<1>8. CASE UNCHANGED remoteVars  BY <1>8 DEF remoteVars, vars, lineVars
<1>. QED  BY <1>1, <1>2, <1>3, <1>5, <1>6, <1>7, <1>8 DEF RemoteNext

LEMMA RemoteInvHolds == RemoteSpec => []RemoteInv
<1>1. RemoteInv /\ [RemoteNext]_remoteVars => RemoteInv'
  <2>. SUFFICES ASSUME RemoteInv, [RemoteNext]_remoteVars PROVE RemoteInv'
    OBVIOUS
  <2>1. RelayInv'  BY AgentIsAPeer, RelayInvKept DEF RemoteInv
  <2>2. RemoteTypeOK'  BY RemoteTypeOKKept DEF RemoteInv
  <2>3. ConnectsAsAsked'  BY ConnectsAsAskedKept DEF RemoteInv
  <2>4. UpIsCurrent'  BY UpIsCurrentKept DEF RemoteInv
  <2>. QED  BY <2>1, <2>2, <2>3, <2>4 DEF RemoteInv
<1>. QED  BY <1>1, InitRemoteInv, PTL DEF RemoteSpec

\* RelayAgent keeps its types, and the session task runs only while served.
THEOREM RemoteTypeCorrect == RemoteSpec => []RemoteTypeOK
<1>1. RemoteInv => RemoteTypeOK  BY DEF RemoteInv
<1>. QED  BY <1>1, RemoteInvHolds, PTL

\* The relay's tables tell the truth with this agent as well.
THEOREM RemoteTablesTrue == RemoteSpec => []TablesTrue
<1>1. RemoteInv => TablesTrue  BY DEF RemoteInv, RelayInv
<1>. QED  BY <1>1, RemoteInvHolds, PTL

\* Nor does a byte of the adapter precede the client's ok line with it.
THEOREM RemoteOkBeforeStream == RemoteSpec => []OkBeforeStream
<1>1. RemoteInv => OkBeforeStream  BY DEF RemoteInv, RelayInv
<1>. QED  BY <1>1, RemoteInvHolds, PTL

\* However often connections break and sessions are given up, the adapter is
\* never joined to two clients.
THEOREM RemoteOneClient == RemoteSpec => []OneClientAtATime
<1>1. RemoteInv => OneClientAtATime  BY DEF RemoteInv, UpIsCurrent, OneClientAtATime
<1>. QED  BY <1>1, RemoteInvHolds, PTL
=============================================================================
