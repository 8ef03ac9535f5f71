-------------------------------- MODULE Uds --------------------------------
(***************************************************************************)
(* uds_async/client.py and server.py: UdsClient._request at one end of a   *)
(* pair of PDU channels and UdsServer.serve_forever at the other.          *)
(*                                                                         *)
(* Nothing in a UDS answer says which request it answers but the service.  *)
(* Requests are numbered here so that properties can tell; neither end     *)
(* looks at the number.  A PDU that is not there yet and one that takes    *)
(* too long to come look the same to recv_pdu, so what is on its way waits *)
(* in the other end's inbox.                                               *)
(***************************************************************************)
EXTENDS Integers, Sequences, FiniteSets

CONSTANTS
  Services,
  LongRequests,\* services whose requests may take more than one frame
  Handled,     \* services the server has a handler for
  MaxRequests, \* bound: requests of the client
  MaxPending,  \* bound: pending responses to one request
  MaxLost      \* bound: PDUs lost

ASSUME UdsAssumption ==
  /\ LongRequests \subseteq Services
  /\ Handled \subseteq Services
  /\ {MaxRequests, MaxPending, MaxLost} \subseteq Nat

VARIABLES
  cTask, cReceived,  \* the client's channel
  sTask, sReceived,  \* the server's channel
  toServer, toClient,
  asked,     \* the requests so far, the last one the current one
  outcomes,  \* how they ended
  serving,   \* serve_forever has not ended
  handling,  \* the request the server's loop works on, or NoRequest
  failed,    \* an exception is being handled
  pendings,  \* pending responses sent while handling
  closed,    \* requests the server is done with, and how
  lost

clientChannel == <<cTask, cReceived>>
serverChannel == <<sTask, sReceived>>
client == <<asked, outcomes>>
server == <<serving, handling, failed, pendings, closed>>
vars == <<clientChannel, serverChannel, toServer, toClient, client, server, lost>>

Pdu(kind, no, sid, long) == [kind |-> kind, no |-> no, sid |-> sid, long |-> long]
LongPdu(p) == p.long
Pdus == [kind : {"request", "positive", "negative", "pending"}, no : 1 .. MaxRequests,
         sid : Services, long : BOOLEAN]
NoRequest == <<>>

\* Each end is the other's environment, so that raised, which is for Arrive to
\* look at, is of no use.
Client ==
  INSTANCE PduChannel WITH Long <- LongPdu, task <- cTask, outbox <- toServer,
    raised <- TRUE, inbox <- toClient, received <- cReceived

Server ==
  INSTANCE PduChannel WITH Long <- LongPdu, task <- sTask, outbox <- toClient,
    raised <- TRUE, inbox <- toServer, received <- sReceived

Init ==
  /\ cTask = "idle" /\ cReceived = <<"none">>
  /\ sTask = "idle" /\ sReceived = <<"none">>
  /\ toServer = <<>> /\ toClient = <<>>
  /\ asked = <<>> /\ outcomes = <<>>
  /\ serving = TRUE /\ handling = NoRequest /\ failed = FALSE /\ pendings = 0
  /\ closed = [r \in 1 .. MaxRequests |-> "no"]
  /\ lost = 0

-----------------------------------------------------------------------------
(* UdsClient._request and the checks its callers make *)

Calling == Len(asked) > Len(outcomes)
Ends(how, no) == outcomes' = Append(outcomes, [how |-> how, no |-> no]) /\ UNCHANGED asked
ServerSleeps == UNCHANGED <<serverChannel, server, lost>>

\* One call after another: _request has no lock of its own.
Request(sid, long) ==
  LET p == Pdu("request", Len(asked) + 1, sid, long)
  IN  /\ long => sid \in LongRequests
      /\ ~Calling /\ Len(asked) < MaxRequests
      /\ Client!SendShort(p) \/ Client!SendLong(p)
      /\ asked' = Append(asked, sid)
      /\ UNCHANGED outcomes
      /\ ServerSleeps

ClientSent == Client!SendReturns /\ UNCHANGED client /\ ServerSleeps

ClientSendFails ==
  /\ Client!SendRaises \/ Client!SendTakes
  /\ Ends("raised", 0)
  /\ ServerSleeps

ClientReceives ==
  /\ Calling
  /\ Client!RecvPdu \/ Client!RecvLong
  /\ UNCHANGED client
  /\ ServerSleeps

\* Mutant: what is no answer is waited out.
ClientTimeoutContinues ==
  /\ Client!RecvNothing
  /\ UNCHANGED client
  /\ ServerSleeps

\* TimeoutError; None, for a tester_present that asked for no answer.
ClientTimeout ==
  /\ Client!RecvNothing
  /\ Ends("timeout", 0)
  /\ ServerSleeps

ClientRecvFails ==
  /\ Client!RecvRaises
  /\ Ends("raised", 0)
  /\ ServerSleeps

\* Mutant: a pending response is a negative one like any other.
AnswersAny(p) == TRUE

Answers(p) == p.kind # "pending"

ClientPending ==
  /\ Client!RecvShort
  /\ ~Answers(Head(toClient).pdu)
  /\ UNCHANGED client
  /\ ServerSleeps

\* The service of a positive answer is looked at, and nothing else.
ClientAnswered ==
  LET p == Head(toClient).pdu
  IN  /\ Client!RecvShort
      /\ Answers(p)
      /\ IF p.kind = "positive" /\ p.sid # asked[Len(asked)]
         THEN Ends("unexpected", p.no)
         ELSE Ends("answer", p.no)
      /\ ServerSleeps

-----------------------------------------------------------------------------
(* UdsServer.serve_forever *)

Handling == handling # NoRequest
ClientSleeps == UNCHANGED <<clientChannel, client, lost>>

\* The loop's top again.
Done(how) ==
  /\ closed' = [closed EXCEPT ![handling.no] = how]
  /\ handling' = NoRequest /\ failed' = FALSE /\ pendings' = 0
  /\ UNCHANGED serving

ServerReceives ==
  /\ serving /\ ~Handling
  /\ Server!RecvPdu \/ Server!RecvLong \/ Server!RecvNothing
  /\ UNCHANGED server
  /\ ClientSleeps

ServerTakes ==
  /\ serving /\ Server!RecvShort
  /\ handling' = Head(toServer).pdu
  /\ UNCHANGED <<serving, failed, pendings, closed>>
  /\ ClientSleeps

\* No clause catches what recv_pdu raises.
ServerRecvFails ==
  /\ Server!RecvRaises
  /\ serving' = FALSE
  /\ UNCHANGED <<handling, failed, pendings, closed>>
  /\ ClientSleeps

\* CancelledError: the loop's own break, or through everything else.
ServerCancelled ==
  /\ serving /\ serving' = FALSE
  /\ sTask' = "idle"
  /\ closed' = IF Handling THEN [closed EXCEPT ![handling.no] = "cancelled"] ELSE closed
  /\ handling' = NoRequest /\ failed' = FALSE /\ pendings' = 0
  /\ UNCHANGED <<sReceived, toServer, toClient>>
  /\ ClientSleeps

Responds(kind) == Server!SendShort(Pdu(kind, handling.no, handling.sid, FALSE))

UnknownService ==
  /\ Handling /\ handling.sid \notin Handled
  /\ Responds("negative") /\ Done("answered")
  /\ ClientSleeps

InHandler == Handling /\ handling.sid \in Handled /\ ~failed /\ sTask = "idle"

HandlerSilent ==
  /\ InHandler
  /\ Done("silent")
  /\ UNCHANGED <<serverChannel, toServer, toClient>>
  /\ ClientSleeps

HandlerReturns ==
  /\ InHandler
  /\ Responds("positive") /\ Done("answered")
  /\ ClientSleeps

HandlerReturnsLong ==
  /\ InHandler
  /\ Server!SendLong(Pdu("positive", handling.no, handling.sid, TRUE))
  /\ UNCHANGED server
  /\ ClientSleeps

ServerSent ==
  /\ Server!SendReturns /\ Done("answered")
  /\ ClientSleeps

\* send_pdu is called inside the try.
ServerSendFails ==
  /\ Server!SendRaises \/ Server!SendTakes
  /\ failed' = TRUE
  /\ UNCHANGED <<serving, handling, pendings, closed>>
  /\ ClientSleeps

\* UdsNegativeResponse, with any code: 0x78 makes it a pending response that
\* nothing follows.
HandlerRaisesNegative ==
  /\ InHandler
  /\ \/ Responds("negative") /\ Done("answered")
     \/ Responds("pending") /\ Done("silent")
  /\ ClientSleeps

HandlerRaises ==
  /\ InHandler
  /\ failed' = TRUE
  /\ UNCHANGED <<serverChannel, toServer, toClient, serving, handling, pendings, closed>>
  /\ ClientSleeps

\* Mutant: there is a clause for UdsNegativeResponse only.
GeneralFailureUncaught ==
  /\ Handling /\ failed
  /\ serving' = FALSE /\ handling' = NoRequest /\ failed' = FALSE /\ pendings' = 0
  /\ UNCHANGED <<serverChannel, toServer, toClient, closed>>
  /\ ClientSleeps

\* 0x72, for what the handler or its answer's send_pdu raised.
GeneralFailure ==
  /\ Handling /\ failed
  /\ Responds("negative") /\ Done("answered")
  /\ ClientSleeps

\* External: a handler that needs time may say so over its channel.
HandlerSendsPending ==
  /\ InHandler /\ pendings < MaxPending
  /\ Responds("pending") /\ pendings' = pendings + 1
  /\ UNCHANGED <<serving, handling, failed, closed>>
  /\ ClientSleeps

-----------------------------------------------------------------------------
\* External: PDUs get lost on the bus and in the transports' queues.
LosePdu ==
  /\ lost < MaxLost
  /\ \/ Client!Lose /\ UNCHANGED serverChannel
     \/ Server!Lose /\ UNCHANGED clientChannel
  /\ lost' = lost + 1
  /\ UNCHANGED <<client, server>>

ClientRuns ==
  \/ ClientSent
  \/ ClientSendFails
  \/ ClientReceives
  \/ ClientTimeout
  \/ ClientRecvFails
  \/ ClientPending
  \/ ClientAnswered

ServerRuns ==
  \/ ServerReceives
  \/ ServerTakes
  \/ ServerRecvFails
  \/ UnknownService
  \/ HandlerSilent
  \/ HandlerReturns
  \/ HandlerReturnsLong
  \/ ServerSent
  \/ ServerSendFails
  \/ HandlerRaisesNegative
  \/ HandlerRaises
  \/ GeneralFailure
  \/ HandlerSendsPending

Next ==
  \/ \E sid \in Services, long \in BOOLEAN : Request(sid, long)
  \/ ClientRuns
  \/ ServerRuns
  \/ ServerCancelled
  \/ LosePdu

\* Both tasks run, waits with a timeout end, and handlers come to an end.
Spec == Init /\ [][Next]_vars /\ WF_vars(ClientRuns) /\ WF_vars(ServerRuns)

-----------------------------------------------------------------------------
(* Properties *)

GaveUp(r) == outcomes[r].how \in {"timeout", "raised"}

\* Answers are given out in the order of their requests and none is given
\* twice; and the client is behind by at most one answer for each request it
\* gave up on: a client that never gave up gets the answer to what it asked.
AnswersMatch ==
  LET taken == {r \in DOMAIN outcomes : outcomes[r].no # 0}
  IN  /\ \A r \in taken :
           /\ outcomes[r].no <= r
           /\ r - outcomes[r].no <= Cardinality({q \in 1 .. r - 1 : GaveUp(q)})
      /\ \A q, r \in taken : q < r => outcomes[q].no < outcomes[r].no

\* A request of the client comes to an end, however many pending responses
\* there are, whatever is lost and whether or not there is a server.
RequestEnds == Calling ~> ~Calling

\* A request the server took is answered, unless its handler returns None or
\* asks for patience, or the server is cancelled: no handler and no answer that
\* cannot be sent stops the server.
TakenIsAnswered ==
  \A r \in 1 .. MaxRequests :
    Handling /\ handling.no = r ~> closed[r] # "no"
=============================================================================
