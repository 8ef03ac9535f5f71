----------------------------- MODULE RelayAgent -----------------------------
(***************************************************************************)
(* carbus_async/remote/agent.py and remote/client.py around RelayServer:   *)
(* an agent's supervisor, its control loop and its data session, which     *)
(* joins the adapter's serial port to the relay; and open_remote_device,   *)
(* which asks the relay for it.                                            *)
(*                                                                         *)
(* The agent has one control connection at a time, so Agents are the       *)
(* connections the supervisor makes one after the other.                   *)
(***************************************************************************)
EXTENDS RelayServer

CONSTANTS
  NoClient,
  MaxFailures  \* bound: breakdowns, timeouts of the agent, users that give up

ASSUME AgentAssumption ==
  /\ NoClient \notin Clients
  /\ MaxFailures \in Nat
  /\ \A a, b \in Agents : SerialOf[a] = SerialOf[b]

VARIABLES
  sup,      \* agent_supervisor: waiting to reconnect, dialing, serving, or gone
  conn,     \* its control connection, the last one or the current one
  session,  \* the client active_data_task works for, NoClient when it is done
  step,     \* where open_data_session is
  failures

agentProc == <<sup, conn, session, step>>
remoteVars == <<vars, agentProc, failures>>

RemoteTypeOK ==
  /\ TypeOK
  /\ sup \in {"backoff", "dialing", "serving", "exited"}
  /\ conn \in Agents \cup {NoAgent}
  /\ session \in Clients \cup {NoClient}
  /\ step \in {"none", "connect", "hello", "reopen", "stream", "closing"}
  /\ failures \in 0 .. MaxFailures
  /\ step = "none" <=> session = NoClient
  /\ session # NoClient => sup = "serving"

RemoteInit ==
  /\ Init
  /\ sup = "backoff" /\ conn = NoAgent
  /\ session = NoClient /\ step = "none"
  /\ failures = 0

Fails == failures < MaxFailures /\ failures' = failures + 1

-----------------------------------------------------------------------------
(* agent_supervisor and agent_run_once *)

\* A connection that cannot be made leaves everything as it is.
Dial(a) ==
  /\ sup = "backoff"
  /\ agentPhase[a] = "new" /\ agentUp[a]
  /\ sup' = "dialing" /\ conn' = a
  /\ UNCHANGED <<vars, session, step, failures>>

\* The relay's ok line; it may still be read from a connection that is down.
Registered ==
  /\ sup = "dialing"
  /\ agentPhase[conn] \in {"serving", "leaving"}
  /\ sup' = "serving"
  /\ UNCHANGED <<vars, conn, session, step, failures>>

\* No ok line in time, or the end of the connection: it is closed.
DialFails ==
  /\ sup = "dialing"
  /\ sup' = "backoff"
  /\ IF agentUp[conn] THEN Fails ELSE UNCHANGED failures
  /\ agentUp' = [agentUp EXCEPT ![conn] = FALSE]
  /\ UNCHANGED <<registry, agentPhase, sessionVars, lineVars, conn, session, step>>

Asked(c) == sup = "serving" /\ data[c] = "asked" /\ askedOf[c] = conn /\ session # c

\* open_session while a data session runs is ignored.  (Two requests that wait
\* to be read are taken in either order.)
IgnoreSession(c) ==
  /\ Asked(c)
  /\ session # NoClient
  /\ data' = [data EXCEPT ![c] = "none"]
  /\ UNCHANGED <<agentVars, sessionVars, clientUp, clientOpen, dataUp, agentProc, failures>>

OpenSession(c) ==
  /\ Asked(c)
  /\ session = NoClient
  /\ session' = c /\ step' = "connect"
  /\ UNCHANGED <<vars, sup, conn, failures>>

\* The agent's end of the data connection is closed, if there is one.
CloseData(c) == dataUp' = [dataUp EXCEPT ![c] = FALSE]

\* The end of the control connection.  A data session in progress is cancelled,
\* which closes its connection; awaiting it raises CancelledError, no Exception,
\* and so the supervisor ends too.
ControlEnds ==
  /\ sup = "serving"
  /\ ~agentUp[conn]
  /\ IF session = NoClient
     THEN sup' = "backoff" /\ UNCHANGED <<session, step, dataUp>>
     ELSE sup' = "exited" /\ session' = NoClient /\ step' = "none" /\ CloseData(session)
  /\ UNCHANGED <<agentVars, sessionVars, clientUp, clientOpen, data, conn, failures>>

-----------------------------------------------------------------------------
(* open_data_session *)

Connect ==
  /\ step = "connect"
  /\ AgentDials(session)
  /\ step' = "hello"
  /\ UNCHANGED <<sup, conn, session, failures>>

ConnectFails ==
  /\ step = "connect"
  /\ Fails
  /\ step' = "closing"
  /\ data' = [data EXCEPT ![session] = "none"]
  /\ UNCHANGED <<agentVars, sessionVars, clientUp, clientOpen, dataUp, sup, conn, session>>

\* Its ok line is written in the step that pairs.
Accepted ==
  /\ step = "hello"
  /\ piped[session]
  /\ step' = "reopen"
  /\ UNCHANGED <<vars, sup, conn, session, failures>>

\* Mutant: only the serial port is closed on the way out.
LeaveOpen == step' = "closing" /\ UNCHANGED <<vars, sup, conn, session>>

\* The finally clause: the connection to the relay is closed, and waited for.
Leave ==
  /\ step' = "closing"
  /\ CloseData(session)
  /\ UNCHANGED <<agentVars, sessionVars, clientUp, clientOpen, data, sup, conn, session>>

\* Mutant: only a broken connection ends a session, not the end of its data.
NetBroken == ~dataUp[session]

NetEnded == data[session] = "ended" \/ ~dataUp[session]

\* The relay refuses the session or hangs up, or says nothing in time.
HelloFails ==
  /\ step = "hello"
  /\ IF NetEnded THEN UNCHANGED failures ELSE Fails
  /\ Leave

SerialOpens ==
  /\ step = "reopen"
  /\ step' = "stream"
  /\ UNCHANGED <<vars, sup, conn, session, failures>>

\* All attempts to open the port failed.
SerialFails == step = "reopen" /\ Fails /\ Leave

\* pipe_bidirectional_streams: the relay closed the connection, or it broke.
NetEnds == step = "stream" /\ NetEnded /\ Leave /\ UNCHANGED failures

\* External: the adapter is unplugged.
SerialEnds == step = "stream" /\ Fails /\ Leave

\* Mutant: the task ends, but active_data_task is looked at as if it ran.
SessionDoneKeepsStep ==
  /\ step = "closing"
  /\ session' = NoClient
  /\ UNCHANGED <<vars, sup, conn, step, failures>>

SessionDone ==
  /\ step = "closing"
  /\ session' = NoClient /\ step' = "none"
  /\ UNCHANGED <<vars, sup, conn, failures>>

-----------------------------------------------------------------------------
(* open_remote_device *)

\* The first line is ok: the stream becomes a CarBusDevice.
HasDevice(c) == toClient[c] # <<>> /\ Head(toClient[c]) = "ok"

\* Any other line: the stream is closed, before or after the relay does so.
ClientCloses(c) ==
  /\ toClient[c] # <<>> /\ ~HasDevice(c)
  /\ ClientHangsUp(c)
  /\ UNCHANGED <<agentProc, failures>>

-----------------------------------------------------------------------------
\* The relay reads the hello of the connection that was dialed; the agent's
\* has a serial number and a password, but may come too late.
RelayStep ==
  \/ \E a \in Agents :
       AgentEof(a) \/ AgentLeaves(a) \/ (a = conn /\ (AgentRegisters(a) \/ AgentRefused(a)))
  \/ \E c \in Clients : ClientStep(c) \/ DataStep(c)

\* External: connections break, and users close their devices or give up.
LineBreaks ==
  /\ Fails
  /\ \/ conn # NoAgent /\ AgentHangsUp(conn)
     \/ \E c \in Clients : DataHangsUp(c) \/ ClientHangsUp(c)
  /\ UNCHANGED agentProc

SessionStep ==
  Connect \/ ConnectFails \/ Accepted \/ HelloFails \/ SerialOpens \/ SerialFails
  \/ NetEnds \/ SessionDone

SupervisorStep ==
  \/ \E a \in Agents : Dial(a)
  \/ Registered
  \/ DialFails
  \/ \E c \in Clients : IgnoreSession(c) \/ OpenSession(c)
  \/ ControlEnds

RemoteNext ==
  \/ RelayStep /\ UNCHANGED <<agentProc, failures>>
  \/ LineBreaks
  \/ SupervisorStep
  \/ SessionStep
  \/ SerialEnds
  \/ \E c \in Clients : ClientCloses(c)

RemoteSpec == RemoteInit /\ [][RemoteNext]_remoteVars

\* Tasks that can run do, on both machines, and what waits with a timeout ends;
\* the agent reads what it is sent, so that drains end.  Nothing breaks down,
\* and nobody hangs up, of necessity.
RemoteFairSpec ==
  /\ RemoteSpec
  /\ WF_remoteVars(SupervisorStep)
  /\ WF_remoteVars(SessionStep)
  /\ \A c \in Clients :
       /\ WF_remoteVars(ClientStep(c) /\ UNCHANGED <<agentProc, failures>>)
       /\ WF_remoteVars((DataPairs(c) \/ DataRefused(c)) /\ UNCHANGED <<agentProc, failures>>)
       /\ WF_remoteVars(PipeEnds(c) /\ UNCHANGED <<agentProc, failures>>)

-----------------------------------------------------------------------------
(* Properties *)

\* The adapter is joined to one client at a time: what the agent left behind
\* at the relay never overlaps with its next session.
OneClientAtATime ==
  \A c, d \in Clients :
    /\ data[c] \in {"hello", "piping"} /\ dataUp[c]
    /\ data[d] \in {"hello", "piping"} /\ dataUp[d]
    => c = d

\* README.md:10 and 420: whoever open_remote_device gave a device is connected
\* to the adapter, or the stream ends, so that the device's own read loop frees
\* its callers: it never hangs on a stream that leads nowhere.
DeviceHasAdapter ==
  \A c \in Clients :
    HasDevice(c) ~> (session = c /\ step = "stream") \/ ~clientOpen[c]

\* When a client hangs up, the agent gives up the serial port and is free for
\* the next session, whatever stage the pairing was at.
PortReleased ==
  \A c \in Clients : session = c /\ ~clientUp[c] ~> session # c
=============================================================================
