---------------------------- MODULE RelayServer ----------------------------
(***************************************************************************)
(* carbus_async/remote/server.py: agents register a serial number over a   *)
(* control connection, a client asks for a serial number, the relay tells  *)
(* the agent to open a data connection for that session, and then copies   *)
(* bytes between the two until one of them hangs up.                       *)
(*                                                                         *)
(* A session is known by its client, and a connection by its hello: one    *)
(* that sends no hello, a broken one or one of no known role is answered   *)
(* and closed, and touches nothing else.  The lock is held across an await     *)
(* only while a client's handler drains the agent's connection, its phase  *)
(* "sending"; every other critical section runs without giving way.        *)
(***************************************************************************)
EXTENDS Integers, Sequences, FiniteSets, SequencesExt

CONSTANTS
  Agents,      \* control connections, in the whole behaviour
  Clients,     \* client connections
  Serials,
  SerialOf,    \* the serial number in the hello of each of them
  NoAgent,
  MaxChunks    \* bound: chunks of the agent's bytes copied to each client

ASSUME RelayAssumption ==
  /\ SerialOf \in [Agents \cup Clients -> Serials]
  /\ NoAgent \notin Agents
  /\ MaxChunks \in Nat

VARIABLES
  registry,    \* _agents: serial -> control connection, or NoAgent
  agentPhase,  \* handler of a control connection
  agentUp,     \* its connection is open
  phase,       \* handler of a client connection, once its hello was read
  askedOf,     \* the agent a client's session was sent to
  pending,     \* _pending: sessions
  ready,       \* the session's ready event
  piped,       \* client_writer._carbus_piped
  toClient,    \* what was written to the client
  clientUp,    \* the client has not hung up
  clientOpen,  \* the relay has not closed the client's writer
  data,        \* the session's data connection: its handler
  dataUp       \* the agent has not hung up the data connection

agentVars == <<registry, agentPhase, agentUp>>
sessionVars == <<phase, askedOf, pending, ready, piped, toClient>>
lineVars == <<clientUp, clientOpen, data, dataUp>>
vars == <<agentVars, sessionVars, lineVars>>

TypeOK ==
  /\ registry \in [Serials -> Agents \cup {NoAgent}]
  /\ agentPhase \in [Agents -> {"new", "serving", "leaving", "gone"}]
  /\ agentUp \in [Agents -> BOOLEAN]
  /\ phase \in [Clients -> {"new", "sending", "wait", "expired", "piped", "ended", "aborted"}]
  /\ askedOf \in [Clients -> Agents \cup {NoAgent}]
  /\ pending \subseteq Clients
  /\ ready \in [Clients -> BOOLEAN]
  /\ piped \in [Clients -> BOOLEAN]
  /\ toClient \in [Clients -> Seq({"ok", "error", "bytes"})]
  /\ clientUp \in [Clients -> BOOLEAN]
  /\ clientOpen \in [Clients -> BOOLEAN]
  /\ data \in [Clients -> {"none", "asked", "hello", "piping", "ended"}]
  /\ dataUp \in [Clients -> BOOLEAN]

Init ==
  /\ registry = [s \in Serials |-> NoAgent]
  /\ agentPhase = [a \in Agents |-> "new"]
  /\ agentUp = [a \in Agents |-> TRUE]
  /\ phase = [c \in Clients |-> "new"]
  /\ askedOf = [c \in Clients |-> NoAgent]
  /\ pending = {}
  /\ ready = [c \in Clients |-> FALSE]
  /\ piped = [c \in Clients |-> FALSE]
  /\ toClient = [c \in Clients |-> <<>>]
  /\ clientUp = [c \in Clients |-> TRUE]
  /\ clientOpen = [c \in Clients |-> TRUE]
  /\ data = [c \in Clients |-> "none"]
  /\ dataUp = [c \in Clients |-> FALSE]

LockFree == \A c \in Clients : phase[c] # "sending"

\* _send_json or a piped chunk, on a connection that is still there.
Written(c, what) ==
  IF clientUp[c] /\ clientOpen[c]
  THEN [toClient EXCEPT ![c] = Append(@, what)] ELSE toClient

-----------------------------------------------------------------------------
(* _handle_agent_control *)

\* The newcomer replaces an earlier registration and closes its connection.
\* Its own ok line may fail when it is gone already: the entry stays behind.
AgentRegisters(a) ==
  LET s == SerialOf[a]
      old == registry[s]
  IN  /\ agentPhase[a] = "new"
      /\ LockFree
      /\ agentUp' = [b \in Agents |-> agentUp[b] /\ b # old]
      /\ registry' = [registry EXCEPT ![s] = a]
      /\ \E next \in {"serving"} \cup (IF agentUp[a] THEN {} ELSE {"gone"}) :
           agentPhase' = [agentPhase EXCEPT ![a] = next]
      /\ UNCHANGED <<sessionVars, lineVars>>

\* No hello in time, or one without a serial number or a password.
AgentRefused(a) ==
  /\ agentPhase[a] = "new"
  /\ agentPhase' = [agentPhase EXCEPT ![a] = "gone"]
  /\ agentUp' = [agentUp EXCEPT ![a] = FALSE]
  /\ UNCHANGED <<registry, sessionVars, lineVars>>

AgentEof(a) ==
  /\ agentPhase[a] = "serving"
  /\ ~agentUp[a]
  /\ agentPhase' = [agentPhase EXCEPT ![a] = "leaving"]
  /\ UNCHANGED <<registry, agentUp, sessionVars, lineVars>>

\* Mutant: the entry is removed whoever it belongs to.
AgentLeavesBlindly(a) ==
  /\ agentPhase[a] = "leaving"
  /\ LockFree
  /\ registry' = [registry EXCEPT ![SerialOf[a]] = NoAgent]
  /\ agentPhase' = [agentPhase EXCEPT ![a] = "gone"]
  /\ UNCHANGED <<agentUp, sessionVars, lineVars>>

AgentLeaves(a) ==
  /\ agentPhase[a] = "leaving"
  /\ LockFree
  /\ registry' = [registry EXCEPT ![SerialOf[a]] = IF @ = a THEN NoAgent ELSE @]
  /\ agentPhase' = [agentPhase EXCEPT ![a] = "gone"]
  /\ UNCHANGED <<agentUp, sessionVars, lineVars>>

-----------------------------------------------------------------------------
(* _handle_client *)

\* No hello in time or a bad one; agent_offline; or unauthorized: a client may
\* come with any password.
ClientRefused(c, reason) ==
  /\ phase[c] = "new"
  /\ reason # "hello" => LockFree
  /\ reason = "offline" => registry[SerialOf[c]] = NoAgent
  /\ reason = "password" => registry[SerialOf[c]] # NoAgent
  /\ toClient' = Written(c, "error")
  /\ phase' = [phase EXCEPT ![c] = "ended"]
  /\ clientOpen' = [clientOpen EXCEPT ![c] = FALSE]
  /\ UNCHANGED <<agentVars, askedOf, pending, ready, piped, clientUp, data, dataUp>>

\* The session is entered and open_session written, then the agent's
\* connection is drained under the lock.
ClientAsks(c) ==
  LET a == registry[SerialOf[c]]
  IN  /\ phase[c] = "new"
      /\ LockFree
      /\ a # NoAgent
      /\ pending' = pending \cup {c}
      /\ askedOf' = [askedOf EXCEPT ![c] = a]
      /\ phase' = [phase EXCEPT ![c] = "sending"]
      /\ data' = [data EXCEPT ![c] = IF agentUp[a] THEN "asked" ELSE @]
      /\ UNCHANGED <<agentVars, ready, piped, toClient, clientUp, clientOpen, dataUp>>

\* The lock is released and the ok line written without giving way.
ClientAccepted(c) ==
  /\ phase[c] = "sending"
  /\ toClient' = Written(c, "ok")
  /\ phase' = [phase EXCEPT ![c] = "wait"]
  /\ UNCHANGED <<agentVars, askedOf, pending, ready, piped, lineVars>>

\* The ok line raises, outside any try: the session stays entered.
ClientOkFails(c) ==
  /\ phase[c] = "sending"
  /\ ~clientUp[c]
  /\ phase' = [phase EXCEPT ![c] = "aborted"]
  /\ clientOpen' = [clientOpen EXCEPT ![c] = FALSE]
  /\ UNCHANGED <<agentVars, askedOf, pending, ready, piped, toClient, clientUp, data, dataUp>>

\* Mutant: the failed session is not removed again.
AgentWriteFailsKeeps(c) ==
  /\ phase[c] = "sending"
  /\ ~agentUp[askedOf[c]]
  /\ toClient' = Written(c, "error")
  /\ phase' = [phase EXCEPT ![c] = "ended"]
  /\ clientOpen' = [clientOpen EXCEPT ![c] = FALSE]
  /\ UNCHANGED <<agentVars, askedOf, pending, ready, piped, clientUp, data, dataUp>>

AgentWriteFails(c) ==
  /\ phase[c] = "sending"
  /\ ~agentUp[askedOf[c]]
  /\ pending' = pending \ {c}
  /\ toClient' = Written(c, "error")
  /\ phase' = [phase EXCEPT ![c] = "ended"]
  /\ clientOpen' = [clientOpen EXCEPT ![c] = FALSE]
  /\ UNCHANGED <<agentVars, askedOf, ready, piped, clientUp, data, dataUp>>

ClientPaired(c) ==
  /\ phase[c] = "wait"
  /\ ready[c]
  /\ phase' = [phase EXCEPT ![c] = "piped"]
  /\ UNCHANGED <<agentVars, askedOf, pending, ready, piped, toClient, lineVars>>

\* Mutant: nothing but the pairing ends the wait.
ClientTimeoutPairedOnly(c) ==
  /\ phase[c] = "wait"
  /\ ready[c]
  /\ phase' = [phase EXCEPT ![c] = "expired"]
  /\ UNCHANGED <<agentVars, askedOf, pending, ready, piped, toClient, lineVars>>

\* wait_for gives up.  The event may be set already: wait_for cancels the
\* waiting task before that has run.
ClientTimeout(c) ==
  /\ phase[c] = "wait"
  /\ phase' = [phase EXCEPT ![c] = "expired"]
  /\ UNCHANGED <<agentVars, askedOf, pending, ready, piped, toClient, lineVars>>

\* agent_data_timeout.  handle_conn then closes the connection, unless it was
\* handed to a pipe.
ClientGivesUp(c) ==
  /\ phase[c] = "expired"
  /\ LockFree
  /\ pending' = pending \ {c}
  /\ toClient' = Written(c, "error")
  /\ phase' = [phase EXCEPT ![c] = "ended"]
  /\ clientOpen' = [clientOpen EXCEPT ![c] = @ /\ piped[c]]
  /\ UNCHANGED <<agentVars, askedOf, ready, piped, clientUp, data, dataUp>>

\* ps.done is set: the pipe ended.
ClientDone(c) ==
  /\ phase[c] = "piped"
  /\ data[c] = "ended"
  /\ LockFree
  /\ pending' = pending \ {c}
  /\ phase' = [phase EXCEPT ![c] = "ended"]
  /\ UNCHANGED <<agentVars, askedOf, ready, piped, toClient, lineVars>>

-----------------------------------------------------------------------------
(* _handle_agent_data and _pipe *)

\* Mutant: _pending is read without the lock.
DataPairsUnlocked(c) ==
  /\ data[c] = "hello"
  /\ c \in pending
  /\ data' = [data EXCEPT ![c] = "piping"]
  /\ ready' = [ready EXCEPT ![c] = TRUE]
  /\ piped' = [piped EXCEPT ![c] = TRUE]
  /\ UNCHANGED <<agentVars, phase, askedOf, pending, toClient, clientUp, clientOpen, dataUp>>

\* From the lookup to ready.set nothing gives way.
DataPairs(c) ==
  /\ data[c] = "hello"
  /\ LockFree
  /\ c \in pending
  /\ data' = [data EXCEPT ![c] = "piping"]
  /\ ready' = [ready EXCEPT ![c] = TRUE]
  /\ piped' = [piped EXCEPT ![c] = TRUE]
  /\ UNCHANGED <<agentVars, phase, askedOf, pending, toClient, clientUp, clientOpen, dataUp>>

\* unknown_session, or an ok line that fails.
DataRefused(c) ==
  /\ data[c] = "hello"
  /\ LockFree
  /\ c \notin pending \/ ~dataUp[c]
  /\ data' = [data EXCEPT ![c] = "ended"]
  /\ UNCHANGED <<agentVars, sessionVars, clientUp, clientOpen, dataUp>>

\* A chunk of the adapter's bytes on its way to the client.
PumpToClient(c) ==
  /\ data[c] = "piping"
  /\ dataUp[c]
  /\ Cardinality({i \in DOMAIN toClient[c] : toClient[c][i] = "bytes"}) < MaxChunks
  /\ toClient' = Written(c, "bytes")
  /\ UNCHANGED <<agentVars, phase, askedOf, pending, ready, piped, lineVars>>

\* Mutant: only the data connection is closed, and the client's handler left
\* the client's connection to the pipe.
PipeEndsHalfway(c) ==
  /\ data[c] = "piping"
  /\ ~clientUp[c] \/ ~dataUp[c]
  /\ data' = [data EXCEPT ![c] = "ended"]
  /\ UNCHANGED <<agentVars, sessionVars, clientUp, clientOpen, dataUp>>

\* One side hung up: each pump closes the connection it writes to, the second
\* one when it is cancelled, and done is set on the way out.
PipeEnds(c) ==
  /\ data[c] = "piping"
  /\ ~clientUp[c] \/ ~dataUp[c]
  /\ data' = [data EXCEPT ![c] = "ended"]
  /\ clientOpen' = [clientOpen EXCEPT ![c] = FALSE]
  /\ UNCHANGED <<agentVars, sessionVars, clientUp, dataUp>>

-----------------------------------------------------------------------------
(* External: the agents and the clients. *)
AgentDials(c) ==
  /\ data[c] = "asked"
  /\ data' = [data EXCEPT ![c] = "hello"]
  /\ dataUp' = [dataUp EXCEPT ![c] = TRUE]
  /\ UNCHANGED <<agentVars, sessionVars, clientUp, clientOpen>>

AgentHangsUp(a) ==
  /\ agentUp[a]
  /\ agentUp' = [agentUp EXCEPT ![a] = FALSE]
  /\ UNCHANGED <<registry, agentPhase, sessionVars, lineVars>>

ClientHangsUp(c) ==
  /\ clientUp[c]
  /\ clientUp' = [clientUp EXCEPT ![c] = FALSE]
  /\ UNCHANGED <<agentVars, sessionVars, clientOpen, data, dataUp>>

DataHangsUp(c) ==
  /\ dataUp[c]
  /\ dataUp' = [dataUp EXCEPT ![c] = FALSE]
  /\ UNCHANGED <<agentVars, sessionVars, clientUp, clientOpen, data>>

-----------------------------------------------------------------------------
AgentStep(a) == AgentRegisters(a) \/ AgentRefused(a) \/ AgentEof(a) \/ AgentLeaves(a)

ClientStep(c) ==
  \/ \E reason \in {"hello", "offline", "password"} : ClientRefused(c, reason)
  \/ ClientAsks(c)
  \/ ClientAccepted(c)
  \/ ClientOkFails(c)
  \/ AgentWriteFails(c)
  \/ ClientPaired(c)
  \/ ClientTimeout(c)
  \/ ClientGivesUp(c)
  \/ ClientDone(c)

DataStep(c) == DataPairs(c) \/ DataRefused(c) \/ PumpToClient(c) \/ PipeEnds(c)

PeerStep ==
  \/ \E a \in Agents : AgentHangsUp(a)
  \/ \E c \in Clients : AgentDials(c) \/ ClientHangsUp(c) \/ DataHangsUp(c)

Next ==
  \/ \E a \in Agents : AgentStep(a)
  \/ \E c \in Clients : ClientStep(c) \/ DataStep(c)
  \/ PeerStep

Spec == Init /\ [][Next]_vars

-----------------------------------------------------------------------------
(* Properties *)

\* The client reads its ok line before the first byte of the adapter, even if
\* the agent's data connection comes while the agent's control connection is
\* still being drained.
OkBeforeStream ==
  \A c \in Clients : \A i \in DOMAIN toClient[c] :
    toClient[c][i] = "bytes" => toClient[c][1] = "ok"

\* README.md:10: remote access is like local access.  Once the relay accepted a
\* client and connected it to the agent, the client reads the adapter's bytes,
\* and no line of the relay's among them.
StreamIsTheAdapters ==
  \A c \in Clients : piped[c] => "error" \notin ToSet(toClient[c])

\* The tables tell the truth, whoever comes back before the relay noticed that
\* it was gone: an agent that is connected and served is the one clients are
\* sent to, the end of its earlier connection notwithstanding; and a session
\* stays in the table no longer than its client's handler, unless the client
\* vanished just before its ok line.
TablesTrue ==
  /\ \A a \in Agents :
       agentPhase[a] = "serving" /\ agentUp[a] => registry[SerialOf[a]] = a
  /\ \A c \in pending : phase[c] \notin {"new", "ended"}

\* A client that asks is accepted and paired, or refused, or timed out: it
\* never waits for ever, and neither does anybody for the lock.
ClientAnswered ==
  \A c \in Clients : phase[c] = "new" ~> phase[c] \in {"piped", "ended", "aborted"}

\* When the client or the agent hangs up a running session, the relay closes
\* the client's connection, whoever was responsible for it by then.
SessionClosed ==
  \A c \in Clients :
    piped[c] /\ (~clientUp[c] \/ ~dataUp[c]) ~> ~clientOpen[c]
=============================================================================
