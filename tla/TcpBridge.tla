----------------------------- MODULE TcpBridge -----------------------------
(***************************************************************************)
(* carbus_async/tcp_bridge.py: handle_client opens the serial port for     *)
(* each TCP client and joins the two by a pump in either direction.        *)
(*                                                                         *)
(* The pump "up" copies the client's bytes to the adapter, "down" the      *)
(* adapter's to the client.  On POSIX nothing keeps a second client from   *)
(* opening the port as well, and what the adapter sends goes to whichever  *)
(* open port reads first; elsewhere opening fails.                         *)
(***************************************************************************)
EXTENDS Integers, Sequences, SequencesExt

CONSTANTS
  Clients,
  MaxBytes   \* bound: chunks the adapter sends

ASSUME BridgeAssumption == MaxBytes \in Nat

VARIABLES
  handler,   \* of each client: away, opening, piping, ended
  pump,      \* each client's pumps: none, reading, draining, done
  tcp,       \* clients whose tcp_writer is open
  port,      \* clients whose serial port is open
  online,    \* clients that have not hung up
  plugged,   \* the adapter is there
  sent,      \* chunks the adapter has sent, numbered
  line,      \* those no port has read
  buffer,    \* those a port has read for its stream reader
  got,       \* those written to each client
  shared     \* clients whose session overlapped another one

flow == <<sent, line, buffer, got>>
vars == <<handler, pump, tcp, port, online, plugged, flow, shared>>

Both(state) == [up |-> state, down |-> state]

Init ==
  /\ handler = [c \in Clients |-> "away"]
  /\ pump = [c \in Clients |-> Both("none")]
  /\ tcp = {} /\ port = {} /\ online = {}
  /\ plugged = TRUE
  /\ sent = 0 /\ line = <<>>
  /\ buffer = [c \in Clients |-> <<>>]
  /\ got = [c \in Clients |-> <<>>]
  /\ shared = {}

-----------------------------------------------------------------------------
(* handle_client *)

Connect(c) ==
  /\ handler[c] = "away"
  /\ handler' = [handler EXCEPT ![c] = "opening"]
  /\ tcp' = tcp \cup {c} /\ online' = online \cup {c}
  /\ UNCHANGED <<pump, port, plugged, flow, shared>>

PortOpens(c) ==
  LET others == {d \in Clients : handler[d] = "piping"}
  IN  /\ handler[c] = "opening" /\ plugged
      /\ handler' = [handler EXCEPT ![c] = "piping"]
      /\ pump' = [pump EXCEPT ![c] = Both("reading")]
      /\ port' = port \cup {c}
      /\ shared' = IF others = {} THEN shared ELSE shared \cup others \cup {c}
      /\ UNCHANGED <<tcp, online, plugged, flow>>

\* Mutant: a port that cannot be opened ends the handler on the spot.
PortRefusedKeeps(c) ==
  /\ handler[c] = "opening"
  /\ ~plugged \/ port # {}
  /\ handler' = [handler EXCEPT ![c] = "ended"]
  /\ UNCHANGED <<pump, tcp, port, online, plugged, flow, shared>>

PortRefused(c) ==
  /\ handler[c] = "opening"
  /\ ~plugged \/ port # {}
  /\ handler' = [handler EXCEPT ![c] = "ended"]
  /\ tcp' = tcp \ {c}
  /\ UNCHANGED <<pump, port, online, plugged, flow, shared>>

\* Mutant: a pump does not close what it writes to, the handler its own writer.
HandlerEndsPortOpen(c) ==
  /\ handler[c] = "piping"
  /\ pump[c].up = "done" \/ pump[c].down = "done"
  /\ handler' = [handler EXCEPT ![c] = "ended"]
  /\ pump' = [pump EXCEPT ![c] = Both("done")]
  /\ tcp' = tcp \ {c}
  /\ UNCHANGED <<port, online, plugged, flow, shared>>

\* One pump ended.  The other one is cancelled, and the name nullcontext, which
\* is not defined, ends the handler before it is awaited; it runs next, before
\* any further input does, and closes what it writes to.
HandlerEnds(c) ==
  /\ handler[c] = "piping"
  /\ pump[c].up = "done" \/ pump[c].down = "done"
  /\ handler' = [handler EXCEPT ![c] = "ended"]
  /\ pump' = [pump EXCEPT ![c] = Both("done")]
  /\ tcp' = tcp \ {c} /\ port' = port \ {c}
  /\ UNCHANGED <<online, plugged, flow, shared>>

-----------------------------------------------------------------------------
(* _pump *)

State(c, way, state) == pump' = [pump EXCEPT ![c][way] = state]

\* The finally clause.
Ends(c, way) ==
  /\ State(c, way, "done")
  /\ IF way = "up" THEN port' = port \ {c} /\ UNCHANGED tcp
     ELSE tcp' = tcp \ {c} /\ UNCHANGED port

PortUp(c) == c \in port /\ plugged
TcpUp(c) == c \in tcp /\ c \in online

UpReads(c) ==
  /\ pump[c].up = "reading" /\ TcpUp(c)
  /\ State(c, "up", "draining")
  /\ UNCHANGED <<handler, tcp, port, online, plugged, flow, shared>>

DownReads(c) ==
  /\ pump[c].down = "reading" /\ buffer[c] # <<>>
  /\ State(c, "down", "draining")
  /\ got' = [got EXCEPT ![c] = Append(@, Head(buffer[c]))]
  /\ buffer' = [buffer EXCEPT ![c] = Tail(@)]
  /\ UNCHANGED <<handler, tcp, port, online, plugged, sent, line, shared>>

\* drain returns, or raises.
Drained(c, way) ==
  /\ pump[c][way] = "draining"
  /\ IF (way = "up" /\ PortUp(c)) \/ (way = "down" /\ TcpUp(c))
     THEN State(c, way, "reading") /\ UNCHANGED <<tcp, port>>
     ELSE Ends(c, way)
  /\ UNCHANGED <<handler, online, plugged, flow, shared>>

\* Nothing more to read, or an error; what a broken port had read is lost.
UpEof(c) ==
  /\ pump[c].up = "reading" /\ ~TcpUp(c)
  /\ Ends(c, "up")
  /\ UNCHANGED <<handler, online, plugged, flow, shared>>

DownEof(c) ==
  /\ pump[c].down = "reading"
  /\ ~plugged \/ (c \notin port /\ buffer[c] = <<>>)
  /\ Ends(c, "down")
  /\ UNCHANGED <<handler, online, plugged, flow, shared>>

-----------------------------------------------------------------------------
(* External: the adapter, the operating system and the clients. *)

AdapterSends ==
  /\ plugged /\ sent < MaxBytes
  /\ sent' = sent + 1 /\ line' = Append(line, sent')
  /\ UNCHANGED <<handler, pump, tcp, port, online, plugged, buffer, got, shared>>

PortReads(c) ==
  /\ PortUp(c) /\ line # <<>>
  /\ buffer' = [buffer EXCEPT ![c] = Append(@, Head(line))]
  /\ line' = Tail(line)
  /\ UNCHANGED <<handler, pump, tcp, port, online, plugged, sent, got, shared>>

Unplugged ==
  /\ plugged /\ plugged' = FALSE
  /\ UNCHANGED <<handler, pump, tcp, port, online, flow, shared>>

HangsUp(c) ==
  /\ c \in online /\ online' = online \ {c}
  /\ UNCHANGED <<handler, pump, tcp, port, plugged, flow, shared>>

-----------------------------------------------------------------------------
HandlerRuns(c) == PortOpens(c) \/ PortRefused(c) \/ HandlerEnds(c)
UpRuns(c) == UpReads(c) \/ UpEof(c) \/ Drained(c, "up")
DownRuns(c) == DownReads(c) \/ DownEof(c) \/ Drained(c, "down")

Next ==
  \/ AdapterSends
  \/ Unplugged
  \/ \E c \in Clients :
       Connect(c) \/ HandlerRuns(c) \/ UpRuns(c) \/ DownRuns(c) \/ PortReads(c) \/ HangsUp(c)

\* Tasks that can run do.  Drains end: the adapter takes what it is sent, and a
\* client that is there reads.
Spec ==
  /\ Init /\ [][Next]_vars
  /\ \A c \in Clients : WF_vars(HandlerRuns(c)) /\ WF_vars(UpRuns(c)) /\ WF_vars(DownRuns(c))

-----------------------------------------------------------------------------
(* Properties *)

\* The port of a client that hung up is closed, even if it did so while the
\* port was being opened, and although the handler never awaits the pump it
\* cancels.
PortReleased ==
  \A c \in Clients : handler[c] # "away" /\ c \notin online ~> c \notin port /\ handler[c] = "ended"

\* When the adapter is unplugged every client is disconnected, so that the
\* device at its end frees its callers.
ClientsCutOff ==
  \A c \in Clients : handler[c] # "away" /\ ~plugged ~> c \notin tcp

\* README.md:423-428: the bridge forwards the adapter's bytes.  A client whose
\* session overlaps no other one gets them in order and without a gap: no
\* session that is over takes any from it.
AloneIsWhole ==
  \A c \in Clients \ shared :
    \A i \in 1 .. Len(got[c]) - 1 : got[c][i + 1] = got[c][i] + 1
=============================================================================
