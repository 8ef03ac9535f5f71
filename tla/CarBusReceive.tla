---------------------------- MODULE CarBusReceive ----------------------------
(***************************************************************************)
(* The receive path of carbus_async/device.py: how _read_loop hands a bus  *)
(* frame to the hooks, to the common queue behind receive_can and to the   *)
(* per-channel queues behind receive_can_on.                               *)
(*                                                                         *)
(* A frame is known by its position in sent, the frames the adapter has    *)
(* forwarded so far: everything else about it is looked up there.          *)
(***************************************************************************)
EXTENDS Integers, Sequences, FiniteSets, SequencesExt

CONSTANTS
  Channels,    \* channels the adapter forwards frames from, among 1 .. 4
  Ids,         \* CAN identifiers on the bus
  AnyId,       \* can_id of a rule that takes every identifier
  Rules,       \* hook rules: [can_id, masked], masked ones also test the data
  HookLimit,   \* permits of _can_hook_sem: 200 in the code
  HasHooks,    \* open() creates _can_hooks, open_stream() does not
  MaxFrames    \* bound: frames forwarded in one behaviour

ASSUME ReceiveAssumption ==
  /\ Channels \subseteq 1 .. 4
  /\ IsFiniteSet(Rules)
  /\ Rules \subseteq [can_id : Ids \cup {AnyId}, masked : BOOLEAN]
  /\ HookLimit \in Nat \ {0}
  /\ HasHooks \in BOOLEAN
  /\ MaxFrames \in Nat

VARIABLES
  sent,        \* frames forwarded by the adapter
  nRead,       \* how many of them _read_loop has handled
  loop,        \* _read_loop: "running" or "done"
  rxQueue,     \* _rx_queue: [ch, n]
  chanQueue,   \* _rx_channel_queues: channel -> queue of n
  since,       \* history: nRead when each channel queue was created
  heard,       \* history: what receive_can returned
  heardOn,     \* history: what receive_can_on returned, per channel
  hookQueue,   \* hook tasks waiting for the semaphore: [rule, n]
  hookRunning, \* hook tasks inside the semaphore
  hookDone     \* history: hook tasks that ended

recvVars == <<sent, nRead, loop, rxQueue, chanQueue, since, heard, heardOn>>
hookVars == <<hookQueue, hookRunning, hookDone>>
vars == <<recvVars, hookVars>>

Frame == [ch : Channels, can_id : Ids, hit : BOOLEAN]
Hook == [rule : Rules, n : Nat]

TypeOK ==
  /\ sent \in Seq(Frame)
  /\ nRead \in 0 .. Len(sent)
  /\ loop \in {"running", "done"}
  /\ rxQueue \in Seq([ch : 0 .. 4, n : Nat])
  /\ DOMAIN chanQueue \subseteq 1 .. 4
  /\ \A ch \in DOMAIN chanQueue : chanQueue[ch] \in Seq(Nat)
  /\ since \in [1 .. 4 -> Nat]
  /\ heard \in Seq([ch : 0 .. 4, n : Nat])
  /\ heardOn \in [1 .. 4 -> Seq(Nat)]
  /\ hookQueue \in Seq(Hook)
  /\ hookRunning \subseteq Hook
  /\ hookDone \subseteq Hook

Init ==
  /\ sent = <<>>
  /\ nRead = 0
  /\ loop = "running"
  /\ rxQueue = <<>>
  /\ chanQueue = <<>>
  /\ since = [ch \in 1 .. 4 |-> 0]
  /\ heard = <<>>
  /\ heardOn = [ch \in 1 .. 4 |-> <<>>]
  /\ hookQueue = <<>>
  /\ hookRunning = {}
  /\ hookDone = {}

-----------------------------------------------------------------------------
(* HeaderFlags.CHANNEL_n, as the set of its bits: 0x2000, 0x4000, 0x6000, 0x8000. *)
ChannelBits == <<{13}, {14}, {13, 14}, {15}>>

\* Mutant: the bit, not the channel it stands for.
DecodeBit(bits) == CHOOSE b \in bits : TRUE

\* The channel of _handle_bus_message: the first constant that shares a bit.
DecodeChannel(bits) ==
  LET common == {ch \in 1 .. 4 : bits \cap ChannelBits[ch] # {}}
  IN  IF common = {} THEN 0 ELSE CHOOSE ch \in common : \A d \in common : ch <= d

Decoded(n) == DecodeChannel(ChannelBits[sent[n].ch])

\* Mutant: every per-channel queue gets the frame.
DeliverToAll(queues, ch, n) == [d \in DOMAIN queues |-> Append(queues[d], n)]

\* The queue of the frame's channel gets it, if anybody asked for that channel.
Deliver(queues, ch, n) ==
  [d \in DOMAIN queues |-> IF d = ch THEN Append(queues[d], n) ELSE queues[d]]

Matches(rule, f) ==
  /\ rule.can_id \in {AnyId, f.can_id}
  /\ rule.masked => f.hit

\* Mutant: the loop over the rules stops at the first that matches.
FiresOnce(n) ==
  LET hit == {r \in Rules : Matches(r, sent[n])}
  IN  IF hit = {} THEN <<>> ELSE <<[rule |-> CHOOSE r \in hit : TRUE, n |-> n]>>

\* _fire_can_hooks: one task per matching rule, in some fixed order.
FiredHooks(n) ==
  LET hit == {r \in Rules : Matches(r, sent[n])}
  IN  [i \in 1 .. Cardinality(hit) |-> [rule |-> SetToSeq(hit)[i], n |-> n]]

-----------------------------------------------------------------------------
(* External: the bus, through the adapter. *)
BusFrame(f) ==
  /\ Len(sent) < MaxFrames
  /\ sent' = Append(sent, f)
  /\ UNCHANGED <<nRead, loop, rxQueue, chanQueue, since, heard, heardOn, hookVars>>

\* Mutant: the loop waits for a permit of the hooks before it goes on.
ReadMessageAwaitsHooks ==
  /\ loop = "running"
  /\ nRead < Len(sent)
  /\ Len(hookQueue) + Cardinality(hookRunning) < HookLimit
  /\ nRead' = nRead + 1
  /\ hookQueue' = hookQueue \o FiredHooks(nRead + 1)
  /\ UNCHANGED <<sent, loop, rxQueue, chanQueue, since, heard, heardOn, hookRunning, hookDone>>

\* _read_loop and _handle_bus_message on one frame.  Without _can_hooks,
\* _fire_can_hooks raises AttributeError before anything is queued, and the
\* except clause of _read_loop ends it.
ReadMessage ==
  /\ loop = "running"
  /\ nRead < Len(sent)
  /\ LET n  == nRead + 1
         ch == Decoded(n)
     IN  /\ nRead' = n
         /\ IF ~HasHooks
            THEN loop' = "done" /\ UNCHANGED <<hookQueue, rxQueue, chanQueue>>
            ELSE /\ loop' = loop
                 /\ hookQueue' = hookQueue \o FiredHooks(n)
                 /\ rxQueue' = Append(rxQueue, [ch |-> ch, n |-> n])
                 /\ chanQueue' = Deliver(chanQueue, ch, n)
  /\ UNCHANGED <<sent, since, heard, heardOn, hookRunning, hookDone>>

\* receive_can.
ReceiveCan ==
  /\ rxQueue # <<>>
  /\ heard' = Append(heard, Head(rxQueue))
  /\ rxQueue' = Tail(rxQueue)
  /\ UNCHANGED <<sent, nRead, loop, chanQueue, since, heardOn, hookVars>>

\* Mutant: a queue that exists already is replaced.
EnsureChannelQueueAnew(ch) ==
  /\ chanQueue' = [d \in DOMAIN chanQueue \cup {ch} |->
                     IF d = ch THEN <<>> ELSE chanQueue[d]]
  /\ since' = IF ch \in DOMAIN chanQueue THEN since ELSE [since EXCEPT ![ch] = nRead]
  /\ UNCHANGED <<sent, nRead, loop, rxQueue, heard, heardOn, hookVars>>

\* The first receive_can_on of a channel creates its queue; a call that times
\* out leaves the queue behind.
EnsureChannelQueue(ch) ==
  /\ ch \notin DOMAIN chanQueue
  /\ chanQueue' = [d \in DOMAIN chanQueue \cup {ch} |->
                     IF d = ch THEN <<>> ELSE chanQueue[d]]
  /\ since' = [since EXCEPT ![ch] = nRead]
  /\ UNCHANGED <<sent, nRead, loop, rxQueue, heard, heardOn, hookVars>>

ReceiveCanOn(ch) ==
  /\ ch \in DOMAIN chanQueue
  /\ chanQueue[ch] # <<>>
  /\ heardOn' = [heardOn EXCEPT ![ch] = Append(@, Head(chanQueue[ch]))]
  /\ chanQueue' = [chanQueue EXCEPT ![ch] = Tail(@)]
  /\ UNCHANGED <<sent, nRead, loop, rxQueue, since, heard, hookVars>>

\* _run_can_hook: the semaphore lets waiting tasks in one by one, in order.
HookStart ==
  /\ hookQueue # <<>>
  /\ Cardinality(hookRunning) < HookLimit
  /\ hookRunning' = hookRunning \cup {Head(hookQueue)}
  /\ hookQueue' = Tail(hookQueue)
  /\ UNCHANGED <<recvVars, hookDone>>

\* A handler returns or raises: the permit is given back either way.
HookEnd(h) ==
  /\ h \in hookRunning
  /\ hookRunning' = hookRunning \ {h}
  /\ hookDone' = hookDone \cup {h}
  /\ UNCHANGED <<recvVars, hookQueue>>

Next ==
  \/ \E f \in Frame : BusFrame(f)
  \/ ReadMessage
  \/ ReceiveCan
  \/ \E ch \in Channels : EnsureChannelQueue(ch) \/ ReceiveCanOn(ch)
  \/ HookStart
  \/ \E h \in hookRunning : HookEnd(h)

Spec == Init /\ [][Next]_vars

\* The event loop schedules the reader; handlers may never return.
FairSpec == Spec /\ WF_vars(ReadMessage)

-----------------------------------------------------------------------------
(* Properties *)

Ascending(s) == \A i, j \in DOMAIN s : i < j => s[i] < s[j]

\* The members of S once each, in the bus's order: only one sequence is that.
Lists(s, S) == Ascending(s) /\ ToSet(s) = S

\* What receive_can_on has returned or will return for a channel is every frame
\* read since its queue was created that decodes to it, in the bus's order:
\* slow consumers, consumers of receive_can and hooks never cost it a frame.
ChannelStreamUnbroken ==
  \A ch \in DOMAIN chanQueue :
    Lists(heardOn[ch] \o chanQueue[ch],
          {n \in since[ch] + 1 .. nRead : Decoded(n) = ch})

\* README.md:171: receive_can_on(channel=c) returns frames of channel c only.
OwnChannelOnly ==
  \A ch \in DOMAIN chanQueue :
    \A n \in ToSet(heardOn[ch] \o chanQueue[ch]) : sent[n].ch = ch

\* Every hook that a frame read so far should call has one task, waiting,
\* running or ended (README.md:175), whatever the handlers do.
EveryMatchHooked ==
  /\ IsInjective(hookQueue)
  /\ ToSet(hookQueue) \cap (hookRunning \cup hookDone) = {}
  /\ hookRunning \cap hookDone = {}
  /\ ToSet(hookQueue) \cup hookRunning \cup hookDone =
       {h \in [rule : Rules, n : 1 .. nRead] : Matches(h.rule, sent[h.n])}

\* README.md:420: a remote device is used like any other, so bus traffic does
\* not end its read loop.
TrafficKeepsReaderAlive == loop = "running"

\* Handlers that never return do not stop reception.
EveryFrameRead ==
  \A n \in 1 .. MaxFrames : Len(sent) >= n ~> nRead >= n
=============================================================================
