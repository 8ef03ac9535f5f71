---------------------------- MODULE CanIdRouter ----------------------------
(***************************************************************************)
(* carbus_async/can_router.py on top of the receive path: one task takes   *)
(* frames from the device's common queue and sorts them into a bounded     *)
(* queue per CAN identifier, from which the ISO-TP connections read.       *)
(* CarBusCanTransport (isotp_async/carbus_iface.py), the transport that    *)
(* needs no router, reads the same common queue.                           *)
(***************************************************************************)
EXTENDS CarBusReceive

CONSTANTS
  RouterChannel,  \* CanIdRouter(channel=...)
  QueueSize,      \* queue_size: 256 by default
  HasDirect       \* somebody reads through a CarBusCanTransport

ASSUME RouterAssumption ==
  /\ RouterChannel \in 1 .. 4
  /\ QueueSize \in Nat \ {0}
  /\ HasDirect \in BOOLEAN

VARIABLES
  routerTask,  \* "none", "top" of the loop, "recv", "cancelled" or "done"
  stopSet,     \* the _stop event
  stopping,    \* a stop() awaits the task
  idQueue,     \* _queues: identifier -> queue of n
  routed,      \* history: every frame put into each queue
  routedFrom,  \* history: the first frame that could reach each queue
  got,         \* history: what the connections took from their queues
  direct       \* history: frames a CarBusCanTransport took

routerVars == <<routerTask, stopSet, stopping, idQueue, routed, routedFrom, got, direct>>
allVars == <<vars, routerVars>>

RouterTypeOK ==
  /\ TypeOK
  /\ routerTask \in {"none", "top", "recv", "cancelled", "done"}
  /\ stopSet \in BOOLEAN
  /\ stopping \in BOOLEAN
  /\ DOMAIN idQueue \subseteq Ids
  /\ \A id \in DOMAIN idQueue : idQueue[id] \in Seq(Nat) /\ Len(idQueue[id]) <= QueueSize
  /\ routed \in [Ids -> Seq(Nat)]
  /\ routedFrom \in [Ids -> Nat]
  /\ got \in [Ids -> Seq(Nat)]
  /\ direct \subseteq 1 .. nRead

RouterInit ==
  /\ Init
  /\ routerTask = "none"
  /\ stopSet = FALSE
  /\ stopping = FALSE
  /\ idQueue = <<>>
  /\ routed = [id \in Ids |-> <<>>]
  /\ routedFrom = [id \in Ids |-> 0]
  /\ got = [id \in Ids |-> <<>>]
  /\ direct = {}

-----------------------------------------------------------------------------
Taken == nRead - Len(rxQueue)

GetQueue(id) ==
  /\ id \notin DOMAIN idQueue
  /\ idQueue' = [d \in DOMAIN idQueue \cup {id} |-> IF d = id THEN <<>> ELSE idQueue[d]]
  /\ routedFrom' = [routedFrom EXCEPT ![id] = Taken + 1]
  /\ UNCHANGED <<vars, routerTask, stopSet, stopping, routed, got, direct>>

\* A second start() finds _task set and does nothing, even after it ended.
Start ==
  /\ routerTask = "none"
  /\ routerTask' = "top"
  /\ UNCHANGED <<vars, stopSet, stopping, idQueue, routed, routedFrom, got, direct>>

\* Mutant: stop() sets the event and relies on the loop to see it.
StopWithoutCancel ==
  /\ ~stopping
  /\ stopSet' = TRUE
  /\ stopping' = FALSE
  /\ UNCHANGED <<vars, routerTask, idQueue, routed, routedFrom, got, direct>>

\* stop() up to its await.  The event is never cleared again.  A second stop()
\* meanwhile would change nothing.
Stop ==
  /\ ~stopping
  /\ stopSet' = TRUE
  /\ stopping' = (routerTask # "none")
  /\ routerTask' = IF routerTask \in {"top", "recv"} THEN "cancelled" ELSE routerTask
  /\ UNCHANGED <<vars, idQueue, routed, routedFrom, got, direct>>

StopReturns ==
  /\ stopping
  /\ routerTask \in {"cancelled", "done"}
  /\ stopping' = FALSE
  /\ routerTask' = "none"
  /\ UNCHANGED <<vars, stopSet, idQueue, routed, routedFrom, got, direct>>

-----------------------------------------------------------------------------
(* _run *)

\* Mutant: the test of the event is inverted.
LoopTopInverted ==
  /\ routerTask = "top"
  /\ routerTask' = IF stopSet THEN "recv" ELSE "done"
  /\ UNCHANGED <<vars, stopSet, stopping, idQueue, routed, routedFrom, got, direct>>

LoopTop ==
  /\ routerTask = "top"
  /\ routerTask' = IF stopSet THEN "done" ELSE "recv"
  /\ UNCHANGED <<vars, stopSet, stopping, idQueue, routed, routedFrom, got, direct>>

\* Mutant: a full queue refuses the new frame instead of dropping the oldest.
DropNewest(q, n) == IF Len(q) >= QueueSize THEN q ELSE Append(q, n)

\* Mutant: an unbounded queue.
DropNothing(q, n) == Append(q, n)

\* put_nowait after get_nowait when the queue is full.
DropOldest(q, n) == Append(IF Len(q) >= QueueSize THEN Tail(q) ELSE q, n)

\* Mutant: no test of the channel.
ForRouterAnyChannel(f) == sent[f.n].can_id \in DOMAIN idQueue

ForRouter(f) ==
  /\ f.ch = RouterChannel
  /\ sent[f.n].can_id \in DOMAIN idQueue

\* One frame from receive_can; frames of another channel, or of an identifier
\* nobody asked for, are gone.
Route ==
  /\ routerTask = "recv"
  /\ rxQueue # <<>>
  /\ LET f  == Head(rxQueue)
         id == sent[f.n].can_id
     IN  IF ForRouter(f)
         THEN /\ idQueue' = [idQueue EXCEPT ![id] = DropOldest(@, f.n)]
              /\ routed' = [routed EXCEPT ![id] = Append(@, f.n)]
         ELSE UNCHANGED <<idQueue, routed>>
  /\ rxQueue' = Tail(rxQueue)
  /\ routerTask' = "top"
  /\ UNCHANGED <<sent, nRead, loop, chanQueue, since, heard, heardOn, hookVars,
                 stopSet, stopping, routedFrom, got, direct>>

-----------------------------------------------------------------------------
(* The connections *)

\* RoutedCarBusCanTransport.recv
RoutedRecv(id) ==
  /\ id \in DOMAIN idQueue
  /\ idQueue[id] # <<>>
  /\ got' = [got EXCEPT ![id] = Append(@, Head(idQueue[id]))]
  /\ idQueue' = [idQueue EXCEPT ![id] = Tail(@)]
  /\ UNCHANGED <<vars, routerTask, stopSet, stopping, routed, routedFrom, direct>>

\* CarBusCanTransport.recv: takes whatever comes first, and drops what is not
\* for it.
DirectRecv ==
  /\ HasDirect
  /\ rxQueue # <<>>
  /\ direct' = direct \cup {Head(rxQueue).n}
  /\ rxQueue' = Tail(rxQueue)
  /\ UNCHANGED <<sent, nRead, loop, chanQueue, since, heard, heardOn, hookVars,
                 routerTask, stopSet, stopping, idQueue, routed, routedFrom, got>>

\* No masked rules here, so frames differ in channel and identifier only.
RouterNext ==
  \/ /\ ReadMessage \/ \E f \in Frame : ~f.hit /\ BusFrame(f)
     /\ UNCHANGED routerVars
  \/ Start
  \/ Stop
  \/ StopReturns
  \/ LoopTop
  \/ Route
  \/ \E id \in Ids : GetQueue(id) \/ RoutedRecv(id)
  \/ DirectRecv

RouterSpec == RouterInit /\ [][RouterNext]_allVars

\* The event loop schedules the reader and the router's task.
RouterFairSpec ==
  RouterSpec /\ WF_allVars(ReadMessage /\ UNCHANGED routerVars)
             /\ WF_allVars(LoopTop) /\ WF_allVars(Route)

-----------------------------------------------------------------------------
(* Properties *)

\* Frames leave a connection's queue in the bus's order, and one is lost only
\* to overflow: QueueSize newer frames came for the same connection.  What other
\* connections read, and how slowly, does not matter.
LostOnlyToOverflow ==
  \A id \in DOMAIN idQueue :
    LET kept == got[id] \o idQueue[id]
        lost == ToSet(routed[id]) \ ToSet(kept)
    IN  /\ Ascending(kept)
        /\ \A n \in lost :
             Cardinality({m \in ToSet(routed[id]) : m > n}) >= QueueSize

\* The router gives a connection all the frames of its identifier, on the
\* router's channel, that it took from the device since the connection asked,
\* and no others: the only ones missing are those a CarBusCanTransport took.
RoutedComplete ==
  \A id \in DOMAIN idQueue :
    Lists(routed[id], {n \in routedFrom[id] .. Taken : /\ n \notin direct
                                                      /\ sent[n].can_id = id
                                                      /\ Decoded(n) = RouterChannel})

\* Once stop() returned, no frame reaches a queue: the loop cannot be caught
\* between its test of the event and receive_can.
NothingRoutedAfterStop ==
  [][stopSet /\ ~stopping => UNCHANGED routed]_allVars

\* While the router runs, it empties the device's queue: frames that nobody
\* reads from their own queue do not pile up in the common one.
CommonQueueEmptied ==
  \A n \in 1 .. MaxFrames :
    Len(sent) >= n /\ routerTask \in {"top", "recv"} ~> Taken >= n \/ stopSet
=============================================================================
