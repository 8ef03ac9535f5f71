---------------------------- MODULE CarBusDevice ----------------------------
(***************************************************************************)
(* The command plane of carbus_async/device.py: _send_raw, _next_seq, the  *)
(* dispatch of replies in _read_loop, and close().                         *)
(*                                                                         *)
(* asyncio runs one task at a time and switches only at an await, so an    *)
(* action is the code between two awaits.  A "call" is one invocation of   *)
(* _send_raw; a closer is a call made by close() (its DEVICE_CLOSE).       *)
(* The adapter is external: it may answer a request, refuse it, ignore it, *)
(* and send frames nobody asked for.                                       *)
(***************************************************************************)
EXTENDS Integers, Sequences

CONSTANTS
  Calls,        \* invocations of _send_raw
  Closers,      \* those made by close()
  MaxSeq,       \* last sequence number: 255 in the code
  AsyncSeqs,    \* sequence numbers the adapter puts on unsolicited frames
  MaxInFlight,  \* bound: unsolicited frames stop when so many are unread
  NoCall        \* null value

ASSUME CallsAssumption ==
  /\ Closers \subseteq Calls
  /\ NoCall \notin Calls
  /\ MaxSeq \in Nat \ {0}
  /\ AsyncSeqs \subseteq 0 .. MaxSeq
  /\ MaxInFlight \in Nat

VARIABLES
  seqCounter,   \* self._seq_counter
  pending,      \* self._pending: sequence number -> call, NoCall when absent
  closed,       \* self._closed
  reader,       \* the task of _read_loop: "running" or "done"
  cancelReader, \* self._reader_task.cancel() was called
  writerOpen,   \* self._writer.close() was not called
  call,         \* progress of each call
  fut,          \* its future; "none" when no reply is expected
  seqOf,        \* its sequence number, 0 before it is sent
  closing,      \* progress of each close()
  link,         \* the serial port or socket is connected
  inDev,        \* calls whose frame the adapter has and may still answer
  fromDev,      \* frames on their way to _read_loop
  got,          \* history: the call whose answer completed the future
  reused        \* history: a sequence number was given out while in use

devVars == <<seqCounter, pending, closed, reader, cancelReader, writerOpen>>
callVars == <<call, fut, seqOf, closing>>
wireVars == <<link, inDev, fromDev>>
history == <<got, reused>>
vars == <<devVars, callVars, wireVars, history>>

Seqs == 0 .. MaxSeq
\* REPLY stands for an ack and for a plain answer: both end in set_result.
Frames == [kind : {"REPLY", "ERROR", "MESSAGE"}, seq : Seqs, call : Calls \cup {NoCall}]
Finished == {"returned", "raised", "cancelled", "refused"}

TypeOK ==
  /\ seqCounter \in Seqs
  /\ pending \in [Seqs -> Calls \cup {NoCall}]
  /\ closed \in BOOLEAN
  /\ reader \in {"running", "done"}
  /\ cancelReader \in BOOLEAN
  /\ writerOpen \in BOOLEAN
  /\ call \in [Calls -> {"idle", "drain", "wait"} \cup Finished]
  /\ fut \in [Calls -> {"none", "pending", "result", "exception", "cancelled"}]
  /\ seqOf \in [Calls -> Seqs]
  /\ closing \in [Closers -> {"idle", "device_close", "join", "wait_closed", "returned"}]
  /\ link \in BOOLEAN
  /\ inDev \in SUBSET Calls
  /\ fromDev \in Seq(Frames)
  /\ got \in [Calls -> Calls \cup {NoCall}]
  /\ reused \in BOOLEAN

\* The device as open() leaves it for its callers: connected, reader running.
Init ==
  /\ seqCounter = 0
  /\ pending = [s \in Seqs |-> NoCall]
  /\ closed = FALSE
  /\ reader = "running"
  /\ cancelReader = FALSE
  /\ writerOpen = TRUE
  /\ call = [c \in Calls |-> "idle"]
  /\ fut = [c \in Calls |-> "none"]
  /\ seqOf = [c \in Calls |-> 0]
  /\ closing = [k \in Closers |-> "idle"]
  /\ link = TRUE
  /\ inDev = {}
  /\ fromDev = <<>>
  /\ got = [c \in Calls |-> NoCall]
  /\ reused = FALSE

-----------------------------------------------------------------------------
\* Mutant: the counter wraps to 0, which unsolicited frames carry.
NextSeqThroughZero(n) == (n + 1) % (MaxSeq + 1)

\* Mutant: the counter is not masked.
NextSeqUnmasked(n) == n + 1

(* _next_seq: an 8-bit counter that skips 0. *)
NextSeq(n) ==
  LET m == (n + 1) % (MaxSeq + 1) IN IF m = 0 THEN 1 ELSE m

Outstanding(c) == call[c] \in {"drain", "wait"}

\* The keys of self._pending.
Registered == {s \in Seqs : pending[s] # NoCall}

\* Sequence number s still names an earlier call somewhere.
SeqInUse(s) ==
  \/ s \in Registered
  \/ \E d \in inDev : seqOf[d] = s
  \/ \E i \in DOMAIN fromDev : fromDev[i].seq = s /\ fromDev[i].call # NoCall

\* Mutant: no test of done().
CompleteAgain(f, c, outcome) == [f EXCEPT ![c] = outcome]

\* Complete a future unless it is done already, as every set_result and
\* set_exception of the code is guarded.
Complete(f, c, outcome) ==
  [f EXCEPT ![c] = IF @ = "pending" THEN outcome ELSE @]

\* Mutant: the table is cleared before the futures are looked up in it.
ClearOnly(p, f) ==
  /\ fut' = f
  /\ pending' = [s \in Seqs |-> NoCall]

\* The loops that end _read_loop and close(): every registered future gets an
\* exception, and the table is cleared.
FailAll(p, f) ==
  /\ fut' = [c \in Calls |->
               IF f[c] = "pending" /\ (\E s \in Seqs : p[s] = c)
               THEN "exception" ELSE f[c]]
  /\ pending' = [s \in Seqs |-> NoCall]

-----------------------------------------------------------------------------
(* _send_raw up to the drain: number the frame, register the future, write. *)
\* A frame written to a closed or lost transport goes nowhere.
Transmit(c, expectResponse) ==
  LET s == NextSeq(seqCounter)
  IN  /\ call[c] = "idle"
      /\ ~closed
      /\ call' = [call EXCEPT ![c] = "drain"]
      /\ seqCounter' = s
      /\ seqOf' = [seqOf EXCEPT ![c] = s]
      /\ reused' = (reused \/ SeqInUse(s))
      /\ IF expectResponse
         THEN /\ pending' = [pending EXCEPT ![s] = c]
              /\ fut' = [fut EXCEPT ![c] = "pending"]
         ELSE UNCHANGED <<pending, fut>>
      /\ inDev' = IF link /\ writerOpen THEN inDev \cup {c} ELSE inDev
      /\ UNCHANGED <<closed, reader, cancelReader, writerOpen, link, fromDev, got>>

Send(c, expectResponse) ==
  /\ c \notin Closers
  /\ Transmit(c, expectResponse)
  /\ UNCHANGED closing

Refuse(c) ==
  /\ c \notin Closers
  /\ call[c] = "idle"
  /\ closed
  /\ call' = [call EXCEPT ![c] = "refused"]
  /\ UNCHANGED <<devVars, fut, seqOf, closing, wireVars, history>>

Drained(c) ==
  /\ call[c] = "drain"
  /\ call' = [call EXCEPT ![c] = IF fut[c] = "none" THEN "returned" ELSE "wait"]
  /\ UNCHANGED <<devVars, fut, seqOf, closing, wireVars, history>>

\* drain() raises once the connection is lost; the table entry stays behind.
DrainFails(c) ==
  /\ call[c] = "drain"
  /\ ~link \/ ~writerOpen
  /\ call' = [call EXCEPT ![c] = "raised"]
  /\ UNCHANGED <<devVars, fut, seqOf, closing, wireVars, history>>

Resume(c) ==
  /\ call[c] = "wait"
  /\ fut[c] \in {"result", "exception"}
  /\ call' = [call EXCEPT ![c] = IF fut[c] = "result" THEN "returned" ELSE "raised"]
  /\ UNCHANGED <<devVars, fut, seqOf, closing, wireVars, history>>

\* The caller's task is cancelled (a wait_for around the call, a shutdown).
\* Awaiting the future cancels it; the table entry stays behind.
CancelCall(c) ==
  /\ c \notin Closers
  /\ Outstanding(c)
  /\ call' = [call EXCEPT ![c] = "cancelled"]
  /\ fut' = IF call[c] = "wait" THEN Complete(fut, c, "cancelled") ELSE fut
  /\ UNCHANGED <<devVars, seqOf, closing, wireVars, history>>

-----------------------------------------------------------------------------
(* _read_loop *)

\* One frame.  ERROR, acks, and any other frame whose sequence number is
\* registered complete that future; other frames are not replies.  The loop
\* then tests _closed, and its finally clause fails what is left.
ReadFrame ==
  /\ reader = "running"
  /\ ~cancelReader
  /\ fromDev # <<>>
  /\ LET f == Head(fromDev)
         c == pending[f.seq]
         p == [pending EXCEPT ![f.seq] = NoCall]
         outcome == IF f.kind = "ERROR" THEN "exception" ELSE "result"
         futures == IF c = NoCall THEN fut ELSE Complete(fut, c, outcome)
     IN  /\ fromDev' = Tail(fromDev)
         /\ got' = IF c # NoCall /\ fut[c] = "pending"
                   THEN [got EXCEPT ![c] = f.call] ELSE got
         /\ IF closed
            THEN reader' = "done" /\ FailAll(p, futures)
            ELSE reader' = reader /\ pending' = p /\ fut' = futures
  /\ UNCHANGED <<seqCounter, closed, cancelReader, writerOpen, call, seqOf,
                 closing, link, inDev, reused>>

\* Mutant: the end of the stream closes the device and forgets the table.
ReadEofForgetsTable ==
  /\ reader = "running"
  /\ ~cancelReader
  /\ ~link
  /\ fromDev = <<>>
  /\ closed' = TRUE
  /\ reader' = "done"
  /\ UNCHANGED <<seqCounter, pending, cancelReader, writerOpen, callVars,
                 wireVars, history>>

\* IncompleteReadError, or the exception a reset connection raises.
ReadEof ==
  /\ reader = "running"
  /\ ~cancelReader
  /\ ~link
  /\ fromDev = <<>>
  /\ closed' = TRUE
  /\ reader' = "done"
  /\ FailAll(pending, fut)
  /\ UNCHANGED <<seqCounter, cancelReader, writerOpen, call, seqOf, closing,
                 wireVars, history>>

\* Handling an unsolicited frame raises (a payload too short to unpack, a
\* hook's predicate): the loop ends as it does when the stream ends.
HandlerRaises ==
  /\ reader = "running"
  /\ ~cancelReader
  /\ fromDev # <<>>
  /\ Head(fromDev).kind = "MESSAGE"
  /\ pending[Head(fromDev).seq] = NoCall
  /\ fromDev' = Tail(fromDev)
  /\ closed' = TRUE
  /\ reader' = "done"
  /\ FailAll(pending, fut)
  /\ UNCHANGED <<seqCounter, cancelReader, writerOpen, call, seqOf, closing,
                 link, inDev, history>>

\* CancelledError skips both except clauses: _closed is not set here.
ReaderCancelled ==
  /\ reader = "running"
  /\ cancelReader
  /\ reader' = "done"
  /\ FailAll(pending, fut)
  /\ UNCHANGED <<seqCounter, closed, cancelReader, writerOpen, call, seqOf,
                 closing, wireVars, history>>

-----------------------------------------------------------------------------
(* close() *)
CloseEarlyReturn(k) ==
  /\ closing[k] = "idle"
  /\ closed
  /\ closing' = [closing EXCEPT ![k] = "returned"]
  /\ UNCHANGED <<devVars, call, fut, seqOf, wireVars, history>>

CloseStart(k) ==
  /\ closing[k] = "idle"
  /\ closing' = [closing EXCEPT ![k] = "device_close"]
  /\ Transmit(k, TRUE)

\* DEVICE_CLOSE was answered or failed; a failure is ignored.
CloseCancelsReader(k) ==
  /\ closing[k] = "device_close"
  /\ call[k] \in {"returned", "raised"}
  /\ closing' = [closing EXCEPT ![k] = "join"]
  /\ cancelReader' = (cancelReader \/ reader = "running")
  /\ UNCHANGED <<seqCounter, pending, closed, reader, writerOpen, call, fut,
                 seqOf, wireVars, history>>

CloseWriter(k) ==
  /\ closing[k] = "join"
  /\ reader = "done"
  /\ writerOpen' = FALSE
  /\ closing' = [closing EXCEPT ![k] = "wait_closed"]
  /\ UNCHANGED <<seqCounter, pending, closed, reader, cancelReader, call, fut,
                 seqOf, wireVars, history>>

\* Mutant: close() trusts the reader to have failed what was pending.
CloseFinallyTrustsReader(k) ==
  /\ closing[k] = "wait_closed"
  /\ closing' = [closing EXCEPT ![k] = "returned"]
  /\ closed' = TRUE
  /\ UNCHANGED <<seqCounter, pending, reader, cancelReader, writerOpen, call,
                 fut, seqOf, wireVars, history>>

\* Also the way out when wait_closed() raises or is cancelled.  A cancellation
\* in the join before it is swallowed by the suppress and changes nothing.
CloseFinally(k) ==
  /\ closing[k] = "wait_closed"
  /\ closing' = [closing EXCEPT ![k] = "returned"]
  /\ closed' = TRUE
  /\ FailAll(pending, fut)
  /\ UNCHANGED <<seqCounter, reader, cancelReader, writerOpen, call, seqOf,
                 wireVars, history>>

\* close() is cancelled while it awaits device_close(): CancelledError is no
\* Exception, so only the finally clause runs.
CloseAborted(k) ==
  /\ closing[k] = "device_close"
  /\ Outstanding(k)
  /\ call' = [call EXCEPT ![k] = "cancelled"]
  /\ closing' = [closing EXCEPT ![k] = "returned"]
  /\ closed' = TRUE
  /\ FailAll(pending, IF call[k] = "wait" THEN Complete(fut, k, "cancelled") ELSE fut)
  /\ UNCHANGED <<seqCounter, reader, cancelReader, writerOpen, seqOf, wireVars,
                 history>>

-----------------------------------------------------------------------------
(* The adapter and the line: external.  The adapter may answer late or never. *)
DevAnswers(c) ==
  /\ c \in inDev
  /\ reader = "running"  \* what nobody will read is left out
  /\ inDev' = inDev \ {c}
  /\ \E kind \in IF fut[c] = "none" THEN {"ERROR"} ELSE {"REPLY", "ERROR"} :
       fromDev' = Append(fromDev, [kind |-> kind, seq |-> seqOf[c], call |-> c])
  /\ UNCHANGED <<devVars, callVars, link, history>>

DevMessage(s) ==
  /\ link
  /\ reader = "running"
  /\ Len(fromDev) < MaxInFlight
  /\ fromDev' = Append(fromDev, [kind |-> "MESSAGE", seq |-> s, call |-> NoCall])
  /\ UNCHANGED <<devVars, callVars, link, inDev, history>>

\* The line drops; what is buffered is still read, or lost with a reset.
LinkDown ==
  /\ link
  /\ link' = FALSE
  /\ inDev' = {}
  /\ fromDev' \in {fromDev, <<>>}
  /\ UNCHANGED <<devVars, callVars, history>>

-----------------------------------------------------------------------------
CallStep(c) ==
  \/ \E expectResponse \in BOOLEAN : Send(c, expectResponse)
  \/ Refuse(c)
  \/ Drained(c)
  \/ DrainFails(c)
  \/ Resume(c)
  \/ CancelCall(c)

CloseStep(k) ==
  \/ CloseEarlyReturn(k)
  \/ CloseStart(k)
  \/ CloseCancelsReader(k)
  \/ CloseWriter(k)
  \/ CloseFinally(k)
  \/ CloseAborted(k)

ReadStep == ReadFrame \/ ReadEof \/ HandlerRaises \/ ReaderCancelled

LineStep ==
  \/ \E c \in Calls : DevAnswers(c)
  \/ \E s \in AsyncSeqs : DevMessage(s)
  \/ LinkDown

Next ==
  \/ \E c \in Calls : CallStep(c)
  \/ \E k \in Closers : CloseStep(k)
  \/ ReadStep
  \/ LineStep

Spec == Init /\ [][Next]_vars

-----------------------------------------------------------------------------
(* Properties *)

\* Once the device is closed, by close(), by an aborted close() or by the end
\* of the stream, no caller is left awaiting a future that nobody will
\* complete, unless a sequence number was reused while still in use.
NobodyLeftWaiting ==
  closed /\ ~reused => \A c \in Calls : fut[c] # "pending"

\* A caller is handed the answer to its own request, however replies,
\* cancellations and unsolicited frames interleave.  This needs the adapter to
\* number unsolicited frames 0, which _next_seq never gives out, and no
\* sequence number to be reused while in use.
ReplyMatchesRequest ==
  AsyncSeqs \subseteq {0} /\ ~reused =>
    \A c \in Calls : fut[c] = "result" => got[c] = c

\* A future is completed once: a late reply or the shutdown never changes
\* what a caller was told, or what a cancelled caller left behind.
FutureCompletedOnce ==
  [][\A c \in Calls :
       fut[c] \in {"result", "exception", "cancelled"} => fut'[c] = fut[c]]_vars

-----------------------------------------------------------------------------
(* What the callers see of it all. *)
PromiseOf(c) ==
  CASE fut[c] = "none"      -> "none"
    [] fut[c] = "pending"   -> "open"
    [] fut[c] = "result"    -> IF got[c] = c THEN "kept" ELSE "mistaken"
    [] fut[c] = "exception" -> "broken"
    [] fut[c] = "cancelled" -> "dropped"

Promises == INSTANCE CarBusPromises WITH
  promise <- [c \in Calls |-> PromiseOf(c)],
  accepting <- ~closed

\* Sequence numbers, the table, the read loop and close() implement
\* CarBusPromises, until a number is reused while in use; unsolicited frames
\* must carry 0.
ImplementsPromises ==
  Promises!Init /\ [][Promises!Next \/ reused]_Promises!vars
=============================================================================
