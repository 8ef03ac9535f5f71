----------------------------- MODULE PduChannel -----------------------------
(***************************************************************************)
(* What an IsoTpChannel promises whoever calls send_pdu and recv_pdu, one  *)
(* at a time, and what it does not: PDUs arrive whole and in the order     *)
(* they were sent; one that is announced but not sent to its end never     *)
(* arrives; what waits to be received may get lost; and a PDU that takes   *)
(* several frames is announced to recv_pdu, which then raises.             *)
(*                                                                         *)
(* Its environment is what is at the other end.  Two endpoints joined to   *)
(* each other are two instances with inbox and outbox exchanged.           *)
(***************************************************************************)
EXTENDS Sequences, SequencesExt

CONSTANTS
  Pdus,
  Long(_)    \* the PDUs of more than one frame

VARIABLES
  task,      \* what the caller is in
  outbox,    \* PDUs on their way to the other end
  raised,    \* some send_pdu raised
  inbox,     \* PDUs on their way to the caller, or waiting for it
  received   \* how the last recv_pdu ended, none before its end

vars == <<task, outbox, raised, inbox, received>>
recvVars == <<inbox, received>>

NoneRaised == raised' = raised

Announced(p) == [pdu |-> p, whole |-> FALSE]
Whole(p) == [pdu |-> p, whole |-> TRUE]
Nothing == <<"nothing">>
Raised == <<"raised">>
Got(p) == <<"pdu", p>>

Init ==
  /\ task = "idle"
  /\ outbox = <<>> /\ raised = FALSE
  /\ inbox = <<>> /\ received = <<"none">>

-----------------------------------------------------------------------------
(* send_pdu *)

SendShort(p) ==
  /\ task = "idle" /\ ~Long(p)
  /\ outbox' = Append(outbox, Whole(p))
  /\ NoneRaised /\ UNCHANGED <<task, recvVars>>

SendLong(p) ==
  /\ task = "idle" /\ Long(p)
  /\ task' = "sending"
  /\ outbox' = Append(outbox, Announced(p))
  /\ NoneRaised /\ UNCHANGED recvVars

\* The end of a send_pdu in progress; the other end may have given up on the
\* PDU by then.
SendReturns ==
  /\ task = "sending"
  /\ task' = "idle"
  /\ outbox' = IF outbox # <<>> /\ ~Last(outbox).whole
               THEN Append(Front(outbox), Whole(Last(outbox).pdu)) ELSE outbox
  /\ NoneRaised /\ UNCHANGED recvVars

SendRaises ==
  /\ task = "sending"
  /\ task' = "idle" /\ raised' = TRUE
  /\ UNCHANGED <<outbox, recvVars>>

-----------------------------------------------------------------------------
(* recv_pdu *)

RecvPdu ==
  /\ task = "idle"
  /\ task' = "receiving" /\ received' = <<"none">>
  /\ NoneRaised /\ UNCHANGED <<outbox, inbox>>

\* A timeout, or a frame that starts no PDU.
RecvNothing ==
  /\ task = "receiving"
  /\ task' = "idle" /\ received' = Nothing
  /\ NoneRaised /\ UNCHANGED <<outbox, inbox>>

RecvShort ==
  /\ task = "receiving"
  /\ inbox # <<>> /\ ~Long(Head(inbox).pdu)
  /\ task' = "idle" /\ received' = Got(Head(inbox).pdu)
  /\ inbox' = Tail(inbox)
  /\ NoneRaised /\ UNCHANGED outbox

RecvLong ==
  /\ task = "receiving"
  /\ inbox # <<>> /\ Long(Head(inbox).pdu)
  /\ task' = "assembling"
  /\ inbox' = Tail(inbox)
  /\ NoneRaised /\ UNCHANGED <<outbox, received>>

RecvRaises ==
  /\ task = "assembling"
  /\ task' = "idle" /\ received' = Raised
  /\ NoneRaised /\ UNCHANGED <<outbox, inbox>>

\* A frame lost on the way, or taken by a call that does not want it.
Lose ==
  /\ \E i \in DOMAIN inbox : inbox' = RemoveAt(inbox, i)
  /\ NoneRaised /\ UNCHANGED <<task, outbox, received>>

\* send_pdu takes a PDU where it looks for flow control.
SendTakes ==
  /\ task = "sending"
  /\ inbox # <<>> /\ inbox' = Tail(inbox)
  /\ task' = "idle" /\ raised' = TRUE
  /\ UNCHANGED <<outbox, received>>

-----------------------------------------------------------------------------
(* External: the other end. *)

\* It has the i-th PDU that is on its way.  One that was sent before is skipped
\* only if it was not sent to its end, or if some send_pdu went wrong.
Arrive(i) ==
  /\ outbox[i].whole
  /\ \A j \in 1 .. i - 1 : raised \/ ~outbox[j].whole
  /\ outbox' = SubSeq(outbox, i + 1, Len(outbox))
  /\ NoneRaised /\ UNCHANGED <<task, recvVars>>

Put(p) ==
  /\ inbox' = Append(inbox, Announced(p))
  /\ NoneRaised /\ UNCHANGED <<task, outbox, received>>

-----------------------------------------------------------------------------
Send == (\E p \in Pdus : SendShort(p) \/ SendLong(p)) \/ SendReturns \/ SendRaises \/ SendTakes
Recv == RecvPdu \/ RecvNothing \/ RecvShort \/ RecvLong \/ RecvRaises

Next ==
  \/ Send
  \/ Recv
  \/ Lose
  \/ \E i \in DOMAIN outbox : Arrive(i)
  \/ \E p \in Pdus : Put(p)

Spec == Init /\ [][Next]_vars
=============================================================================
