--------------------------- MODULE CarBusPromises ---------------------------
(***************************************************************************)
(* What device.py owes the callers of _send_raw, without numbers, frames   *)
(* or tasks: a request is a promise, settled once, by its own answer, by   *)
(* an error, or by the caller giving up; closing breaks in one step every  *)
(* promise that is still open, and none is made afterwards.                *)
(***************************************************************************)

CONSTANT Calls

VARIABLES promise, accepting

vars == <<promise, accepting>>

Init ==
  /\ promise = [c \in Calls |-> "none"]
  /\ accepting = TRUE

Make(c) ==
  /\ accepting
  /\ promise[c] = "none"
  /\ promise' = [promise EXCEPT ![c] = "open"]
  /\ UNCHANGED accepting

Settle(c, how) ==
  /\ promise[c] = "open"
  /\ promise' = [promise EXCEPT ![c] = how]
  /\ UNCHANGED accepting

\* The reader ends while close() is still at work.
BreakAll ==
  /\ promise' = [c \in Calls |-> IF promise[c] = "open" THEN "broken" ELSE promise[c]]
  /\ UNCHANGED accepting

\* The callers in gone give up in the same step: an aborted close().
Shut(gone) ==
  /\ accepting' = FALSE
  /\ promise' = [c \in Calls |->
                   IF promise[c] # "open" THEN promise[c]
                   ELSE IF c \in gone THEN "dropped" ELSE "broken"]

Next ==
  \/ \E c \in Calls :
       \/ Make(c)
       \/ \E how \in {"kept", "broken", "dropped"} : Settle(c, how)
       \/ Shut({c})
  \/ BreakAll
  \/ Shut({})

Spec == Init /\ [][Next]_vars
=============================================================================
