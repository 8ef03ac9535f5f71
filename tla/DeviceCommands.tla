--------------------------- MODULE DeviceCommands ---------------------------
(***************************************************************************)
(* The operations of carbus_async/device.py that are built from requests:  *)
(* open(), open_can_channel() and open_can_channel_custom(), the filters,  *)
(* the terminator and DeviceInfo.  One task issues them one after another  *)
(* over the command plane of CarBusDevice while another may close() it.    *)
(*                                                                         *)
(* Commands and device info are lists of 32-bit words, a header with its   *)
(* parameter's code and a small value, followed when CC_MULTIWORD is set   *)
(* by so many data words, which may look like headers.  Arguments that     *)
(* raise ValueError before any request is made are left out.               *)
(***************************************************************************)
EXTENDS CarBusDevice, FiniteSets

CONSTANTS
  Channels,     \* the arguments of open_can_channel tried
  MaxFilters    \* the max_filters of clear_all_filters

\* Sequence numbers are not used up here: MCCarBusDevice is about that.  open()
\* makes a request; clear_all_filters(max_filters=0) makes none and is left out.
ASSUME CommandsAssumption ==
  /\ IsFiniteSet(Calls) /\ Calls \ Closers # {}
  /\ Calls \ Closers = 1 .. Cardinality(Calls \ Closers)
  /\ Cardinality(Calls) <= MaxSeq
  /\ MaxFilters \in Nat \ {0}
  /\ Channels \subseteq [custom : BOOLEAN, fd : BOOLEAN, indexed : BOOLEAN, brs : BOOLEAN,
                          listenOnly : BOOLEAN, loopback : BOOLEAN, retransmit : BOOLEAN,
                          nonIso : BOOLEAN]

VARIABLES
  user,     \* the task: "syncing", "busy", "undrained" when drain
            \* raised, "idle", or "gone" without a device
  op,       \* the operation it runs or has just ended
  made,     \* its requests so far; number made is the one in progress
  cleared,  \* the count of clear_all_filters
  outcome,  \* how op ended
  command,  \* the commands of the last request and of those not yet executed
  terminated,  \* adapter: has a terminator on the channel
  adapter,  \* adapter: what it was told
  executed  \* history: the requests it executed

userVars == <<user, op, made, cleared, outcome, command>>
adapterVars == <<terminated, adapter, executed>>
allVars == <<vars, userVars, adapterVars>>

Word(code, value) == [code |-> code, value |-> value, data |-> 0]
MultiWord(code, length) == [code |-> code, value |-> "custom", data |-> length]

(* DeviceInfo.from_payload: the headers, skipping the data words of each. *)
Params(words) ==
  LET from[i \in 1 .. Len(words) + 256] ==
        IF i > Len(words) THEN {} ELSE {words[i]} \cup from[i + 1 + words[i].data]
  IN from[1]

Info(hasTerminator) ==
  <<Word("CHANNEL_FEATURES", IF hasTerminator THEN "terminator" ELSE "plain"),
    MultiWord("DEVICE_SERIAL", 1), Word("CHANNEL_FEATURES", "terminator")>>

\* Mutant: data words are taken for headers.
HasTerminatorUnskipped(words) ==
  \E i \in DOMAIN words : words[i] = Word("CHANNEL_FEATURES", "terminator")

(* channel_features, and has_terminator of the channel. *)
HasTerminator(words) == Word("CHANNEL_FEATURES", "terminator") \in Params(words)

\* A CAN FD channel goes the way of explicit timings unless indices are given.
Custom(a) == a.custom \/ (a.fd /\ ~a.indexed)

Speed(code, custom) ==
  IF custom THEN <<MultiWord(code, 2), Word("timing", 1), Word("timing", 2)>>
  ELSE <<Word(code, "index")>>

ModeWords(a) ==
  <<Word("CAN_MODE", IF a.loopback THEN "loopback"
                     ELSE IF a.listenOnly THEN "listen" ELSE "normal"),
    Word("CAN_FRAME", IF ~a.fd THEN "classic" ELSE IF a.brs THEN "brs" ELSE "fd")>>

Options(a) ==
  (IF a.retransmit THEN <<Word("RETRANSMIT", 1)>> ELSE <<>>)
  \o (IF a.nonIso /\ (a.fd \/ a.custom) THEN <<Word("NON_ISO", 1)>> ELSE <<>>)

OpenWords(a) ==
  ModeWords(a) \o Speed("BUS_SPEED_N", Custom(a))
    \o (IF a.fd THEN Speed("BUS_SPEED_D", Custom(a)) ELSE <<>>) \o Options(a)

Operations ==
  [name : {"open_can_channel"}, args : Channels]
    \cup [name : {"set_can_filter"}, index : 0 .. MaxFilters - 1]
    \cup [name : {"clear_all_filters"}, stopOnError : BOOLEAN]
    \cup [name : {"ensure_terminator"}, enabled : BOOLEAN]

Plain(name) == [name |-> name]
FilterClear(i) == [name |-> "FILTER_CLEAR", filter |-> i]
SetTerminator(on) == [name |-> "CHANNEL_CONFIG", enabled |-> on]

FirstCommand(o) ==
  CASE o.name = "open_can_channel"  -> [name |-> "CHANNEL_OPEN", words |-> OpenWords(o.args)]
    [] o.name = "set_can_filter"    -> [name |-> "FILTER_SET", filter |-> o.index]
    [] o.name = "clear_all_filters" -> FilterClear(0)
    [] o.name = "ensure_terminator" -> Plain("DEVICE_INFO")

\* Bound: an operation begins only when it can make all its requests, and not
\* once the line is down or the device is being closed.
MaxRequests(o) ==
  CASE o.name = "clear_all_filters" -> MaxFilters
    [] o.name = "ensure_terminator" -> 2
    [] OTHER -> 1

\* Bound: a session keeps to operations on one part of the adapter.  Those on
\* different parts have nothing in common but the command plane, and only one
\* looks at whether there is a terminator.
Part(o) == IF o.name = "set_can_filter" THEN "clear_all_filters" ELSE o.name

Opening == Plain("open")
Raised == [how |-> "raised"]
Returned == [how |-> "returned"]

CommandsInit ==
  /\ Init
  /\ user = "syncing" /\ op = Opening /\ made = 0 /\ cleared = 0
  /\ outcome = [how |-> "none"]
  /\ command = [c \in Calls |-> Plain("none")]
  /\ terminated \in BOOLEAN
  /\ adapter = [filters |-> {}, channel |-> {}, switched |-> {}]
  /\ executed = {}

-----------------------------------------------------------------------------
\* What an action of CarBusDevice does, the operations and the adapter aside.
Alone(A) == A /\ UNCHANGED <<userVars, adapterVars>>

Issue(cmd) ==
  /\ made' = made + 1
  /\ command' = [c \in Calls |-> IF c = made + 1 THEN cmd
                                 ELSE IF c \in inDev THEN command[c] ELSE Plain("none")]
  /\ Send(made + 1, TRUE) \/ Refuse(made + 1)
  /\ UNCHANGED adapterVars

Ends(how) ==
  /\ user' = "idle"
  /\ outcome' = how
  /\ UNCHANGED <<vars, op, made, cleared, command, adapterVars>>

\* The last request is over.  The code goes on in the same step as Resume;
\* until it does, nobody sees the difference.
Answered == user = "busy" /\ call[made] = "returned"

\* CommandError: the adapter refused.  Everything else leaves the operation:
\* CarBusError, a drain that raises, a cancellation.
Refused == user = "busy" /\ call[made] = "raised" /\ got[made] # NoCall
Broken ==
  \/ user = "undrained"
  \/ user = "busy" /\ call[made] \in {"refused", "cancelled"}
  \/ user = "busy" /\ call[made] = "raised" /\ got[made] = NoCall

Undrained(c) ==
  /\ DrainFails(c)
  /\ user' = IF c \in Closers THEN user ELSE "undrained"
  /\ UNCHANGED <<op, made, cleared, outcome, command, adapterVars>>

\* open(): sync() reads four bytes itself, before there is a read loop.
Synced ==
  /\ user = "syncing"
  /\ link /\ fromDev = <<>>
  /\ user' = "busy"
  /\ Issue(Plain("DEVICE_OPEN"))
  /\ UNCHANGED <<op, cleared, outcome>>

\* A wrong answer, an adapter that still sends from an earlier session, or the
\* end of the stream: open() raises and the port stays open.
SyncFails ==
  /\ user = "syncing"
  /\ user' = "gone"
  /\ outcome' = Raised
  /\ UNCHANGED <<vars, op, made, cleared, command, adapterVars>>

Opened == op = Opening /\ Answered /\ Ends(Returned)

OpenFails ==
  /\ op = Opening
  /\ Refused \/ Broken
  /\ user' = "gone"
  /\ outcome' = Raised
  /\ UNCHANGED <<vars, op, made, cleared, command, adapterVars>>

Begin(o) ==
  /\ user = "idle"
  /\ link /\ \A k \in Closers : closing[k] = "idle"
  /\ made + MaxRequests(o) <= Cardinality(Calls \ Closers)
  /\ op = Opening \/ Part(op) = Part(o)
  /\ terminated \/ o.name = "ensure_terminator"
  /\ user' = "busy"
  /\ op' = o
  /\ cleared' = 0
  /\ outcome' = [how |-> "none"]
  /\ Issue(FirstCommand(o))

OneRequestEnds ==
  /\ op.name \in {"open_can_channel", "set_can_filter"}
  /\ \/ Answered /\ Ends(Returned)
     \/ (Refused \/ Broken) /\ Ends(Raised)

\* clear_all_filters after filter idx, of which so many are now cleared.
NextFilter(idx, count) ==
  IF idx + 1 < MaxFilters
  THEN /\ cleared' = count
       /\ Issue(FilterClear(idx + 1))
       /\ UNCHANGED <<user, op, outcome>>
  ELSE Ends([how |-> "returned", count |-> count])

ClearGoesOn ==
  /\ op.name = "clear_all_filters"
  /\ \/ Answered /\ NextFilter(command[made].filter, cleared + 1)
     \/ ~op.stopOnError /\ Refused /\ NextFilter(command[made].filter, cleared)

\* Mutant: the clause catches CarBusError, so that a lost line ends the count.
ClearStopsOnAnything ==
  /\ op.name = "clear_all_filters"
  /\ \/ op.stopOnError /\ (Refused \/ Broken) /\ Ends([how |-> "returned", count |-> cleared])
     \/ ~op.stopOnError /\ Broken /\ Ends(Raised)

ClearStops ==
  /\ op.name = "clear_all_filters"
  /\ \/ op.stopOnError /\ Refused /\ Ends([how |-> "returned", count |-> cleared])
     \/ Broken /\ Ends(Raised)

TerminatorGoesOn ==
  /\ op.name = "ensure_terminator"
  /\ Answered
  /\ IF command[made].name = "DEVICE_INFO" /\ HasTerminator(Info(terminated))
     THEN /\ Issue(SetTerminator(op.enabled))
          /\ UNCHANGED <<user, op, cleared, outcome>>
     ELSE Ends([how |-> "returned", switched |-> command[made].name = "CHANNEL_CONFIG"])

TerminatorFails ==
  op.name = "ensure_terminator" /\ (Refused \/ Broken) /\ Ends(Raised)

TakesUp ==
  \/ Opened \/ OpenFails \/ OneRequestEnds
  \/ ClearGoesOn \/ ClearStops
  \/ TerminatorGoesOn \/ TerminatorFails

-----------------------------------------------------------------------------
(* The adapter: external.  It takes one command after another, executes it   *)
(* or answers ERROR, and reads words the way the code writes them.           *)
Execute(cmd) ==
  CASE cmd.name = "CHANNEL_OPEN"   -> [adapter EXCEPT !.channel = Params(cmd.words)]
    [] cmd.name = "FILTER_SET"     -> [adapter EXCEPT !.filters = @ \cup {cmd.filter}]
    [] cmd.name = "FILTER_CLEAR"   -> [adapter EXCEPT !.filters = @ \ {cmd.filter}]
    [] cmd.name = "CHANNEL_CONFIG" -> [adapter EXCEPT !.switched = {cmd.enabled}]
    [] OTHER -> adapter

AdapterAnswers(c) ==
  /\ \A d \in inDev : seqOf[c] <= seqOf[d]
  /\ DevAnswers(c)
  /\ IF fromDev'[Len(fromDev')].kind = "REPLY"
     THEN adapter' = Execute(command[c]) /\ executed' = executed \cup {c}
     ELSE UNCHANGED <<adapter, executed>>
  /\ UNCHANGED <<terminated, userVars>>

Waits(c) == Drained(c) \/ Resume(c) \/ CancelCall(c)
ReaderRuns == made > 0 /\ ReadStep
UserCloses(k) == (user = "idle" \/ op # Opening) /\ CloseStep(k)

CommandsNext ==
  \/ Synced \/ SyncFails \/ TakesUp
  \/ \E o \in Operations : Begin(o)
  \/ \E c \in Calls : Alone(Waits(c)) \/ Undrained(c) \/ AdapterAnswers(c)
  \/ \E k \in Closers : Alone(UserCloses(k))
  \/ Alone(ReaderRuns)
  \/ Alone(LinkDown)

\* The event loop runs every task that can run.  A drain and a wait_closed are
\* only sure to end when the connection is gone; the adapter owes nothing.
CommandsFairness ==
  /\ WF_allVars(Alone(ReaderRuns))
  /\ WF_allVars(TakesUp)
  /\ WF_allVars(~link /\ SyncFails)
  /\ \A c \in Calls :
       /\ WF_allVars(Alone(Resume(c)))
       /\ WF_allVars(~link /\ (Alone(Drained(c)) \/ Undrained(c)))
  /\ \A k \in Closers :
       /\ WF_allVars(Alone(CloseCancelsReader(k) \/ CloseWriter(k)))
       /\ WF_allVars(~link /\ Alone(CloseFinally(k)))

CommandsSpec == CommandsInit /\ [][CommandsNext]_allVars /\ CommandsFairness

-----------------------------------------------------------------------------
(* Properties *)

Done(name) == op.name = name /\ user = "idle" /\ outcome.how = "returned"

\* When the line drops, whatever the task is in the middle of, open() and the
\* loop of clear_all_filters included, ends without anybody's help, and so does
\* every close().
LinkDownEndsAll ==
  /\ ~link /\ user \notin {"idle", "gone"} ~> user \in {"idle", "gone"}
  /\ \A k \in Closers :
       ~link /\ closing[k] \notin {"idle", "returned"} ~> closing[k] = "returned"

\* The number clear_all_filters returns is the number of filters the adapter
\* cleared for it, wherever refusals, cancelled operations before it, close()
\* and the end of the line fall; when it stops at the first refusal, no filter
\* below that number is left.
ClearCount ==
  Done("clear_all_filters") =>
    /\ outcome.count = Cardinality(executed \cap (made - command[made].filter .. made))
    /\ op.stopOnError => \A f \in adapter.filters : f >= outcome.count

\* What the parameters of open_can_channel mean: loopback goes before listen
\* only, bit-rate switching needs FD, and so does non-ISO unless the timings
\* are explicit.
Asked(a) ==
  [loopback |-> a.loopback, silent |-> a.listenOnly /\ ~a.loopback, fd |-> a.fd,
   brs |-> a.fd /\ a.brs, timed |-> a.custom \/ (a.fd /\ ~a.indexed), dataSpeed |-> a.fd,
   retransmit |-> a.retransmit, nonIso |-> a.nonIso /\ (a.fd \/ a.custom)]

Meaning(params) ==
  LET has(code, values) == \E p \in params : p.code = code /\ p.value \in values
  IN [loopback |-> has("CAN_MODE", {"loopback"}), silent |-> has("CAN_MODE", {"listen"}),
      fd |-> has("CAN_FRAME", {"fd", "brs"}), brs |-> has("CAN_FRAME", {"brs"}),
      timed |-> has("BUS_SPEED_N", {"custom"}),
      dataSpeed |-> has("BUS_SPEED_D", {"index", "custom"}),
      retransmit |-> has("RETRANSMIT", {1}), nonIso |-> has("NON_ISO", {1})]

\* When open_can_channel returns, the adapter's channel is set up as asked and
\* not as an earlier, cancelled call asked; the terminator is switched only on
\* an adapter that says it has one, whatever the data in its device info looks
\* like, and ensure_terminator tells its caller whether it was.
AdapterAsTold ==
  /\ Done("open_can_channel") => Meaning(adapter.channel) = Asked(op.args)
  /\ adapter.switched # {} => terminated
  /\ Done("ensure_terminator") =>
       /\ outcome.switched = terminated
       /\ terminated => adapter.switched = {op.enabled}
=============================================================================
