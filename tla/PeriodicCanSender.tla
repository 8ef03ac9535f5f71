------------------------- MODULE PeriodicCanSender -------------------------
(***************************************************************************)
(* carbus_async/periodic.py: jobs that send a CAN frame every period, each *)
(* in an asyncio task of its own, and the sender that names them.          *)
(*                                                                         *)
(* Between two awaits a task runs alone.  The user calls the sender        *)
(* between those pieces; stop_all gives way while its stops run.           *)
(***************************************************************************)
EXTENDS Integers, FiniteSets

CONSTANTS
  Names,
  Period,
  SingleUser,  \* nobody calls the sender while stop_all runs
  MaxJobs,     \* bound: calls of add
  MaxTasks,    \* bound: tasks started
  MaxTime      \* bound: the clock

ASSUME PeriodicAssumption ==
  /\ Period \in Nat \ {0}
  /\ SingleUser \in BOOLEAN
  /\ {MaxJobs, MaxTasks, MaxTime} \subseteq Nat

\* Jobs and tasks are numbered as they are created, 0 is None.
Jobs == 1 .. MaxJobs
Tasks == 1 .. MaxTasks

VARIABLES
  jobs,      \* _jobs: name -> job, or 0
  taskOf,    \* job -> its _task, or 0
  added, started,  \* how many jobs and tasks there are
  pc,        \* where each task is
  nextT,     \* its next_t
  cancelled, \* tasks that were cancelled
  stopSet,   \* tasks whose _stop event is set
  frames,    \* frames it has sent
  since,     \* when it began
  stopping,  \* jobs stop_all still has to stop
  inStopAll,
  raised,    \* the last call of the user raised
  now

senderVars == <<jobs, taskOf, added, started, stopping, inStopAll, raised>>
taskVars == <<pc, nextT, frames, since>>
stopVars == <<cancelled, stopSet>>
vars == <<senderVars, taskVars, stopVars, now>>

TypeOK ==
  /\ jobs \in [Names -> 0 .. MaxJobs]
  /\ taskOf \in [Jobs -> 0 .. MaxTasks]
  /\ added \in 0 .. MaxJobs /\ started \in 0 .. MaxTasks
  /\ pc \in [Tasks -> {"none", "created", "top", "sleep", "modify", "drain", "done"}]
  /\ nextT \in [Tasks -> Nat] /\ frames \in [Tasks -> Nat] /\ since \in [Tasks -> Nat]
  /\ cancelled \subseteq stopSet /\ stopSet \subseteq 1 .. started
  /\ stopping \subseteq Jobs /\ inStopAll \in BOOLEAN /\ raised \in BOOLEAN
  /\ now \in 0 .. MaxTime
  /\ \A t \in Tasks : pc[t] = "none" <=> t > started
  /\ \A m, n \in Names : jobs[m] = jobs[n] /\ jobs[m] # 0 => m = n

Init ==
  /\ jobs = [n \in Names |-> 0] /\ taskOf = [j \in Jobs |-> 0]
  /\ added = 0 /\ started = 0
  /\ pc = [t \in Tasks |-> "none"]
  /\ nextT = [t \in Tasks |-> 0] /\ frames = [t \in Tasks |-> 0] /\ since = [t \in Tasks |-> 0]
  /\ cancelled = {} /\ stopSet = {}
  /\ stopping = {} /\ inStopAll = FALSE /\ raised = FALSE
  /\ now = 0

UserMayCall == SingleUser => ~inStopAll

-----------------------------------------------------------------------------
(* PeriodicJob.start and stop *)

\* Mutant: every start makes a task.
StartableAlways(j) == TRUE

\* A start while the last task is not done does nothing, though that task may
\* have been cancelled already.
Startable(j) == taskOf[j] \in {0} \cup {t \in Tasks : pc[t] = "done"}

StartTask(j) ==
  /\ started < MaxTasks
  /\ started' = started + 1
  /\ taskOf' = [taskOf EXCEPT ![j] = started']
  /\ pc' = [pc EXCEPT ![started'] = "created"]

\* Mutant: the event is set, and the task left to notice.
StopTaskGently(j) ==
  /\ stopSet' = stopSet \cup ({taskOf[j]} \ {0})
  /\ UNCHANGED cancelled

\* Mutant: the task is cancelled, the event forgotten.
StopTaskCancelsOnly(j) ==
  /\ cancelled' = cancelled \cup ({taskOf[j]} \ {0})
  /\ UNCHANGED stopSet

\* The event and the cancellation.  Then "with None" raises, so that _task
\* stays what it is; a job that was never started gets no further than that.
StopTask(j) ==
  /\ stopSet' = stopSet \cup ({taskOf[j]} \ {0})
  /\ cancelled' = cancelled \cup ({taskOf[j]} \ {0})

-----------------------------------------------------------------------------
(* PeriodicCanSender *)

Add(n, autostart) ==
  /\ UserMayCall
  /\ jobs[n] = 0 /\ added < MaxJobs
  /\ added' = added + 1
  /\ jobs' = [jobs EXCEPT ![n] = added']
  /\ IF autostart THEN StartTask(added') ELSE UNCHANGED <<taskOf, started, pc>>
  /\ raised' = FALSE
  /\ UNCHANGED <<stopping, inStopAll, nextT, frames, since, stopVars, now>>

AddTaken(n) ==
  /\ UserMayCall
  /\ jobs[n] # 0
  /\ raised' = TRUE
  /\ UNCHANGED <<jobs, taskOf, added, started, stopping, inStopAll, taskVars, stopVars, now>>

\* get(name).start(dev); it returns at once when the job is not startable.
StartJob(n) ==
  /\ UserMayCall
  /\ jobs[n] # 0
  /\ Startable(jobs[n])
  /\ StartTask(jobs[n])
  /\ raised' = FALSE
  /\ UNCHANGED <<jobs, added, stopping, inStopAll, nextT, frames, since, stopVars, now>>

Remove(n) ==
  /\ UserMayCall
  /\ jobs[n] # 0
  /\ StopTask(jobs[n])
  /\ raised' = (taskOf[jobs[n]] # 0)
  /\ jobs' = [jobs EXCEPT ![n] = 0]
  /\ UNCHANGED <<taskOf, added, started, stopping, inStopAll, taskVars, now>>

\* The jobs of this moment are handed to gather.
StopAll ==
  /\ ~inStopAll
  /\ inStopAll' = TRUE
  /\ stopping' = {jobs[n] : n \in Names} \ {0}
  /\ UNCHANGED <<jobs, taskOf, added, started, raised, taskVars, stopVars, now>>

StopAllStops(j) ==
  /\ j \in stopping
  /\ StopTask(j)
  /\ stopping' = stopping \ {j}
  /\ UNCHANGED <<jobs, taskOf, added, started, inStopAll, raised, taskVars, now>>

\* return_exceptions hides what the stops raised; _jobs is cleared, with
\* whatever was added since.
StopAllEnds ==
  /\ inStopAll /\ stopping = {}
  /\ inStopAll' = FALSE /\ raised' = FALSE
  /\ jobs' = [n \in Names |-> 0]
  /\ UNCHANGED <<taskOf, added, started, stopping, taskVars, stopVars, now>>

-----------------------------------------------------------------------------
(* PeriodicJob._run *)

Alive(t) == pc[t] \notin {"none", "done"} /\ t \notin cancelled

Begin(t) ==
  /\ Alive(t) /\ pc[t] = "created"
  /\ since' = [since EXCEPT ![t] = now]
  /\ nextT' = [nextT EXCEPT ![t] = now]
  /\ pc' = [pc EXCEPT ![t] = "top"]
  /\ UNCHANGED <<frames, senderVars, stopVars, now>>

\* Mutant: the schedule is not moved on.
DueNextAtOnce(t) == nextT[t]

DueNext(t) == nextT[t] + Period

\* Too early: sleep.
Sleep(t) ==
  /\ Alive(t) /\ pc[t] = "top" /\ t \notin stopSet
  /\ now < nextT[t]
  /\ pc' = [pc EXCEPT ![t] = "sleep"]
  /\ UNCHANGED <<nextT, frames, since, senderVars, stopVars, now>>

\* On time, late, or woken: send, unless an async modify is awaited first.
Fire(t) ==
  /\ Alive(t)
  /\ pc[t] = "sleep" \/ (pc[t] = "top" /\ t \notin stopSet)
  /\ now >= nextT[t]
  /\ nextT' = [nextT EXCEPT ![t] = DueNext(t)]
  /\ \/ /\ pc' = [pc EXCEPT ![t] = "drain"]
        /\ frames' = [frames EXCEPT ![t] = @ + 1]
     \/ /\ pc' = [pc EXCEPT ![t] = "modify"]
        /\ UNCHANGED frames
  /\ UNCHANGED <<since, senderVars, stopVars, now>>

Modified(t) ==
  /\ Alive(t) /\ pc[t] = "modify"
  /\ pc' = [pc EXCEPT ![t] = "drain"]
  /\ frames' = [frames EXCEPT ![t] = @ + 1]
  /\ UNCHANGED <<nextT, since, senderVars, stopVars, now>>

Sent(t) ==
  /\ Alive(t) /\ pc[t] = "drain"
  /\ pc' = [pc EXCEPT ![t] = "top"]
  /\ UNCHANGED <<nextT, frames, since, senderVars, stopVars, now>>

\* The loop is left: the event, the cancellation, or modify or send_can raised.
\* A crashed job keeps its name.
EndTask(t) ==
  /\ \/ t \in cancelled /\ pc[t] \notin {"none", "done"}
     \/ t \in stopSet /\ pc[t] = "top"
     \/ pc[t] \in {"modify", "drain"}
  /\ pc' = [pc EXCEPT ![t] = "done"]
  /\ UNCHANGED <<nextT, frames, since, senderVars, stopVars, now>>

\* External: the clock.
Tick ==
  /\ now < MaxTime
  /\ now' = now + 1
  /\ UNCHANGED <<senderVars, taskVars, stopVars>>

-----------------------------------------------------------------------------
UserStep ==
  \/ \E n \in Names :
       \/ \E autostart \in BOOLEAN : Add(n, autostart)
       \/ AddTaken(n)
       \/ StartJob(n)
       \/ Remove(n)
  \/ StopAll

TaskStep(t) ==
  \/ Begin(t)
  \/ Sleep(t)
  \/ Fire(t)
  \/ Modified(t)
  \/ Sent(t)
  \/ EndTask(t)

Next ==
  \/ UserStep
  \/ \E j \in Jobs : StopAllStops(j)
  \/ StopAllEnds
  \/ \E t \in Tasks : TaskStep(t)
  \/ Tick

Spec == Init /\ [][Next]_vars

-----------------------------------------------------------------------------
(* Properties *)

\* Frame number k of a job leaves no earlier than k - 1 periods after its task
\* began, however late frames were before: a late job catches up, and never
\* gets ahead.
NeverAhead ==
  \A t \in Tasks : frames[t] > 0 => (frames[t] - 1) * Period <= now - since[t]

\* Once stop ran, even though it raised half-way, its task sends nothing more.
SilentAfterStop ==
  [][\A t \in stopSet : frames'[t] = frames[t]]_vars

\* README.md:229-230: a job that runs can be stopped by its name or with all
\* the others: it is the task of a job the sender knows.
RunningIsStoppable ==
  \A t \in 1 .. started :
    pc[t] # "done" /\ t \notin stopSet =>
      \E n \in Names : jobs[n] # 0 /\ taskOf[jobs[n]] = t
=============================================================================
