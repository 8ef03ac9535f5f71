----------------------- MODULE PeriodicCanSenderProofs -----------------------
(***************************************************************************)
(* What PeriodicCanSender guarantees for any names, any period and any     *)
(* number of jobs and tasks.                                               *)
(***************************************************************************)
EXTENDS PeriodicCanSender, TLAPS

\* Jobs and tasks are handed out in order, and what is stopped is cancelled.
Numbered ==
  /\ \A n \in Names : jobs[n] <= added
  /\ \A j \in Jobs : taskOf[j] <= started
  /\ stopSet \subseteq cancelled

\* The schedule of a task that runs: it has moved on by a period for every
\* frame, the one under way in an async modify included, and by no more than
\* one beyond the present.
OnSchedule(t) ==
  IF pc[t] \in {"none", "created"}
  THEN frames[t] = 0 /\ nextT[t] = 0 /\ since[t] = 0
  ELSE /\ frames[t] * Period <= nextT[t] - since[t]
       /\ pc[t] = "modify" => frames[t] * Period + Period <= nextT[t] - since[t]
       /\ nextT[t] <= now + Period

\* While stop_all runs and nobody else calls, the jobs it does not have to stop
\* any more are stopped.
StopAllUnderWay ==
  SingleUser /\ inStopAll =>
    \A n \in Names :
      jobs[n] # 0 => jobs[n] \in stopping \/ taskOf[jobs[n]] \in stopSet \cup {0}

IInv ==
  /\ TypeOK
  /\ Numbered
  /\ \A t \in Tasks : OnSchedule(t)

-----------------------------------------------------------------------------
LEMMA Bounds == MaxJobs \in Nat /\ MaxTasks \in Nat /\ MaxTime \in Nat /\ Period \in Nat \ {0}
  BY PeriodicAssumption

LEMMA InitIInv == Init => IInv
<1>. SUFFICES ASSUME Init PROVE IInv
  OBVIOUS
<1>. USE Bounds DEF Init, Jobs, Tasks
<1>1. TypeOK
  <2>1. \A t \in Tasks : pc[t] = "none" /\ t > started  OBVIOUS
  <2>2. 0 \in 0 .. MaxJobs /\ 0 \in 0 .. MaxTasks /\ 0 \in 0 .. MaxTime /\ 0 \in Nat  OBVIOUS
  <2>. QED  BY <2>1, <2>2 DEF TypeOK
<1>2. Numbered  BY DEF Numbered
<1>3. \A t \in Tasks : OnSchedule(t)  BY DEF OnSchedule
<1>. QED  BY <1>1, <1>2, <1>3 DEF IInv

\* Where a started task is numbered, typed and entered.
LEMMA StartTaskTyped ==
  ASSUME TypeOK, Numbered, NEW j \in Jobs, StartTask(j)
  PROVE  /\ started' = started + 1 /\ started' \in Tasks
         /\ taskOf' \in [Jobs -> 0 .. MaxTasks]
         /\ \A i \in Jobs : taskOf'[i] = IF i = j THEN started' ELSE taskOf[i]
         /\ pc' \in [Tasks -> {"none", "created", "top", "sleep", "modify", "drain", "done"}]
         /\ \A t \in Tasks : pc'[t] = IF t = started' THEN "created" ELSE pc[t]
         /\ pc[started'] = "none"
         /\ \A t \in Tasks : pc'[t] = "none" <=> t > started'
         /\ \A i \in Jobs : taskOf'[i] <= started'
<1>. USE Bounds DEF TypeOK, Tasks
<1>1. started' = started + 1 /\ started' \in Tasks  BY DEF StartTask
<1>2. taskOf' = [taskOf EXCEPT ![j] = started'] /\ pc' = [pc EXCEPT ![started'] = "created"]
  BY DEF StartTask
<1>. QED  BY <1>1, <1>2 DEF Numbered

\* What StopTask adds is a task that was started.
LEMMA StopTaskTyped ==
  ASSUME TypeOK, Numbered, NEW j \in Jobs, StopTask(j)
  PROVE  /\ stopSet \subseteq stopSet' /\ taskOf[j] \in stopSet' \cup {0}
         /\ stopSet' \subseteq 1 .. started
         /\ cancelled' \subseteq stopSet' /\ stopSet' \subseteq cancelled'
<1>1. taskOf[j] \in 0 .. MaxTasks /\ taskOf[j] <= started /\ started \in Nat
  BY Bounds DEF TypeOK, Numbered
<1>2. {taskOf[j]} \ {0} \subseteq 1 .. started  BY <1>1
<1>. QED  BY <1>2 DEF TypeOK, Numbered, StopTask

LEMMA UserStepKeepsIInv ==
  ASSUME IInv, UserStep
  PROVE  TypeOK' /\ Numbered'
<1>. USE Bounds DEF IInv
<1>1. ASSUME NEW n \in Names, NEW autostart \in BOOLEAN, Add(n, autostart)
      PROVE  TypeOK' /\ Numbered'
  <2>1. /\ added' = added + 1 /\ added' \in Jobs /\ added' \in 0 .. MaxJobs
        /\ jobs' = [jobs EXCEPT ![n] = added']
        /\ jobs' \in [Names -> 0 .. MaxJobs]
    BY <1>1 DEF Add, TypeOK, Jobs
  <2>2. \A k, m \in Names : jobs'[k] = jobs'[m] /\ jobs'[k] # 0 => k = m
    BY <2>1 DEF TypeOK, Numbered
  <2>3. CASE StartTask(added')
    <3>0. started' = started + 1 /\ started' \in Tasks  BY <2>1, <2>3, StartTaskTyped
    <3>1. started' \in 0 .. MaxTasks /\ 1 .. started \subseteq 1 .. started'
      BY <3>0 DEF TypeOK, Tasks
    <3>2. TypeOK'  BY <1>1, <2>1, <2>2, <2>3, <3>1, StartTaskTyped DEF Add, TypeOK, stopVars
    <3>3. \A m \in Names : jobs'[m] <= added'  BY <2>1 DEF TypeOK, Numbered
    <3>. QED  BY <1>1, <2>1, <2>3, <3>2, <3>3, StartTaskTyped DEF Add, Numbered, stopVars
  <2>4. CASE UNCHANGED <<taskOf, started, pc>>
    <3>1. TypeOK'  BY <1>1, <2>1, <2>2, <2>4 DEF Add, TypeOK, stopVars
    <3>2. \A m \in Names : jobs'[m] <= added'  BY <2>1 DEF TypeOK, Numbered
    <3>. QED  BY <1>1, <2>4, <3>1, <3>2 DEF Add, Numbered, stopVars
  <2>. QED  BY <1>1, <2>3, <2>4 DEF Add
<1>2. ASSUME NEW n \in Names, AddTaken(n) PROVE TypeOK' /\ Numbered'
  BY <1>2 DEF AddTaken, TypeOK, Numbered, taskVars, stopVars
<1>3. ASSUME NEW n \in Names, StartJob(n) PROVE TypeOK' /\ Numbered'
  <2>1. jobs[n] \in Jobs /\ StartTask(jobs[n])  BY <1>3 DEF StartJob, TypeOK, Jobs
  <2>2. started' = started + 1 /\ started' \in Tasks  BY <2>1, StartTaskTyped
  <2>3. started' \in 0 .. MaxTasks /\ 1 .. started \subseteq 1 .. started'
    BY <2>2 DEF TypeOK, Tasks
  <2>. QED  BY <1>3, <2>1, <2>3, StartTaskTyped DEF StartJob, TypeOK, Numbered, stopVars
<1>4. ASSUME NEW n \in Names, Remove(n) PROVE TypeOK' /\ Numbered'
  <2>1. jobs[n] \in Jobs /\ StopTask(jobs[n])  BY <1>4 DEF Remove, TypeOK, Jobs
  <2>2. jobs' = [jobs EXCEPT ![n] = 0] /\ raised' \in BOOLEAN  BY <1>4 DEF Remove
  <2>. QED  BY <1>4, <2>1, <2>2, StopTaskTyped DEF Remove, TypeOK, Numbered, taskVars
<1>5. CASE StopAll
  <2>1. stopping' \subseteq Jobs  BY <1>5 DEF StopAll, TypeOK, Jobs
  <2>. QED  BY <1>5, <2>1 DEF StopAll, TypeOK, Numbered, taskVars, stopVars
<1>. QED  BY <1>1, <1>2, <1>3, <1>4, <1>5 DEF UserStep

LEMMA TaskStepKeepsIInv ==
  ASSUME IInv, NEW t \in Tasks, TaskStep(t)
  PROVE  TypeOK' /\ Numbered'
<1>. USE Bounds DEF IInv, TypeOK, Numbered, senderVars, stopVars, Alive
<1>1. CASE Begin(t)  BY <1>1 DEF Begin
<1>2. CASE Sleep(t)  BY <1>2 DEF Sleep
<1>3. CASE Fire(t)  BY <1>3 DEF Fire, DueNext
<1>4. CASE Modified(t)  BY <1>4 DEF Modified
<1>5. CASE Sent(t)  BY <1>5 DEF Sent
<1>6. CASE EndTask(t)  BY <1>6 DEF EndTask
<1>. QED  BY <1>1, <1>2, <1>3, <1>4, <1>5, <1>6 DEF TaskStep

LEMMA TypesKept == IInv /\ [Next]_vars => TypeOK' /\ Numbered'
<1>. SUFFICES ASSUME IInv, [Next]_vars PROVE TypeOK' /\ Numbered'
  OBVIOUS
<1>. USE Bounds DEF IInv
<1>1. ASSUME NEW j \in Jobs, StopAllStops(j) PROVE TypeOK' /\ Numbered'
  BY <1>1, StopTaskTyped DEF StopAllStops, TypeOK, Numbered, taskVars
<1>2. CASE StopAllEnds
  <2>1. jobs' = [n \in Names |-> 0] /\ 0 \in 0 .. MaxJobs /\ 0 <= added
    BY <1>2 DEF StopAllEnds, TypeOK
  <2>2. TypeOK'  BY <1>2, <2>1 DEF StopAllEnds, TypeOK, taskVars, stopVars
  <2>. QED  BY <1>2, <2>1, <2>2 DEF StopAllEnds, Numbered, stopVars
<1>3. CASE Tick
  BY <1>3 DEF Tick, TypeOK, Numbered, senderVars, taskVars, stopVars
<1>4. CASE UNCHANGED vars
  BY <1>4 DEF vars, TypeOK, Numbered, senderVars, taskVars, stopVars
<1>. QED  BY <1>1, <1>2, <1>3, <1>4, UserStepKeepsIInv, TaskStepKeepsIInv DEF Next

-----------------------------------------------------------------------------
(* The schedule *)

LEMMA TaskStepKeepsSchedule ==
  ASSUME IInv, NEW t \in Tasks, TaskStep(t)
  PROVE  OnSchedule(t)'
<1>1. /\ frames[t] \in Nat /\ nextT[t] \in Nat /\ since[t] \in Nat /\ now \in Nat
      /\ Period \in Nat \ {0} /\ OnSchedule(t)
  BY Bounds DEF IInv, TypeOK
<1>2. (frames[t] + 1) * Period = frames[t] * Period + Period  BY <1>1
<1>. USE DEF IInv, TypeOK, Alive
<1>3. CASE Begin(t)
  <2>1. /\ pc'[t] = "top" /\ since'[t] = now /\ nextT'[t] = now /\ frames'[t] = 0 /\ now' = now
    BY <1>1, <1>3 DEF Begin, OnSchedule
  <2>. QED  BY <1>1, <2>1 DEF OnSchedule
<1>4. CASE Sleep(t)
  <2>1. /\ pc[t] = "top" /\ pc'[t] = "sleep" /\ UNCHANGED <<since, nextT, frames, now>>
    BY <1>4 DEF Sleep
  <2>. QED  BY <1>1, <2>1 DEF OnSchedule
<1>5. CASE Fire(t)
  <2>1. /\ pc[t] \in {"sleep", "top"} /\ now >= nextT[t] /\ nextT'[t] = nextT[t] + Period
        /\ \/ pc'[t] = "drain" /\ frames'[t] = frames[t] + 1
           \/ pc'[t] = "modify" /\ frames'[t] = frames[t]
        /\ UNCHANGED <<since, now>>
    BY <1>5 DEF Fire, DueNext
  <2>2. /\ frames[t] * Period <= nextT[t] - since[t]
        /\ nextT'[t] <= now' + Period
    BY <1>1, <2>1 DEF OnSchedule
  <2>3. CASE pc'[t] = "drain" /\ frames'[t] = frames[t] + 1
    <3>1. frames'[t] * Period = frames[t] * Period + Period  BY <1>2, <2>3
    <3>. QED  BY <1>1, <2>1, <2>2, <2>3, <3>1 DEF OnSchedule
  <2>4. CASE pc'[t] = "modify" /\ frames'[t] = frames[t]
    <3>1. frames'[t] * Period = frames[t] * Period  BY <2>4
    <3>2. frames[t] * Period \in Nat  BY <1>1
    <3>3. /\ frames'[t] * Period <= nextT'[t] - since'[t]
          /\ frames'[t] * Period + Period <= nextT'[t] - since'[t]
      BY <1>1, <2>1, <2>2, <3>1, <3>2
    <3>. QED  BY <2>2, <2>4, <3>3 DEF OnSchedule
  <2>. QED  BY <2>1, <2>3, <2>4
<1>6. CASE Modified(t)
  <2>1. /\ pc[t] = "modify" /\ pc'[t] = "drain" /\ frames'[t] = frames[t] + 1
        /\ UNCHANGED <<since, nextT, now>>
    BY <1>6 DEF Modified
  <2>. QED  BY <1>1, <1>2, <2>1 DEF OnSchedule
<1>7. CASE Sent(t)
  <2>1. /\ pc[t] = "drain" /\ pc'[t] = "top" /\ UNCHANGED <<since, nextT, frames, now>>
    BY <1>7 DEF Sent
  <2>. QED  BY <1>1, <2>1 DEF OnSchedule
<1>8. CASE EndTask(t)
  <2>1. pc'[t] = "done" /\ UNCHANGED <<since, nextT, frames, now>>
    BY <1>8 DEF EndTask
  <2>2. CASE pc[t] = "created"
    <3>. QED  BY <1>1, <2>1, <2>2 DEF OnSchedule
  <2>3. CASE pc[t] # "created"
    <3>1. pc[t] \notin {"none", "created"}  BY <1>8, <2>3 DEF EndTask
    <3>. QED  BY <1>1, <2>1, <3>1 DEF OnSchedule
  <2>. QED  BY <2>2, <2>3
<1>. QED  BY <1>3, <1>4, <1>5, <1>6, <1>7, <1>8 DEF TaskStep

\* A step of one task, or of the user, leaves another task's schedule alone;
\* the user may start a task, which has none yet.
LEMMA UserStepKeepsSchedule ==
  ASSUME IInv, UserStep, NEW t \in Tasks
  PROVE  OnSchedule(t)'
<1>1. UNCHANGED <<nextT, frames, since, now>>
  BY DEF UserStep, Add, AddTaken, StartJob, Remove, StopAll, taskVars
<1>2. pc'[t] = pc[t] \/ (pc[t] = "none" /\ pc'[t] = "created")
  <2>1. ASSUME NEW j \in Jobs, StartTask(j)
        PROVE  pc'[t] = pc[t] \/ (pc[t] = "none" /\ pc'[t] = "created")
    BY <2>1, StartTaskTyped DEF IInv
  <2>2. ASSUME NEW n \in Names, NEW autostart \in BOOLEAN, Add(n, autostart)
        PROVE  UNCHANGED pc \/ \E j \in Jobs : StartTask(j)
    <3>1. added' \in Jobs  BY <2>2, Bounds DEF Add, IInv, TypeOK, Jobs
    <3>. QED  BY <2>2, <3>1 DEF Add
  <2>3. ASSUME NEW n \in Names, StartJob(n) PROVE \E j \in Jobs : StartTask(j)
    <3>1. jobs[n] \in Jobs  BY <2>3, Bounds DEF StartJob, IInv, TypeOK, Jobs
    <3>. QED  BY <2>3, <3>1 DEF StartJob
  <2>4. ASSUME NEW n \in Names, AddTaken(n) \/ Remove(n) PROVE UNCHANGED pc
    BY <2>4 DEF AddTaken, Remove, taskVars
  <2>5. StopAll => UNCHANGED pc  BY DEF StopAll, taskVars
  <2>. QED  BY <2>1, <2>2, <2>3, <2>4, <2>5 DEF UserStep
<1>. QED  BY <1>1, <1>2 DEF IInv, OnSchedule

LEMMA ScheduleKept == IInv /\ [Next]_vars => \A t \in Tasks : OnSchedule(t)'
<1>. SUFFICES ASSUME IInv, [Next]_vars, NEW t \in Tasks PROVE OnSchedule(t)'
  OBVIOUS
<1>1. OnSchedule(t)  BY DEF IInv
<1>2. ASSUME NEW u \in Tasks, u # t, TaskStep(u) PROVE OnSchedule(t)'
  <2>1. pc'[t] = pc[t] /\ nextT'[t] = nextT[t] /\ frames'[t] = frames[t]
        /\ since'[t] = since[t] /\ now' = now
    BY <1>2 DEF IInv, TypeOK, TaskStep, Begin, Sleep, Fire, Modified, Sent, EndTask
  <2>. QED  BY <1>1, <2>1 DEF OnSchedule
<1>3. CASE Tick
  <2>1. now' = now + 1 /\ UNCHANGED taskVars  BY <1>3 DEF Tick
  <2>2. nextT[t] \in Nat /\ now \in Nat /\ Period \in Nat  BY Bounds DEF IInv, TypeOK
  <2>. QED  BY <1>1, <2>1, <2>2 DEF OnSchedule, taskVars
<1>4. CASE (\E j \in Jobs : StopAllStops(j)) \/ StopAllEnds \/ UNCHANGED vars
  <2>1. UNCHANGED <<pc, nextT, frames, since, now>>
    BY <1>4 DEF StopAllStops, StopAllEnds, vars, taskVars
  <2>. QED  BY <1>1, <2>1 DEF OnSchedule
<1>. QED  BY <1>2, <1>3, <1>4, UserStepKeepsSchedule, TaskStepKeepsSchedule DEF Next

LEMMA IInvHolds == Spec => []IInv
<1>1. IInv /\ [Next]_vars => IInv'  BY TypesKept, ScheduleKept DEF IInv
<1>. QED  BY <1>1, InitIInv, PTL DEF Spec

-----------------------------------------------------------------------------
(* Theorems *)

\* Jobs and tasks keep their types, tasks are numbered as they are started, and
\* no two names share a job.
THEOREM SenderTypeCorrect == Spec => []TypeOK
<1>1. IInv => TypeOK  BY DEF IInv
<1>. QED  BY <1>1, IInvHolds, PTL

\* A job catches up after late frames and never gets ahead of its period.
THEOREM JobsNeverAhead == Spec => []NeverAhead
<1>1. IInv => NeverAhead
  <2>. SUFFICES ASSUME IInv, NEW t \in Tasks, frames[t] > 0
                PROVE  (frames[t] - 1) * Period <= now - since[t]
    BY DEF NeverAhead
  <2>1. /\ frames[t] \in Nat /\ nextT[t] \in Nat /\ since[t] \in Nat /\ now \in Nat
        /\ Period \in Nat /\ OnSchedule(t)
    BY Bounds DEF IInv, TypeOK
  <2>2. frames[t] * Period <= nextT[t] - since[t] /\ nextT[t] <= now + Period
    BY <2>1 DEF OnSchedule
  <2>3. (frames[t] - 1) * Period = frames[t] * Period - Period  BY <2>1
  <2>4. frames[t] * Period \in Nat  BY <2>1
  <2>. QED  BY <2>1, <2>2, <2>3, <2>4
<1>. QED  BY <1>1, IInvHolds, PTL

\* A task whose job was stopped sends nothing more, though stop raises after
\* the cancellation.
THEOREM StoppedIsSilent == Spec => SilentAfterStop
<1>1. IInv /\ [Next]_vars => [\A t \in stopSet : frames'[t] = frames[t]]_vars
  <2>. SUFFICES ASSUME IInv, Next, NEW t \in stopSet PROVE frames'[t] = frames[t]
    OBVIOUS
  <2>1. t \in cancelled  BY DEF IInv, Numbered
  <2>2. ASSUME NEW u \in Tasks, TaskStep(u) PROVE frames'[t] = frames[t]
    <3>1. t \in Tasks  BY Bounds DEF IInv, TypeOK, Tasks
    <3>2. CASE u = t
      BY <2>1, <2>2, <3>2 DEF TaskStep, Begin, Sleep, Fire, Modified, Sent, EndTask, Alive
    <3>3. CASE u # t
      BY <2>2, <3>1, <3>3 DEF IInv, TypeOK, TaskStep, Begin, Sleep, Fire, Modified, Sent, EndTask
    <3>. QED  BY <3>2, <3>3
  <2>3. ASSUME UserStep PROVE UNCHANGED frames
    BY <2>3 DEF UserStep, Add, AddTaken, StartJob, Remove, StopAll, taskVars
  <2>4. (\E j \in Jobs : StopAllStops(j)) \/ StopAllEnds \/ Tick => UNCHANGED frames
    BY DEF StopAllStops, StopAllEnds, Tick, taskVars
  <2>. QED  BY <2>2, <2>3, <2>4 DEF Next
<1>. QED  BY <1>1, IInvHolds, PTL DEF Spec, SilentAfterStop

-----------------------------------------------------------------------------
(* Every running job can be stopped by name, as long as nobody calls the     *)
(* sender while stop_all runs                                                *)

LEMMA StopAllUnderWayKept ==
  IInv /\ StopAllUnderWay /\ [Next]_vars => StopAllUnderWay'
<1>. SUFFICES ASSUME IInv, StopAllUnderWay, [Next]_vars, SingleUser, inStopAll',
                     NEW n \in Names, jobs'[n] # 0
              PROVE  jobs'[n] \in stopping' \/ taskOf'[jobs'[n]] \in stopSet' \cup {0}
  BY DEF StopAllUnderWay
<1>1. CASE StopAll
  BY <1>1 DEF StopAll
<1>2. CASE ~inStopAll /\ ~StopAll
  <2>1. ASSUME NEW u \in Tasks, TaskStep(u) PROVE FALSE
    BY <1>2, <2>1 DEF TaskStep, Begin, Sleep, Fire, Modified, Sent, EndTask, senderVars
  <2>2. UserStep => FALSE
    BY <1>2 DEF UserStep, Add, AddTaken, StartJob, Remove
  <2>3. (\E j \in Jobs : StopAllStops(j)) \/ StopAllEnds \/ Tick \/ UNCHANGED vars => FALSE
    BY <1>2 DEF StopAllStops, StopAllEnds, Tick, vars, senderVars
  <2>. QED  BY <2>1, <2>2, <2>3 DEF Next
<1>3. CASE inStopAll
  <2>1. UserStep => FALSE
    BY <1>3 DEF UserStep, UserMayCall, Add, AddTaken, StartJob, Remove, StopAll
  <2>2. StopAllEnds => FALSE  BY DEF StopAllEnds
  <2>3. ASSUME NEW j \in Jobs, StopAllStops(j)
        PROVE  jobs'[n] \in stopping' \/ taskOf'[jobs'[n]] \in stopSet' \cup {0}
    <3>1. stopSet \subseteq stopSet' /\ taskOf[j] \in stopSet' \cup {0}
      BY <2>3, StopTaskTyped DEF StopAllStops, IInv
    <3>. QED  BY <1>3, <2>3, <3>1 DEF StopAllStops, StopAllUnderWay
  <2>4. ASSUME UNCHANGED <<jobs, taskOf, stopping, stopSet>>
        PROVE  jobs'[n] \in stopping' \/ taskOf'[jobs'[n]] \in stopSet' \cup {0}
    BY <1>3, <2>4 DEF StopAllUnderWay
  <2>5. ASSUME NEW u \in Tasks, TaskStep(u) PROVE UNCHANGED <<jobs, taskOf, stopping, stopSet>>
    BY <2>5 DEF TaskStep, Begin, Sleep, Fire, Modified, Sent, EndTask, senderVars, stopVars
  <2>6. Tick \/ UNCHANGED vars => UNCHANGED <<jobs, taskOf, stopping, stopSet>>
    BY DEF Tick, vars, senderVars, stopVars
  <2>. QED  BY <2>1, <2>2, <2>3, <2>4, <2>5, <2>6 DEF Next
<1>. QED  BY <1>1, <1>2, <1>3

\* A task that is started takes the place of one that is done or none.
LEMMA StartTaskStoppable ==
  ASSUME IInv, RunningIsStoppable, NEW m \in Names, NEW j \in Jobs, StartTask(j),
         jobs'[m] = j, stopSet' = stopSet,
         \A n \in Names : jobs[n] # 0 => jobs'[n] = jobs[n],
         taskOf[j] \in {0} \cup {t \in Tasks : pc[t] = "done"} \/ \A n \in Names : jobs[n] # j
  PROVE  RunningIsStoppable'
<1>. SUFFICES ASSUME NEW t \in (1 .. started)', pc'[t] # "done", t \notin stopSet'
              PROVE  \E n \in Names : jobs'[n] # 0 /\ taskOf'[jobs'[n]] = t
  BY DEF RunningIsStoppable
<1>. USE DEF IInv
<1>1. CASE t = started'
  <2>1. taskOf'[j] = t /\ j # 0  BY <1>1, StartTaskTyped DEF Jobs
  <2>. QED  BY <2>1
<1>2. CASE t # started'
  <2>1. started' = started + 1 /\ started \in Nat  BY StartTaskTyped DEF TypeOK
  <2>2. t \in 1 .. started /\ t \in Tasks  BY <1>2, <2>1, Bounds DEF TypeOK, Tasks
  <2>3. pc'[t] = pc[t]  BY <1>2, <2>2, StartTaskTyped
  <2>4. PICK n \in Names : jobs[n] # 0 /\ taskOf[jobs[n]] = t
    BY <2>2, <2>3 DEF RunningIsStoppable
  <2>5. jobs[n] # j  BY <2>2, <2>3, <2>4
  <2>6. jobs[n] \in Jobs  BY <2>4, Bounds DEF TypeOK, Jobs
  <2>7. taskOf'[jobs[n]] = taskOf[jobs[n]]  BY <2>5, <2>6, StartTaskTyped
  <2>. QED  BY <2>4, <2>7
<1>. QED  BY <1>1, <1>2

LEMMA RunningIsStoppableKept ==
  ASSUME SingleUser, IInv, StopAllUnderWay, RunningIsStoppable, [Next]_vars
  PROVE  RunningIsStoppable'
<1>. USE Bounds DEF IInv
<1>1. ASSUME NEW n \in Names, NEW autostart \in BOOLEAN, Add(n, autostart) PROVE RunningIsStoppable'
  <2>1. /\ added' = added + 1 /\ added' \in Jobs /\ jobs[n] = 0
        /\ jobs' = [jobs EXCEPT ![n] = added'] /\ stopSet' = stopSet
    BY <1>1 DEF Add, TypeOK, Jobs, stopVars
  <2>2. /\ jobs'[n] = added' /\ \A m \in Names : jobs[m] # added'
        /\ \A m \in Names : jobs[m] # 0 => jobs'[m] = jobs[m]
    BY <2>1 DEF TypeOK, Numbered
  <2>3. CASE StartTask(added')
    BY <2>1, <2>2, <2>3, StartTaskStoppable
  <2>4. CASE UNCHANGED <<taskOf, started, pc>>
    BY <2>1, <2>2, <2>4 DEF RunningIsStoppable
  <2>. QED  BY <1>1, <2>3, <2>4 DEF Add
<1>2. ASSUME NEW n \in Names, StartJob(n) PROVE RunningIsStoppable'
  <2>1. jobs[n] \in Jobs  BY <1>2 DEF StartJob, TypeOK, Jobs
  <2>2. StartTask(jobs[n]) /\ jobs' = jobs /\ stopSet' = stopSet /\ Startable(jobs[n])
    BY <1>2 DEF StartJob, stopVars
  <2>. QED  BY <2>1, <2>2, StartTaskStoppable DEF Startable
<1>3. ASSUME NEW n \in Names, Remove(n) PROVE RunningIsStoppable'
  <2>1. jobs[n] \in Jobs /\ StopTask(jobs[n])  BY <1>3 DEF Remove, TypeOK, Jobs
  <2>2. stopSet \subseteq stopSet' /\ taskOf[jobs[n]] \in stopSet' \cup {0}
    BY <2>1, StopTaskTyped
  <2>3. /\ jobs' = [jobs EXCEPT ![n] = 0] /\ UNCHANGED <<taskOf, started, pc>>
    BY <1>3 DEF Remove, taskVars
  <2>. SUFFICES ASSUME NEW t \in 1 .. started, pc[t] # "done", t \notin stopSet'
                PROVE  \E m \in Names : jobs'[m] # 0 /\ taskOf[jobs'[m]] = t
    BY <2>3 DEF RunningIsStoppable
  <2>4. PICK m \in Names : jobs[m] # 0 /\ taskOf[jobs[m]] = t
    BY <2>2 DEF RunningIsStoppable
  <2>5. t # 0  OBVIOUS
  <2>6. m # n  BY <2>2, <2>4, <2>5
  <2>. QED  BY <2>3, <2>4, <2>6 DEF TypeOK
<1>4. CASE StopAllEnds
  <2>1. \A n \in Names : jobs[n] # 0 => taskOf[jobs[n]] \in stopSet \cup {0}
    BY <1>4 DEF StopAllEnds, StopAllUnderWay
  <2>2. \A t \in 1 .. started : pc[t] = "done" \/ t \in stopSet
    BY <2>1 DEF RunningIsStoppable
  <2>. QED  BY <1>4, <2>2 DEF StopAllEnds, RunningIsStoppable, taskVars, stopVars
<1>5. ASSUME NEW j \in Jobs, StopAllStops(j) PROVE RunningIsStoppable'
  <2>1. stopSet \subseteq stopSet'  BY <1>5, StopTaskTyped DEF StopAllStops
  <2>. QED  BY <1>5, <2>1 DEF StopAllStops, RunningIsStoppable, taskVars
<1>6. ASSUME NEW u \in Tasks, TaskStep(u) PROVE RunningIsStoppable'
  <2>1. UNCHANGED <<jobs, taskOf, started, stopSet>>
    BY <1>6 DEF TaskStep, Begin, Sleep, Fire, Modified, Sent, EndTask, senderVars, stopVars
  <2>2. \A t \in Tasks : pc'[t] # "done" => pc[t] # "done"
    BY <1>6 DEF TaskStep, Begin, Sleep, Fire, Modified, Sent, EndTask, Alive, TypeOK
  <2>3. 1 .. started \subseteq Tasks  BY DEF TypeOK, Tasks
  <2>. QED  BY <2>1, <2>2, <2>3 DEF RunningIsStoppable
<1>7. ASSUME UNCHANGED <<jobs, taskOf, started, stopSet, pc>> PROVE RunningIsStoppable'
  BY <1>7 DEF RunningIsStoppable
<1>8. (\E n \in Names : AddTaken(n)) \/ StopAll \/ Tick \/ UNCHANGED vars =>
        UNCHANGED <<jobs, taskOf, started, stopSet, pc>>
  BY DEF AddTaken, StopAll, Tick, vars, senderVars, taskVars, stopVars
<1>. QED  BY <1>1, <1>2, <1>3, <1>4, <1>5, <1>6, <1>7, <1>8 DEF Next, UserStep

\* A job that runs is known by its name, so that remove or stop_all reaches it,
\* as long as nobody calls the sender while stop_all runs.
THEOREM RunningJobsAreStoppable == SingleUser /\ Spec => []RunningIsStoppable
<1>. DEFINE Inv == IInv /\ StopAllUnderWay /\ (SingleUser => RunningIsStoppable)
<1>1. Init => StopAllUnderWay /\ RunningIsStoppable
  BY DEF Init, StopAllUnderWay, RunningIsStoppable
<1>2. Init => Inv  BY <1>1, InitIInv
<1>3. IInv /\ [Next]_vars => IInv'  BY TypesKept, ScheduleKept DEF IInv
<1>4. Inv /\ [Next]_vars => Inv'
  BY <1>3, StopAllUnderWayKept, RunningIsStoppableKept
<1>5. SingleUser /\ Inv => RunningIsStoppable  OBVIOUS
<1>6. CASE SingleUser
  <2>1. Inv => RunningIsStoppable  BY <1>6
  <2>. QED  BY <1>2, <1>4, <2>1, PTL DEF Spec
<1>7. CASE ~SingleUser  BY <1>7
<1>. QED  BY <1>6, <1>7
=============================================================================
