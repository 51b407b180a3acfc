---------------------- MODULE HsaDispatchServiceProofs ----------------------
(***************************************************************************)
(* The dispatch path implements KernelService for any number of virtual    *)
(* CPUs, compute units and tasks: each step of the threads is one of the   *)
(* service, or none of its business.                                       *)
(***************************************************************************)
EXTENDS HsaDispatchService, HsaDispatchProofs

\* A task has its answer from the moment the monitor leaves it, and no sooner.
Answered ==
    /\ \A t \in Task : t \notin sent => verdict[t] = "none"
    /\ \A i \in DOMAIN queue : verdict[queue[i]] = "none"
    /\ task # NoTask => (verdict[task] = "none" <=> mon_pc # "abort")

\* What the service sees of the work-groups.
Todo == IF Launched THEN Grid \ (executed \cup Lost) ELSE {}
Failed == IF Launched THEN faulted ELSE {}

USE ActorsAssumption, TasksAssumption
    DEF MonOwns, MonWaitsCus, MonEarly, MonServes, Awake, monitorData, gridData,
        cuData, ghosts, threads, MonGoto, CuGoto, Exit, MonDrop, NewGrid,
        AfterFree, Inserted

LEMMA QueueElements ==
  ASSUME TaskTypes, NEW i \in DOMAIN queue
  PROVE  queue[i] \in Task
BY DEF TaskTypes

\* Most steps touch neither the tasks nor their answers, and leave or enter none of
\* the pcs that matter.
LEMMA AnsweredKept ==
  ASSUME Answered, UNCHANGED <<queue, task, sent, verdict>>,
         mon_pc' = "abort" <=> mon_pc = "abort"
  PROVE  Answered'
BY DEF Answered

LEMMA AnsweredNext ==
  ASSUME IInv, Answered, [Next]_vars
  PROVE  Answered'
<1> Types /\ MonPhase /\ Alloc
  BY DEF IInv, Phase
<1> USE DEF Types, ThreadTypes
<1>1. CASE Main \/ SpuriousReturn
  <2>1. UNCHANGED <<queue, task, sent, verdict>>
    BY <1>1 DEF Main, MainCreate, MainResume, SpuriousReturn
  <2>2. mon_pc' = "abort" <=> mon_pc = "abort"
    BY <1>1 DEF Main, MainCreate, MainResume, SpuriousReturn, MonPhase
  <2> QED
    BY <2>1, <2>2, AnsweredKept
<1>2. CASE MonLock \/ MonBoot \/ MonRecheck \/ MonReady \/ MonGet \/ MonPark \/ MonRetry
  <2>1. UNCHANGED <<queue, task, sent, verdict>>
    BY <1>2 DEF MonLock, MonBoot, MonRecheck, MonReady, MonGet, MonPark, MonRetry
  <2>2. mon_pc # "abort" /\ mon_pc' # "abort"
    BY <1>2 DEF MonLock, MonBoot, MonRecheck, MonReady, MonGet, MonPark, MonRetry
  <2> QED
    BY <2>1, <2>2, AnsweredKept
<1>3. CASE MonTake
  <2>1. /\ queue # <<>> /\ task' = queue[1] /\ queue' = Tail(queue) /\ mon_pc' = "check"
        /\ UNCHANGED <<sent, verdict>>
    BY <1>3 DEF MonTake, MonPhase
  <2>2. queue \in Seq(Task) /\ 1 \in DOMAIN queue
    BY <2>1 DEF TaskTypes
  <2>3. \A i \in DOMAIN queue' : i + 1 \in DOMAIN queue /\ queue'[i] = queue[i + 1]
    BY <2>1, <2>2
  <2> QED
    BY <2>1, <2>2, <2>3 DEF Answered
<1>4. CASE MonCheck \/ MonPrepareFails \/ MonResume
  BY <1>4, AnsweredKept DEF MonCheck, MonPrepareFails, MonResume
<1>5. CASE MonReject \/ MonPrepare \/ MonFinish \/ MonFault
  <2>1. /\ UNCHANGED <<queue, task, sent>> /\ task \in Task
        /\ mon_pc # "abort"
        /\ \/ \E a \in {"completed", "dropped"} : verdict' = [verdict EXCEPT ![task] = a]
              /\ mon_pc' = "abort"
           \/ verdict' = verdict /\ mon_pc' # "abort"
    BY <1>5 DEF MonReject, MonPrepare, MonFinish, MonFault, MonPhase, TaskTypes
  <2>2. task \in sent /\ task # NoTask /\ \A i \in DOMAIN queue : queue[i] # task
    BY <2>1 DEF Alloc, NoLeakNoDangling
  <2> QED
    BY <2>1, <2>2, QueueElements DEF Answered, TaskTypes
<1>6. CASE MonAbort
  BY <1>6 DEF MonAbort, Answered
<1>7. ASSUME NEW v \in VCPU, VcpuStep(v) PROVE Answered'
  BY <1>7, AnsweredKept DEF VcpuStep, Poke, TryLock, SignalMonitor, Notified
<1>8. ASSUME NEW v \in VCPU, NEW t \in Task, Enqueue(v, t) PROVE Answered'
  <2>1. /\ queue' = Append(queue, t) /\ sent' = sent \cup {t} /\ t \notin sent
        /\ UNCHANGED <<task, verdict, mon_pc>>
    BY <1>8 DEF Enqueue
  <2>2. \A i \in DOMAIN queue' : queue'[i] = t \/ (i \in DOMAIN queue /\ queue'[i] = queue[i])
    BY <2>1 DEF TaskTypes
  <2> QED
    BY <2>1, <2>2 DEF Answered
<1>9. ASSUME NEW s \in Signal, ResetSignal(s) PROVE Answered'
  BY <1>9, AnsweredKept DEF ResetSignal
<1>10. ASSUME NEW c \in CU, CuStep(c) \/ CuFault(c) PROVE Answered'
  BY <1>10, AnsweredKept DEF CuStep, CuLock, CuReport, CuWake, CuUnlock, CuUpdate,
     CuFetch, CuFinish, CuFault, CuPageFault, CuFpe, CuSegv
<1>11. CASE UNCHANGED vars
  BY <1>11, AnsweredKept DEF vars
<1> QED
  BY <1>1, <1>2, <1>3, <1>4, <1>5, <1>6, <1>7, <1>8, <1>9, <1>10, <1>11
  DEF Next, MonitorStep

----------------------------------------------------------------------------
(* The steps *)

\* A CU that runs a work-group does so for a dispatch that is launched, and the
\* group is still to do.
LEMMA RunningIsTodo ==
  ASSUME IInv, NEW c \in CU, cu_pc[c] = "run"
  PROVE  /\ Launched /\ mon_pc \in MonWaitsCus
         /\ wg[c] \in Grid \ (executed \cup Lost) /\ c \notin faulted
<1>1. Launched /\ mon_pc \in MonWaitsCus /\ c \notin faulted
  BY DEF IInv, Busy, Quiescent, Phase, MonPhase, CuPhase, Launched, Work
<1>2. c \in Holders /\ wg[c] \in Taken \ executed
  BY DEF IInv, Work, Holders, Running
<1>3. wg[c] \in Grid
  BY <1>2 DEF IInv, Work, Types, GridTypes, Taken, Grid
<1>4. ASSUME NEW d \in faulted, wg[d] = wg[c] PROVE FALSE
  BY <1>1, <1>2, <1>4 DEF IInv, Work, Holders
<1> QED
  BY <1>1, <1>2, <1>3, <1>4 DEF Lost

\* When the monitor writes the completion signal the work of the service is over.
LEMMA FinishIsOver ==
  ASSUME IInv, mon_pc = "finish"
  PROVE  Todo = {} \/ Failed = CU
<1>1. Launched
  BY DEF IInv, Phase, MonPhase, Launched
<1>2. Grid = Taken \cup Untaken
  BY DEF Grid, Taken, Untaken, IInv, Types, GridTypes, Work
<1> QED
  BY <1>1, <1>2, FinishIsHonest DEF Todo, Failed

\* Steps the service does not see.
LEMMA Unseen ==
  ASSUME UNCHANGED <<queue, task, executed, faulted, flat_grid_size, verdict>>,
         Launched' = Launched, process' = process,
         \A c \in faulted : wg'[c] = wg[c]
  PROVE  UNCHANGED Service!vars
<1>1. Lost' = Lost /\ Grid' = Grid
  BY DEF Lost, Grid
<1> QED
  BY <1>1 DEF Service!vars

\* The guest submits a dispatch.
LEMMA EnqueueSubmits ==
  ASSUME IInv, Answered, NEW v \in VCPU, NEW t \in Task, Enqueue(v, t)
  PROVE  Service!Submit(t)
<1>1. /\ queue' = Append(queue, t) /\ t \notin sent
      /\ UNCHANGED <<task, executed, faulted, flat_grid_size, wg, verdict, process, mon_pc>>
  BY DEF Enqueue
<1>2. verdict[t] = "none" /\ t # task /\ \A i \in DOMAIN queue : queue[i] # t
  BY <1>1 DEF IInv, Answered, Alloc, NoLeakNoDangling
<1>3. Launched' = Launched /\ Lost' = Lost /\ Grid' = Grid
  BY <1>1 DEF Launched, Lost, Grid
<1> QED
  BY <1>1, <1>2, <1>3 DEF Service!Submit

\* The monitor takes a task from the queue.
LEMMA TakeStarts ==
  ASSUME IInv, MonTake
  PROVE  Service!Start
<1>1. /\ task = NoTask /\ queue # <<>> /\ task' = Head(queue) /\ queue' = Tail(queue)
      /\ UNCHANGED <<executed, faulted, flat_grid_size, wg, verdict, process>>
  BY DEF MonTake, IInv, Phase, MonPhase
<1>2. Launched = FALSE /\ Launched' = FALSE
  BY DEF MonTake, Launched
<1> QED
  BY <1>1, <1>2 DEF Service!Start

\* The code is ready: the groups of the dispatch are to be done.
LEMMA PrepareLaunches ==
  ASSUME IInv, Answered, mon_pc = "prepare", mon_pc' = "resume",
         NEW n \in Grids, NewGrid(n),
         UNCHANGED <<queue, task, verdict, process>>
  PROVE  Service!Launch
<1>1. task # NoTask /\ verdict[task] = "none"
  BY DEF IInv, Phase, MonPhase, Answered
<1>2. ~Launched /\ Launched'
  BY <1>1 DEF Launched
<1>3. Lost' = {} /\ Grid' = 0 .. n - 1 /\ executed' = {} /\ faulted' = {}
  BY DEF Lost, Grid
<1> QED
  BY <1>1, <1>2, <1>3 DEF Service!Launch

\* The monitor gives its answer, which no longer has work-groups to it.
LEMMA AnswerGiven ==
  ASSUME IInv, Answered, NEW a \in {"completed", "dropped"},
         mon_pc \in {"check", "prepare", "finish"}, mon_pc' = "abort",
         a = "completed" => mon_pc = "finish",
         verdict' = [verdict EXCEPT ![task] = a], UNCHANGED <<queue, task, process>>
  PROVE  Service!Complete \/ Service!Drop
<1>1. task # NoTask /\ verdict[task] = "none" /\ ~Launched'
  BY DEF IInv, Phase, MonPhase, Answered, Launched
<1>2. mon_pc # "finish" => ~Launched
  BY DEF Launched
<1>3. mon_pc = "finish" => Launched /\ Service!Over
  BY <1>1, FinishIsOver DEF Launched, Service!Over, Todo, Failed
<1>4. CASE a = "completed"
  BY <1>1, <1>3, <1>4 DEF Service!Complete
<1>5. CASE a = "dropped"
  BY <1>1, <1>2, <1>3, <1>5 DEF Service!Drop
<1> QED
  BY <1>4, <1>5

\* HSA_ABORT_TASK retires the dispatch.
LEMMA AbortRetires ==
  ASSUME IInv, Answered, MonAbort
  PROVE  Service!Retire
<1>1. task # NoTask /\ verdict[task] # "none" /\ task' = NoTask
  BY DEF MonAbort, IInv, Phase, MonPhase, Answered
<1>2. Launched = FALSE /\ Launched' = FALSE
  BY DEF MonAbort, Launched
<1>3. UNCHANGED <<queue, verdict, process>>
  BY DEF MonAbort
<1> QED
  BY <1>1, <1>2, <1>3 DEF Service!Retire

\* A CU ends a group.
LEMMA FinishWorks ==
  ASSUME IInv, NEW c \in CU, CuFinish(c)
  PROVE  \E g \in Todo : Service!Work(g)
<1>1. /\ cu_pc[c] = "run" /\ executed' = executed \cup {wg[c]}
      /\ UNCHANGED <<queue, task, faulted, flat_grid_size, wg, verdict, process, mon_pc>>
  BY DEF CuFinish
<1>2. Launched /\ wg[c] \in Grid \ (executed \cup Lost)
  BY <1>1, RunningIsTodo
<1>3. Launched' /\ Lost' = Lost /\ Grid' = Grid
  BY <1>1, <1>2 DEF Launched, Lost, Grid
<1>4. wg[c] \in Todo /\ Service!Work(wg[c])
  BY <1>1, <1>2, <1>3 DEF Service!Work, Todo
<1> QED
  BY <1>4

\* A CU leaves its group by a fault.
LEMMA FaultFails ==
  ASSUME IInv, NEW c \in CU, cu_pc[c] = "run", faulted' = faulted \cup {c},
         UNCHANGED <<queue, task, executed, flat_grid_size, wg, verdict, process, mon_pc>>
  PROVE  \E g \in Todo : Service!Fail(c, g)
<1>1. Launched /\ wg[c] \in Grid \ (executed \cup Lost) /\ c \notin faulted
  BY RunningIsTodo
<1>2. Launched' /\ Grid' = Grid
  BY <1>1 DEF Launched, Grid
<1>3. Lost' = Lost \cup {wg[c]}
  BY DEF Lost
<1>4. wg[c] \in Todo /\ Service!Fail(c, wg[c])
  BY <1>1, <1>2, <1>3 DEF Service!Fail, Todo
<1> QED
  BY <1>4

----------------------------------------------------------------------------
(* The refinement *)

LEMMA StepServes ==
  ASSUME IInv, Answered, [Next]_vars
  PROVE  [Service!Next]_(Service!vars)
<1>0. process' = process \/ process = "up"
  BY DEF Next, vars
<1>1. CASE Main \/ SpuriousReturn
  <2>1. UNCHANGED <<queue, task, executed, faulted, flat_grid_size, wg, verdict, process>>
    BY <1>1 DEF Main, MainCreate, MainResume, SpuriousReturn
  <2>2. /\ mon_pc = "unborn" => task = NoTask
        /\ mon_pc' = mon_pc \/ (mon_pc = "unborn" /\ mon_pc' = "lock")
           \/ (mon_pc = "wait_cu" /\ mon_pc' = "woken_cu")
           \/ (mon_pc = "wait_task" /\ mon_pc' = "woken_task")
    BY <1>1 DEF Main, MainCreate, MainResume, SpuriousReturn, IInv, Phase, MonPhase
  <2>3. Launched' = Launched
    BY <2>1, <2>2 DEF Launched
  <2> QED
    BY <2>1, <2>3, Unseen
<1>2. ASSUME NEW v \in VCPU, VcpuStep(v) PROVE UNCHANGED Service!vars
  <2>1. /\ UNCHANGED <<queue, task, executed, faulted, flat_grid_size, wg, verdict, process>>
        /\ Launched' = Launched
    BY <1>2 DEF VcpuStep, Poke, TryLock, SignalMonitor, Notified, Launched
  <2> QED
    BY <2>1, Unseen
<1>3. ASSUME NEW s \in Signal, ResetSignal(s) PROVE UNCHANGED Service!vars
  <2>1. /\ UNCHANGED <<queue, task, executed, faulted, flat_grid_size, wg, verdict, process>>
        /\ Launched' = Launched
    BY <1>3 DEF ResetSignal, Launched
  <2> QED
    BY <2>1, Unseen
<1>4. ASSUME NEW v \in VCPU, NEW t \in Task, Enqueue(v, t), process = "up"
      PROVE  Service!Next
  BY <1>4, EnqueueSubmits DEF Service!Next
<1>5. ASSUME Exit, process = "up" PROVE Service!Next
  <2>1. /\ UNCHANGED <<queue, task, executed, faulted, flat_grid_size, wg, verdict>>
        /\ Launched' = Launched /\ process' = "exited"
    BY <1>5 DEF Launched
  <2>2. Lost' = Lost /\ Grid' = Grid
    BY <2>1 DEF Lost, Grid
  <2> QED
    BY <1>5, <2>1, <2>2 DEF Service!Next, Service!Stop
<1>6. ASSUME MonitorStep, process = "up" PROVE [Service!Next]_(Service!vars)
  <2>1. CASE MonLock \/ MonBoot \/ MonRecheck \/ MonReady \/ MonGet \/ MonPark \/ MonRetry
             \/ MonResume
    <3>1. UNCHANGED <<queue, task, executed, faulted, flat_grid_size, wg, verdict, process>>
      BY <2>1 DEF MonLock, MonBoot, MonRecheck, MonReady, MonGet, MonPark, MonRetry, MonResume
    <3>2. Launched' = Launched
      BY <2>1, <3>1 DEF MonLock, MonBoot, MonRecheck, MonReady, MonGet, MonPark, MonRetry,
         MonResume, Launched, IInv, Phase, MonPhase
    <3> QED
      BY <3>1, <3>2, Unseen
  <2>2. CASE MonTake
    BY <1>6, <2>2, TakeStarts DEF Service!Next
  <2>3. CASE MonCheck \/ MonPrepareFails
    <3>1. CASE Exit
      BY <1>5, <1>6, <3>1
    <3>2. CASE ~Exit
      <4>1. /\ UNCHANGED <<queue, task, executed, faulted, flat_grid_size, wg, verdict, process>>
            /\ mon_pc = "check" /\ mon_pc' = "prepare"
        BY <2>3, <3>2 DEF MonCheck, MonPrepareFails
      <4>2. Launched' = Launched
        BY <4>1 DEF Launched
      <4> QED
        BY <4>1, <4>2, Unseen
    <3> QED
      BY <3>1, <3>2
  <2>4. CASE MonReject \/ MonFault \/ MonFinish
    <3>1. \E a \in {"completed", "dropped"} :
            /\ mon_pc \in {"check", "prepare", "finish"} /\ mon_pc' = "abort"
            /\ a = "completed" => mon_pc = "finish"
            /\ verdict' = [verdict EXCEPT ![task] = a] /\ UNCHANGED <<queue, task, process>>
      BY <2>4 DEF MonReject, MonFault, MonFinish
    <3> QED
      BY <1>6, <3>1, AnswerGiven DEF Service!Next, Service!Serve
  <2>5. CASE MonPrepare
    <3>1. mon_pc = "prepare" /\ UNCHANGED <<queue, task, process>>
      BY <2>5 DEF MonPrepare
    <3>2. PICK n \in Grids : NewGrid(n)
      BY <2>5 DEF MonPrepare
    <3>3. CASE mon_pc' = "resume" /\ verdict' = verdict
      BY <1>6, <3>1, <3>2, <3>3, PrepareLaunches DEF Service!Next, Service!Serve
    <3>4. CASE mon_pc' = "abort" /\ verdict' = [verdict EXCEPT ![task] = "dropped"]
      BY <1>6, <3>1, <3>4, AnswerGiven DEF Service!Next, Service!Serve
    <3> QED
      BY <2>5, <3>3, <3>4 DEF MonPrepare
  <2>6. CASE MonAbort
    BY <1>6, <2>6, AbortRetires DEF Service!Next, Service!Serve
  <2> QED
    BY <1>6, <2>1, <2>2, <2>3, <2>4, <2>5, <2>6 DEF MonitorStep
<1>7. ASSUME NEW c \in CU, CuStep(c), process = "up" PROVE [Service!Next]_(Service!vars)
  <2>1. CASE Exit
    BY <1>5, <1>7, <2>1
  <2>2. CASE ~Exit /\ (CuLock(c) \/ CuReport(c) \/ CuWake(c) \/ CuUnlock(c) \/ CuUpdate(c))
    <3>1. UNCHANGED <<queue, task, executed, faulted, flat_grid_size, wg, verdict, process>>
      BY <2>2 DEF CuLock, CuReport, CuWake, CuUnlock, CuUpdate
    <3>2. mon_pc' = mon_pc \/ (mon_pc = "wait_cu" /\ mon_pc' = "woken_cu")
      BY <2>2 DEF CuLock, CuReport, CuWake, CuUnlock, CuUpdate
    <3>3. Launched' = Launched
      BY <3>1, <3>2 DEF Launched
    <3> QED
      BY <3>1, <3>3, Unseen
  <2>3. CASE CuFetch(c)
    <3>1. /\ UNCHANGED <<queue, task, executed, faulted, flat_grid_size, verdict, process, mon_pc>>
          /\ wg' = wg \/ wg' = [wg EXCEPT ![c] = finish_id]
          /\ cu_pc[c] = "fetch"
      BY <2>3 DEF CuFetch
    <3>2. c \notin faulted /\ faulted \subseteq CU /\ wg \in [CU -> Int]
      BY <3>1 DEF IInv, Work, Types, GridTypes
    <3>3. \A d \in faulted : wg'[d] = wg[d]
      BY <3>1, <3>2
    <3>4. Launched' = Launched
      BY <3>1 DEF Launched
    <3> QED
      BY <3>1, <3>3, <3>4, Unseen
  <2>4. CASE CuFinish(c)
    BY <1>7, <2>4, FinishWorks DEF Service!Next, Service!Serve, Todo
  <2> QED
    BY <1>7, <2>1, <2>2, <2>3, <2>4 DEF CuStep
<1>8. ASSUME NEW c \in CU, CuFault(c), process = "up" PROVE Service!Next
  <2>1. CASE Exit
    BY <1>5, <1>8, <2>1
  <2>2. CASE ~Exit
    <3>1. /\ cu_pc[c] = "run" /\ faulted' = faulted \cup {c}
          /\ UNCHANGED <<queue, task, executed, flat_grid_size, wg, verdict, process, mon_pc>>
      BY <1>8, <2>2 DEF CuFault, CuPageFault, CuFpe, CuSegv
    <3> QED
      BY <1>8, <3>1, FaultFails DEF Service!Next, Service!Serve, Todo
  <2> QED
    BY <2>1, <2>2
<1>9. CASE UNCHANGED vars
  <2>1. /\ UNCHANGED <<queue, task, executed, faulted, flat_grid_size, wg, verdict, process>>
        /\ Launched' = Launched
    BY <1>9 DEF vars, Launched
  <2> QED
    BY <2>1, Unseen
<1> QED
  BY <1>1, <1>2, <1>3, <1>4, <1>6, <1>7, <1>8, <1>9 DEF Next

\* A task is answered once, when the monitor leaves it (hsa_agent.c:579-601).
THEOREM AnswersHold == Spec => []Answered
<1>1. Init => Answered
  BY DEF Init, Answered
<1>2. IInv /\ Answered /\ [Next]_vars => Answered'
  BY AnsweredNext
<1> QED
  BY <1>1, <1>2, Invariance, PTL DEF Spec

\* The threads, locks and condition variables of the dispatch path implement the
\* service: dispatches are served in the order of submission, their groups are
\* done at most once, and an answer is given when no group is left or every CU has
\* failed (hsa_agent.c:111-128,455-475,520-601, hsa_cu.c:126-144,185-240).
THEOREM DispatchImplementsService == Spec => ImplementsService
<1>1. Init => Service!Init
  BY DEF Init, Service!Init, Launched
<1>2. IInv /\ Answered /\ [Next]_vars => [Service!Next]_(Service!vars)
  BY StepServes
<1> QED
  BY <1>1, <1>2, Invariance, AnswersHold, PTL DEF Spec, Service!Spec, ImplementsService
=============================================================================
