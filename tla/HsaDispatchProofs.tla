------------------------- MODULE HsaDispatchProofs -------------------------
(***************************************************************************)
(* The dispatch path keeps its invariants for every number of virtual CPUs *)
(* and compute units and every set of tasks.                               *)
(***************************************************************************)
EXTENDS HsaDispatchSpurious, FiniteSetTheorems, TLAPS

\* The variables range over their types, but for the two counters whose
\* bounds take the rest of the argument.
ThreadTypes ==
    /\ main_pc \in MainPcs
    /\ mon_pc \in MonPcs
    /\ v_pc \in [VCPU -> VcpuPcs]
    /\ cu_pc \in [CU -> CuPcs]
    /\ mntr_mutx \in {"free", "main", "monitor"} \cup VCPU \cup CU
    /\ mntr_s \in {"NONE", "IDLE"}
    /\ process \in {"up", "exited"}
TaskTypes ==
    /\ queue \in Seq(Task)
    /\ task \in Task \cup {NoTask}
    /\ heap \subseteq Task
    /\ sent \subseteq Task
    /\ signal_value \in [Signal -> {0, 1}]
    /\ verdict \in [Task -> {"none", "completed", "dropped"}]
    /\ global_cpu_state \in Task \cup {NoTask}
    /\ cu_env \in [CU -> Task \cup {NoTask}]
GridTypes ==
    /\ cu_busy \in Int
    /\ flat_grid_size \in Nat
    /\ finish_id \in Int
    /\ wg \in [CU -> Int]
    /\ fpe_blocked \subseteq CU
    /\ executed \subseteq Int
    /\ faulted \subseteq CU
Types == ThreadTypes /\ TaskTypes /\ GridTypes

\* Where the monitor is, whether the CUs exist, and whether it has a task.
MonPhase ==
    /\ mon_pc \in {"check", "prepare", "resume", "finish", "abort"} => task # NoTask
    /\ mon_pc \notin MonServes => task = NoTask
    /\ mon_pc = "take" => queue # <<>>
    /\ main_pc = "create" => mon_pc = "unborn"

Awake == {"woken", "unlock", "update", "fetch", "run"}
CuPhase ==
    /\ mon_pc \in MonEarly => \A c \in CU : cu_pc[c] = "unborn"
    /\ mon_pc \notin MonEarly => \A c \in CU : cu_pc[c] # "unborn"
    /\ task = NoTask => \A c \in CU : cu_pc[c] \notin Awake

Phase == MonPhase /\ CuPhase

\* The busy counter counts the CUs that are not asleep; outside the monitor's
\* wait there are none.
Active == {c \in CU : cu_pc[c] # "sleep"}
Busy ==
    /\ Quiescent
    /\ mon_pc \in MonWaitsCus => cu_busy = Cardinality(Active)
    /\ mon_pc \notin MonWaitsCus => cu_busy = 0
    /\ mon_pc = "wait_cu" => cu_busy # 0

\* The groups taken so far are split between those executed and those held,
\* one each, by the CUs that run or have faulted; a CU that has left a dispatch
\* without a fault found no group left.
Holders == faulted \cup Running
Work ==
    /\ 0 <= finish_id /\ finish_id <= flat_grid_size
    /\ executed \subseteq Taken
    /\ \A c \in Holders : wg[c] \in Taken \ executed
    /\ \A c, d \in Holders : wg[c] = wg[d] => c = d
    /\ \A g \in Taken : g \in executed \/ \E c \in Holders : wg[c] = g
    /\ \A c \in faulted : cu_pc[c] \in {"lock", "report", "sleep"}
    /\ mon_pc = "resume" => faulted = {}
    /\ task # NoTask /\ mon_pc \in {"wait_cu", "woken_cu", "finish"} =>
         \A c \in CU : cu_pc[c] \in {"lock", "report", "sleep"} =>
           c \in faulted \/ finish_id = flat_grid_size

\* The shared CPU state is that of the task in service.
Env ==
    /\ task # NoTask => global_cpu_state = task
    /\ \A c \in CU : cu_pc[c] \in {"fetch", "run"} => cu_env[c] = task

\* Tasks are in one place each, and were submitted.
Alloc == NoLeakNoDangling /\ heap \subseteq sent

IInv == Types /\ MutexOwner /\ Phase /\ Busy /\ Work /\ Env /\ Alloc

USE DEF MainPcs, MonPcs, VcpuPcs, CuPcs, MonOwns, MonWaitsCus, MonEarly,
        MonServes, Awake

LEMMA NumCusPositive == NumCus \in Nat /\ NumCus # 0
BY ActorsAssumption, FS_CardinalityType, FS_EmptySet DEF NumCus

\* What the leaves below expand besides the action and the invariant at hand:
\* the tuples of UNCHANGED and the vocabulary shared by the actions.
USE ActorsAssumption, TasksAssumption, NumCusPositive
    DEF monitorData, gridData, cuData, ghosts, threads, MonGoto, CuGoto, Exit,
        MonDrop, NewGrid, WakeSleepers, AfterFree, SharedEnv, Notified,
        NextGroup, Drained, LastReport, CusBusy, Inserted

\* Every step preserves the types of the threads and their mutex.
LEMMA ThreadTypesNext ==
  ASSUME ThreadTypes, [Next]_vars
  PROVE  ThreadTypes'
<1> USE DEF ThreadTypes
<1>1. CASE Main
  BY <1>1 DEF Main, MainCreate, MainResume
<1>2. CASE SpuriousReturn
  BY <1>2 DEF SpuriousReturn
<1>3. CASE MonitorStep
  <2>1. CASE MonLock \/ MonBoot \/ MonRecheck \/ MonReady
    BY <2>1 DEF MonLock, MonBoot, MonRecheck, MonReady
  <2>2. CASE MonGet \/ MonTake \/ MonPark \/ MonRetry
    BY <2>2 DEF MonGet, MonTake, MonPark, MonRetry
  <2>3. CASE MonCheck \/ MonReject \/ MonPrepareFails \/ MonFault
    BY <2>3 DEF MonCheck, MonReject, MonPrepareFails, MonFault
  <2>4. CASE MonPrepare \/ MonResume \/ MonFinish \/ MonAbort
    BY <2>4 DEF MonPrepare, MonResume, MonFinish, MonAbort
  <2> QED BY <1>3, <2>1, <2>2, <2>3, <2>4 DEF MonitorStep
<1>4. ASSUME NEW v \in VCPU, VcpuStep(v) PROVE ThreadTypes'
  <2>1. CASE Poke(v) \/ TryLock(v) \/ SignalMonitor(v)
    BY <2>1 DEF Poke, TryLock, SignalMonitor
  <2> QED BY <1>4, <2>1 DEF VcpuStep
<1>5. ASSUME NEW v \in VCPU, NEW t \in Task, Enqueue(v, t) PROVE ThreadTypes'
  BY <1>5 DEF Enqueue
<1>6. ASSUME NEW s \in Signal, ResetSignal(s) PROVE ThreadTypes'
  BY <1>6 DEF ResetSignal
<1>7. ASSUME NEW c \in CU, CuStep(c) PROVE ThreadTypes'
  <2>1. CASE CuLock(c) \/ CuReport(c) \/ CuWake(c) \/ CuUnlock(c)
    BY <2>1 DEF CuLock, CuReport, CuWake, CuUnlock
  <2>2. CASE CuUpdate(c) \/ CuFetch(c) \/ CuFinish(c)
    BY <2>2 DEF CuUpdate, CuFetch, CuFinish
  <2> QED BY <1>7, <2>1, <2>2 DEF CuStep
<1>8. ASSUME NEW c \in CU, CuFault(c) PROVE ThreadTypes'
  <2>1. CASE CuPageFault(c) \/ CuFpe(c) \/ CuSegv(c)
    BY <2>1 DEF CuPageFault, CuFpe, CuSegv
  <2> QED BY <1>8, <2>1 DEF CuFault
<1>9. CASE UNCHANGED vars
  BY <1>9 DEF vars
<1> QED BY <1>1, <1>2, <1>3, <1>4, <1>5, <1>6, <1>7, <1>8, <1>9 DEF Next

\* Every step preserves the types of the tasks and signals.
LEMMA TaskTypesNext ==
  ASSUME TaskTypes, MonPhase, [Next]_vars
  PROVE  TaskTypes'
<1> USE DEF TaskTypes, MonPhase
<1>1. CASE Main
  BY <1>1 DEF Main, MainCreate, MainResume
<1>2. CASE SpuriousReturn
  BY <1>2 DEF SpuriousReturn
<1>3. CASE MonitorStep
  <2>1. CASE MonLock \/ MonBoot \/ MonRecheck \/ MonReady
    BY <2>1 DEF MonLock, MonBoot, MonRecheck, MonReady
  <2>2. CASE MonGet \/ MonTake \/ MonPark \/ MonRetry
    BY <2>2 DEF MonGet, MonTake, MonPark, MonRetry
  <2>3. CASE MonCheck \/ MonReject \/ MonPrepareFails \/ MonFault
    BY <2>3 DEF MonCheck, MonReject, MonPrepareFails, MonFault
  <2>4. CASE MonPrepare \/ MonResume \/ MonFinish \/ MonAbort
    BY <2>4 DEF MonPrepare, MonResume, MonFinish, MonAbort
  <2> QED BY <1>3, <2>1, <2>2, <2>3, <2>4 DEF MonitorStep
<1>4. ASSUME NEW v \in VCPU, VcpuStep(v) PROVE TaskTypes'
  <2>1. CASE Poke(v) \/ TryLock(v) \/ SignalMonitor(v)
    BY <2>1 DEF Poke, TryLock, SignalMonitor
  <2> QED BY <1>4, <2>1 DEF VcpuStep
<1>5. ASSUME NEW v \in VCPU, NEW t \in Task, Enqueue(v, t) PROVE TaskTypes'
  BY <1>5 DEF Enqueue
<1>6. ASSUME NEW s \in Signal, ResetSignal(s) PROVE TaskTypes'
  BY <1>6 DEF ResetSignal
<1>7. ASSUME NEW c \in CU, CuStep(c) PROVE TaskTypes'
  <2>1. CASE CuLock(c) \/ CuReport(c) \/ CuWake(c) \/ CuUnlock(c)
    BY <2>1 DEF CuLock, CuReport, CuWake, CuUnlock
  <2>2. CASE CuUpdate(c) \/ CuFetch(c) \/ CuFinish(c)
    BY <2>2 DEF CuUpdate, CuFetch, CuFinish
  <2> QED BY <1>7, <2>1, <2>2 DEF CuStep
<1>8. ASSUME NEW c \in CU, CuFault(c) PROVE TaskTypes'
  <2>1. CASE CuPageFault(c) \/ CuFpe(c) \/ CuSegv(c)
    BY <2>1 DEF CuPageFault, CuFpe, CuSegv
  <2> QED BY <1>8, <2>1 DEF CuFault
<1>9. CASE UNCHANGED vars
  BY <1>9 DEF vars
<1> QED BY <1>1, <1>2, <1>3, <1>4, <1>5, <1>6, <1>7, <1>8, <1>9 DEF Next

\* Every step preserves the types of the counters and the work-groups.
LEMMA GridTypesNext ==
  ASSUME GridTypes, [Next]_vars
  PROVE  GridTypes'
<1> USE DEF GridTypes
<1>1. CASE Main
  BY <1>1 DEF Main, MainCreate, MainResume
<1>2. CASE SpuriousReturn
  BY <1>2 DEF SpuriousReturn
<1>3. CASE MonitorStep
  <2>1. CASE MonLock
    BY <2>1 DEF MonLock
  <2>2. CASE MonBoot
    BY <2>2 DEF MonBoot
  <2>3. CASE MonRecheck \/ MonReady
    BY <2>3 DEF MonRecheck, MonReady
  <2>4. CASE MonGet \/ MonTake \/ MonPark \/ MonRetry
    BY <2>4 DEF MonGet, MonTake, MonPark, MonRetry
  <2>5. CASE MonCheck \/ MonReject \/ MonPrepareFails \/ MonFault
    BY <2>5 DEF MonCheck, MonReject, MonPrepareFails, MonFault
  <2>6. CASE MonPrepare
    BY <2>6 DEF MonPrepare
  <2>7. CASE MonResume
    BY <2>7 DEF MonResume
  <2>8. CASE MonFinish \/ MonAbort
    BY <2>8 DEF MonFinish, MonAbort
  <2> QED BY <1>3, <2>1, <2>2, <2>3, <2>4, <2>5, <2>6, <2>7, <2>8 DEF MonitorStep
<1>4. ASSUME NEW v \in VCPU, VcpuStep(v) PROVE GridTypes'
  <2>1. CASE Poke(v) \/ TryLock(v) \/ SignalMonitor(v)
    BY <2>1 DEF Poke, TryLock, SignalMonitor
  <2> QED BY <1>4, <2>1 DEF VcpuStep
<1>5. ASSUME NEW v \in VCPU, NEW t \in Task, Enqueue(v, t) PROVE GridTypes'
  BY <1>5 DEF Enqueue
<1>6. ASSUME NEW s \in Signal, ResetSignal(s) PROVE GridTypes'
  BY <1>6 DEF ResetSignal
<1>7. ASSUME NEW c \in CU, CuStep(c) PROVE GridTypes'
  <2>1. CASE CuLock(c)
    BY <2>1 DEF CuLock
  <2>2. CASE CuReport(c)
    <3>1. cu_busy' \in Int /\ UNCHANGED <<gridData, cuData>>
      <4>1. CASE cu_busy - 1 < 0
        BY <2>2, <4>1 DEF CuReport
      <4>2. CASE ~(cu_busy - 1 < 0)
        BY <2>2, <4>2 DEF CuReport
      <4> QED BY <4>1, <4>2
    <3> QED BY <3>1
  <2>3. CASE CuWake(c)
    BY <2>3 DEF CuWake
  <2>4. CASE CuUnlock(c)
    BY <2>4 DEF CuUnlock
  <2>5. CASE CuUpdate(c)
    BY <2>5 DEF CuUpdate
  <2>6. CASE CuFetch(c)
    BY <2>6 DEF CuFetch
  <2>7. CASE CuFinish(c)
    <3>1. wg[c] \in Int
      OBVIOUS
    <3> QED BY <2>7, <3>1 DEF CuFinish
  <2> QED BY <1>7, <2>1, <2>2, <2>3, <2>4, <2>5, <2>6, <2>7 DEF CuStep
<1>8. ASSUME NEW c \in CU, CuFault(c) PROVE GridTypes'
  <2>1. CASE CuPageFault(c) \/ CuFpe(c) \/ CuSegv(c)
    BY <2>1 DEF CuPageFault, CuFpe, CuSegv
  <2> QED BY <1>8, <2>1 DEF CuFault
<1>9. CASE UNCHANGED vars
  BY <1>9 DEF vars
<1> QED BY <1>1, <1>2, <1>3, <1>4, <1>5, <1>6, <1>7, <1>8, <1>9 DEF Next

\* Locking and unlocking preserve who owns mntr_mutx.
LEMMA MutexOwnerNext ==
  ASSUME Types, MutexOwner, [Next]_vars
  PROVE  MutexOwner'
<1> USE DEF ThreadTypes, Types, MutexOwner
<1>1. CASE Main
  BY <1>1 DEF Main, MainCreate, MainResume
<1>2. CASE SpuriousReturn
  BY <1>2 DEF SpuriousReturn
<1>3. CASE MonitorStep
  <2>1. CASE MonLock
    BY <2>1 DEF MonLock
  <2>2. CASE MonBoot
    BY <2>2 DEF MonBoot
  <2>3. CASE MonRecheck
    BY <2>3 DEF MonRecheck
  <2>4. CASE MonReady
    BY <2>4 DEF MonReady
  <2>5. CASE MonGet
    BY <2>5 DEF MonGet
  <2>6. CASE MonTake
    BY <2>6 DEF MonTake
  <2>7. CASE MonPark
    BY <2>7 DEF MonPark
  <2>8. CASE MonRetry
    BY <2>8 DEF MonRetry
  <2>9. CASE MonCheck
    BY <2>9 DEF MonCheck
  <2>10. CASE MonReject
    BY <2>10 DEF MonReject
  <2>11. CASE MonPrepare
    BY <2>11 DEF MonPrepare
  <2>12. CASE MonPrepareFails
    BY <2>12 DEF MonPrepareFails
  <2>13. CASE MonResume
    BY <2>13 DEF MonResume
  <2>14. CASE MonFinish
    BY <2>14 DEF MonFinish
  <2>15. CASE MonFault
    BY <2>15 DEF MonFault
  <2>16. CASE MonAbort
    BY <2>16 DEF MonAbort
  <2> QED BY <1>3, <2>1, <2>2, <2>3, <2>4, <2>5, <2>6, <2>7, <2>8, <2>9, <2>10,
     <2>11, <2>12, <2>13, <2>14, <2>15, <2>16 DEF MonitorStep
<1>4. ASSUME NEW v \in VCPU, VcpuStep(v) PROVE MutexOwner'
  <2>1. CASE Poke(v)
    BY <2>1 DEF Poke
  <2>2. CASE TryLock(v)
    BY <2>2 DEF TryLock
  <2>3. CASE SignalMonitor(v)
    BY <2>3 DEF SignalMonitor
  <2> QED BY <1>4, <2>1, <2>2, <2>3 DEF VcpuStep
<1>5. ASSUME NEW v \in VCPU, NEW t \in Task, Enqueue(v, t) PROVE MutexOwner'
  BY <1>5 DEF Enqueue
<1>6. ASSUME NEW s \in Signal, ResetSignal(s) PROVE MutexOwner'
  BY <1>6 DEF ResetSignal
<1>7. ASSUME NEW c \in CU, CuStep(c) PROVE MutexOwner'
  <2>1. CASE CuLock(c)
    BY <2>1 DEF CuLock
  <2>2. CASE CuReport(c)
    BY <2>2 DEF CuReport
  <2>3. CASE CuWake(c)
    BY <2>3 DEF CuWake
  <2>4. CASE CuUnlock(c)
    BY <2>4 DEF CuUnlock
  <2>5. CASE CuUpdate(c)
    BY <2>5 DEF CuUpdate
  <2>6. CASE CuFetch(c)
    BY <2>6 DEF CuFetch
  <2>7. CASE CuFinish(c)
    BY <2>7 DEF CuFinish
  <2> QED BY <1>7, <2>1, <2>2, <2>3, <2>4, <2>5, <2>6, <2>7 DEF CuStep
<1>8. ASSUME NEW c \in CU, CuFault(c) PROVE MutexOwner'
  <2>1. CASE CuPageFault(c)
    BY <2>1 DEF CuPageFault
  <2>2. CASE CuFpe(c)
    BY <2>2 DEF CuFpe
  <2>3. CASE CuSegv(c)
    BY <2>3 DEF CuSegv
  <2> QED BY <1>8, <2>1, <2>2, <2>3 DEF CuFault
<1>9. CASE UNCHANGED vars
  BY <1>9 DEF vars
<1> QED BY <1>1, <1>2, <1>3, <1>4, <1>5, <1>6, <1>7, <1>8, <1>9 DEF Next

\* Every step preserves what the monitor's pc says of its task, whatever the CUs do,
LEMMA MonPhaseNext ==
  ASSUME Types, MonPhase, [Next]_vars
  PROVE  MonPhase'
<1> USE DEF ThreadTypes, TaskTypes, Types, MonPhase
<1>1. CASE Main
  BY <1>1 DEF Main, MainCreate, MainResume
<1>2. CASE SpuriousReturn
  BY <1>2 DEF SpuriousReturn
<1>3. CASE MonitorStep
  <2>1. CASE MonLock \/ MonBoot \/ MonRecheck \/ MonReady
    BY <2>1 DEF MonLock, MonBoot, MonRecheck, MonReady
  <2>2. CASE MonGet \/ MonTake \/ MonPark \/ MonRetry
    BY <2>2 DEF MonGet, MonTake, MonPark, MonRetry
  <2>3. CASE MonCheck \/ MonReject \/ MonPrepareFails \/ MonFault
    BY <2>3 DEF MonCheck, MonReject, MonPrepareFails, MonFault
  <2>4. CASE MonPrepare \/ MonResume \/ MonFinish \/ MonAbort
    BY <2>4 DEF MonPrepare, MonResume, MonFinish, MonAbort
  <2> QED BY <1>3, <2>1, <2>2, <2>3, <2>4 DEF MonitorStep
<1>4. ASSUME NEW v \in VCPU, VcpuStep(v) PROVE MonPhase'
  <2>1. CASE Poke(v) \/ TryLock(v) \/ SignalMonitor(v)
    BY <2>1 DEF Poke, TryLock, SignalMonitor
  <2> QED BY <1>4, <2>1 DEF VcpuStep
<1>5. ASSUME NEW v \in VCPU, NEW t \in Task, Enqueue(v, t) PROVE MonPhase'
  BY <1>5 DEF Enqueue
<1>6. ASSUME NEW s \in Signal, ResetSignal(s) PROVE MonPhase'
  BY <1>6 DEF ResetSignal
<1>7. ASSUME NEW c \in CU, CuStep(c) PROVE MonPhase'
  <2>1. CASE CuLock(c) \/ CuReport(c) \/ CuWake(c) \/ CuUnlock(c)
    BY <2>1 DEF CuLock, CuReport, CuWake, CuUnlock
  <2>2. CASE CuUpdate(c) \/ CuFetch(c) \/ CuFinish(c)
    BY <2>2 DEF CuUpdate, CuFetch, CuFinish
  <2> QED BY <1>7, <2>1, <2>2 DEF CuStep
<1>8. ASSUME NEW c \in CU, CuFault(c) PROVE MonPhase'
  <2>1. CASE CuPageFault(c) \/ CuFpe(c) \/ CuSegv(c)
    BY <2>1 DEF CuPageFault, CuFpe, CuSegv
  <2> QED BY <1>8, <2>1 DEF CuFault
<1>9. CASE UNCHANGED vars
  BY <1>9 DEF vars
<1> QED BY <1>1, <1>2, <1>3, <1>4, <1>5, <1>6, <1>7, <1>8, <1>9 DEF Next

\* and what it says of the CUs.
LEMMA CuPhaseNext ==
  ASSUME Types, MutexOwner, Phase, Busy, [Next]_vars
  PROVE  CuPhase'
<1> USE DEF ThreadTypes, TaskTypes, Types, MutexOwner, Phase, MonPhase, CuPhase, Busy, Quiescent
<1>1. CASE Main
  BY <1>1 DEF Main, MainCreate, MainResume
<1>2. CASE SpuriousReturn
  BY <1>2 DEF SpuriousReturn
<1>3. CASE MonitorStep
  <2>1. CASE MonLock \/ MonBoot \/ MonRecheck \/ MonReady
    BY <2>1 DEF MonLock, MonBoot, MonRecheck, MonReady
  <2>2. CASE MonGet \/ MonTake \/ MonPark \/ MonRetry
    BY <2>2 DEF MonGet, MonTake, MonPark, MonRetry
  <2>3. CASE MonCheck \/ MonReject \/ MonPrepareFails \/ MonFault
    BY <2>3 DEF MonCheck, MonReject, MonPrepareFails, MonFault
  <2>4. CASE MonPrepare \/ MonResume \/ MonFinish \/ MonAbort
    BY <2>4 DEF MonPrepare, MonResume, MonFinish, MonAbort
  <2> QED BY <1>3, <2>1, <2>2, <2>3, <2>4 DEF MonitorStep
<1>4. ASSUME NEW v \in VCPU, VcpuStep(v) PROVE CuPhase'
  <2>1. CASE Poke(v) \/ TryLock(v) \/ SignalMonitor(v)
    BY <2>1 DEF Poke, TryLock, SignalMonitor
  <2> QED BY <1>4, <2>1 DEF VcpuStep
<1>5. ASSUME NEW v \in VCPU, NEW t \in Task, Enqueue(v, t) PROVE CuPhase'
  BY <1>5 DEF Enqueue
<1>6. ASSUME NEW s \in Signal, ResetSignal(s) PROVE CuPhase'
  BY <1>6 DEF ResetSignal
<1>7. ASSUME NEW c \in CU, CuStep(c) PROVE CuPhase'
  <2>1. CASE CuLock(c) \/ CuReport(c) \/ CuWake(c) \/ CuUnlock(c)
    BY <2>1 DEF CuLock, CuReport, CuWake, CuUnlock
  <2>2. CASE CuUpdate(c) \/ CuFetch(c) \/ CuFinish(c)
    BY <2>2 DEF CuUpdate, CuFetch, CuFinish
  <2> QED BY <1>7, <2>1, <2>2 DEF CuStep
<1>8. ASSUME NEW c \in CU, CuFault(c) PROVE CuPhase'
  <2>1. CASE CuPageFault(c) \/ CuFpe(c) \/ CuSegv(c)
    BY <2>1 DEF CuPageFault, CuFpe, CuSegv
  <2> QED BY <1>8, <2>1 DEF CuFault
<1>9. CASE UNCHANGED vars
  BY <1>9 DEF vars
<1> QED BY <1>1, <1>2, <1>3, <1>4, <1>5, <1>6, <1>7, <1>8, <1>9 DEF Next

\* Reports, broadcasts and rechecks preserve the count of the busy CUs.
LEMMA BusyNext ==
  ASSUME Types, Phase, Busy, [Next]_vars
  PROVE  Busy'
<1> USE DEF ThreadTypes, GridTypes, Types, Phase, MonPhase, CuPhase, Busy, Quiescent, Active
<1>1. CASE Main
  BY <1>1 DEF Main, MainCreate, MainResume
<1>2. CASE SpuriousReturn
  <2>1. UNCHANGED <<cu_pc, cu_busy>> /\ Active' = Active
    BY <1>2 DEF SpuriousReturn
  <2>2. CASE mon_pc = "wait_cu" /\ mon_pc' = "woken_cu"
    BY <2>1, <2>2
  <2>3. CASE mon_pc = "wait_task" /\ mon_pc' = "woken_task"
    BY <2>1, <2>3
  <2>4. CASE mon_pc' = mon_pc
    BY <2>1, <2>4
  <2> QED BY <1>2, <2>2, <2>3, <2>4 DEF SpuriousReturn
<1>3. CASE MonitorStep
  <2>1. CASE MonLock
    BY <2>1 DEF MonLock
  <2>2. CASE MonBoot
    <3>1. Active' = CU
      BY <2>2 DEF MonBoot
    <3> QED BY <2>2, <3>1 DEF MonBoot, NumCus
  <2>3. CASE MonRecheck
    <3>1. CASE cu_busy # 0
      BY <2>3, <3>1 DEF MonRecheck
    <3>2. CASE cu_busy = 0
      <4>1. IsFiniteSet(Active)
        BY FS_Subset
      <4>2. Active = {}
        BY <2>3, <3>2, <4>1, FS_EmptySet DEF MonRecheck
      <4> QED BY <2>3, <3>2, <4>2 DEF MonRecheck
    <3> QED BY <3>1, <3>2
  <2>4. CASE MonReady
    BY <2>4 DEF MonReady
  <2>5. CASE MonGet
    BY <2>5 DEF MonGet
  <2>6. CASE MonTake
    BY <2>6 DEF MonTake
  <2>7. CASE MonPark
    BY <2>7 DEF MonPark
  <2>8. CASE MonRetry
    BY <2>8 DEF MonRetry
  <2>9. CASE MonCheck
    BY <2>9 DEF MonCheck
  <2>10. CASE MonReject
    BY <2>10 DEF MonReject
  <2>11. CASE MonPrepare
    BY <2>11 DEF MonPrepare
  <2>12. CASE MonPrepareFails
    BY <2>12 DEF MonPrepareFails
  <2>13. CASE MonResume
    <3>1. Active' = CU
      BY <2>13 DEF MonResume
    <3> QED BY <2>13, <3>1 DEF MonResume, NumCus
  <2>14. CASE MonFinish
    BY <2>14 DEF MonFinish
  <2>15. CASE MonFault
    BY <2>15 DEF MonFault
  <2>16. CASE MonAbort
    BY <2>16 DEF MonAbort
  <2> QED BY <1>3, <2>1, <2>2, <2>3, <2>4, <2>5, <2>6, <2>7, <2>8, <2>9, <2>10,
     <2>11, <2>12, <2>13, <2>14, <2>15, <2>16 DEF MonitorStep
<1>4. ASSUME NEW v \in VCPU, VcpuStep(v) PROVE Busy'
  <2>1. CASE Poke(v)
    BY <2>1 DEF Poke
  <2>2. CASE TryLock(v)
    BY <2>2 DEF TryLock
  <2>3. CASE SignalMonitor(v)
    BY <2>3 DEF SignalMonitor
  <2> QED BY <1>4, <2>1, <2>2, <2>3 DEF VcpuStep
<1>5. ASSUME NEW v \in VCPU, NEW t \in Task, Enqueue(v, t) PROVE Busy'
  BY <1>5 DEF Enqueue
<1>6. ASSUME NEW s \in Signal, ResetSignal(s) PROVE Busy'
  BY <1>6 DEF ResetSignal
<1>7. ASSUME NEW c \in CU, CuStep(c) PROVE Busy'
  <2>1. CASE CuLock(c)
    BY <2>1 DEF CuLock
  <2>2. CASE CuReport(c)
    <3>1. c \in Active /\ mon_pc \in MonWaitsCus
      BY <2>2 DEF CuReport
    <3>2. CASE Exit
      BY <3>2
    <3>3. CASE ~(cu_busy - 1 < 0)
      <4>1. Active' = Active \ {c} /\ cu_busy' = cu_busy - 1
        BY <2>2, <3>1, <3>3 DEF CuReport
      <4>2. IsFiniteSet(Active)
        BY FS_Subset
      <4>3. cu_busy' = Cardinality(Active')
        <5>1. cu_busy = Cardinality(Active)
          BY <3>1
        <5> HIDE DEF Active
        <5>2. Cardinality(Active \ {c}) = Cardinality(Active) - 1
          BY <3>1, <4>2, FS_RemoveElement
        <5> QED BY <4>1, <5>1, <5>2
      <4>4. mon_pc' \in MonWaitsCus /\ (mon_pc' = "wait_cu" => cu_busy' # 0)
        BY <2>2, <3>1, <3>3, <4>1 DEF CuReport
      <4> QED BY <4>3, <4>4
    <3> QED BY <2>2, <3>2, <3>3 DEF CuReport
  <2>3. CASE CuWake(c)
    BY <2>3 DEF CuWake
  <2>4. CASE CuUnlock(c)
    BY <2>4 DEF CuUnlock
  <2>5. CASE CuUpdate(c)
    <3>1. Active' = Active /\ UNCHANGED <<mon_pc, cu_busy>>
      BY <2>5 DEF CuUpdate
    <3>2. mon_pc \in MonWaitsCus
      BY <2>5 DEF CuUpdate
    <3> QED BY <3>1, <3>2
  <2>6. CASE CuFetch(c)
    <3>1. Active' = Active /\ UNCHANGED <<mon_pc, cu_busy>>
      BY <2>6 DEF CuFetch
    <3>2. mon_pc \in MonWaitsCus
      BY <2>6 DEF CuFetch
    <3> QED BY <3>1, <3>2
  <2>7. CASE CuFinish(c)
    BY <2>7 DEF CuFinish
  <2> QED BY <1>7, <2>1, <2>2, <2>3, <2>4, <2>5, <2>6, <2>7 DEF CuStep
<1>8. ASSUME NEW c \in CU, CuFault(c) PROVE Busy'
  <2>1. CASE CuPageFault(c)
    BY <2>1 DEF CuPageFault
  <2>2. CASE CuFpe(c)
    <3>1. Active' = Active /\ UNCHANGED <<mon_pc, cu_busy>>
      BY <2>2 DEF CuFpe
    <3>2. mon_pc \in MonWaitsCus
      BY <2>2 DEF CuFpe
    <3> QED BY <3>1, <3>2
  <2>3. CASE CuSegv(c)
    BY <2>3 DEF CuSegv
  <2> QED BY <1>8, <2>1, <2>2, <2>3 DEF CuFault
<1>9. CASE UNCHANGED vars
  BY <1>9 DEF vars
<1> QED BY <1>1, <1>2, <1>3, <1>4, <1>5, <1>6, <1>7, <1>8, <1>9 DEF Next

\* Fetching, finishing and faulting preserve the account of the work-groups.
LEMMA WorkNext ==
  ASSUME Types, Phase, Busy, Work, [Next]_vars
  PROVE  Work'
<1> USE DEF ThreadTypes, GridTypes, Types, Phase, MonPhase, CuPhase, Busy, Quiescent, Work, Taken,
   Running, Holders
<1>1. CASE Main
  <2>1. CASE MainCreate
    BY <2>1 DEF MainCreate
  <2>2. CASE MainResume
    BY <2>2 DEF MainResume
  <2> QED BY <1>1, <2>1, <2>2 DEF Main
<1>2. CASE SpuriousReturn
  BY <1>2 DEF SpuriousReturn
<1>3. CASE MonitorStep
  <2>1. CASE MonLock
    BY <2>1 DEF MonLock
  <2>2. CASE MonBoot
    BY <2>2 DEF MonBoot
  <2>3. CASE MonRecheck
    BY <2>3 DEF MonRecheck
  <2>4. CASE MonReady
    BY <2>4 DEF MonReady
  <2>5. CASE MonGet
    BY <2>5 DEF MonGet
  <2>6. CASE MonTake
    BY <2>6 DEF MonTake
  <2>7. CASE MonPark
    BY <2>7 DEF MonPark
  <2>8. CASE MonRetry
    BY <2>8 DEF MonRetry
  <2>9. CASE MonCheck
    <3>1. CASE Exit
      BY <3>1
    <3>2. CASE mon_pc' = "prepare" /\ UNCHANGED <<cu_pc, task, gridData, cuData>>
      BY <3>2
    <3> QED BY <2>9, <3>1, <3>2 DEF MonCheck
  <2>10. CASE MonReject
    BY <2>10 DEF MonReject
  <2>11. CASE MonPrepare
    BY <2>11 DEF MonPrepare
  <2>12. CASE MonPrepareFails
    BY <2>12 DEF MonPrepareFails
  <2>13. CASE MonResume
    BY <2>13 DEF MonResume
  <2>14. CASE MonFinish
    BY <2>14 DEF MonFinish
  <2>15. CASE MonFault
    BY <2>15 DEF MonFault
  <2>16. CASE MonAbort
    BY <2>16 DEF MonAbort
  <2> QED BY <1>3, <2>1, <2>2, <2>3, <2>4, <2>5, <2>6, <2>7, <2>8, <2>9, <2>10,
     <2>11, <2>12, <2>13, <2>14, <2>15, <2>16 DEF MonitorStep
<1>4. ASSUME NEW v \in VCPU, VcpuStep(v) PROVE Work'
  <2>1. CASE Poke(v)
    BY <2>1 DEF Poke
  <2>2. CASE TryLock(v)
    BY <2>2 DEF TryLock
  <2>3. CASE SignalMonitor(v)
    BY <2>3 DEF SignalMonitor
  <2> QED BY <1>4, <2>1, <2>2, <2>3 DEF VcpuStep
<1>5. ASSUME NEW v \in VCPU, NEW t \in Task, Enqueue(v, t) PROVE Work'
  BY <1>5 DEF Enqueue
<1>6. ASSUME NEW s \in Signal, ResetSignal(s) PROVE Work'
  BY <1>6 DEF ResetSignal
<1>7. ASSUME NEW c \in CU, CuStep(c) PROVE Work'
  <2>1. CASE CuLock(c)
    BY <2>1 DEF CuLock
  <2>2. CASE CuReport(c)
    <3>1. CASE Exit
      BY <3>1
    <3>2. CASE ~(cu_busy - 1 < 0)
      <4>1. /\ cu_pc[c] = "report" /\ cu_pc' = [cu_pc EXCEPT ![c] = "sleep"]
            /\ UNCHANGED <<gridData, wg, task>>
        BY <2>2, <3>2 DEF CuReport
      <4>3. mon_pc' = mon_pc \/ (mon_pc = "wait_cu" /\ mon_pc' = "woken_cu")
        BY <2>2, <3>2 DEF CuReport
      <4>2. Running' = Running /\ Holders' = Holders /\ Taken' = Taken
        BY <4>1
      <4> HIDE DEF Running, Holders, Taken
      <4> QED BY <4>1, <4>2, <4>3
    <3> QED BY <2>2, <3>1, <3>2 DEF CuReport
  <2>3. CASE CuWake(c)
    BY <2>3 DEF CuWake
  <2>4. CASE CuUnlock(c)
    BY <2>4 DEF CuUnlock
  <2>5. CASE CuUpdate(c)
    <3>1. CASE Exit
      BY <3>1
    <3>2. CASE global_cpu_state # NoTask
      <4>1. /\ cu_pc[c] = "update" /\ cu_pc' = [cu_pc EXCEPT ![c] = "fetch"]
            /\ UNCHANGED <<gridData, wg, task, mon_pc>>
        BY <2>5, <3>2 DEF CuUpdate
      <4>2. Running' = Running /\ Holders' = Holders /\ Taken' = Taken
        BY <4>1
      <4> HIDE DEF Running, Holders, Taken
      <4> QED BY <4>1, <4>2
    <3> QED BY <2>5, <3>1, <3>2 DEF CuUpdate
  <2>6. CASE CuFetch(c)
    <3>1. CASE Drained
      <4>1. /\ cu_pc[c] = "fetch" /\ cu_pc' = [cu_pc EXCEPT ![c] = "lock"]
            /\ UNCHANGED <<gridData, wg, task, mon_pc>>
        BY <2>6, <3>1 DEF CuFetch
      <4>2. Running' = Running /\ Holders' = Holders /\ Taken' = Taken
        BY <4>1
      <4>3. finish_id = flat_grid_size
        BY <3>1
      <4> HIDE DEF Running, Holders, Taken
      <4> QED BY <4>1, <4>2, <4>3
    <3>2. CASE ~Drained
      <4>1. /\ cu_pc[c] = "fetch" /\ cu_pc' = [cu_pc EXCEPT ![c] = "run"]
            /\ wg' = [wg EXCEPT ![c] = finish_id] /\ finish_id' = finish_id + 1
            /\ UNCHANGED <<flat_grid_size, executed, faulted, task, mon_pc>>
        BY <2>6, <3>2 DEF CuFetch
      <4>2. c \notin Holders /\ Holders' = Holders \cup {c}
        BY <4>1
      <4>3. finish_id < flat_grid_size /\ Taken' = Taken \cup {finish_id}
            /\ finish_id \notin Taken
        BY <3>2, <4>1
      <4>4. /\ wg'[c] = finish_id
            /\ \A d \in Holders : wg'[d] = wg[d] /\ wg'[d] # finish_id
        BY <4>1, <4>2, <4>3
      <4>5. 0 <= finish_id' /\ finish_id' <= flat_grid_size'
        BY <4>1, <4>3
      <4>6. Holders \subseteq CU
        OBVIOUS
      <4> HIDE DEF Running, Holders, Taken
      <4>7. \A d \in Holders' : wg'[d] \in Taken' \ executed'
        BY <4>1, <4>2, <4>3, <4>4
      <4>8. \A d, e \in Holders' : wg'[d] = wg'[e] => d = e
        BY <4>2, <4>4
      <4>9. \A g \in Taken' : g \in executed' \/ \E d \in Holders' : wg'[d] = g
        BY <4>1, <4>2, <4>3, <4>4
      <4>10. executed' \subseteq Taken'
        BY <4>1, <4>3
      <4> QED BY <4>1, <4>3, <4>5, <4>7, <4>8, <4>9, <4>10
    <3> QED BY <3>1, <3>2
  <2>7. CASE CuFinish(c)
    <3>1. /\ cu_pc[c] = "run" /\ cu_pc' = [cu_pc EXCEPT ![c] = "fetch"]
          /\ executed' = executed \cup {wg[c]}
          /\ UNCHANGED <<flat_grid_size, finish_id, faulted, wg, task, mon_pc>>
      BY <2>7 DEF CuFinish
    <3>2. /\ c \in Holders /\ Holders' = Holders \ {c} /\ Holders \subseteq CU
          /\ Taken' = Taken
      BY <3>1
    <3> HIDE DEF Running, Holders, Taken
    <3>3. \A d \in Holders' : wg'[d] \in Taken' \ executed'
      BY <3>1, <3>2
    <3>4. \A g \in Taken' : g \in executed' \/ \E d \in Holders' : wg'[d] = g
      BY <3>1, <3>2
    <3>5. executed' \subseteq Taken'
      BY <3>1, <3>2
    <3> QED BY <3>1, <3>2, <3>3, <3>4, <3>5
  <2> QED BY <1>7, <2>1, <2>2, <2>3, <2>4, <2>5, <2>6, <2>7 DEF CuStep
<1>8. ASSUME NEW c \in CU, CuFault(c) PROVE Work'
  <2>1. CASE CuPageFault(c)
    BY <2>1 DEF CuPageFault
  <2>2. CASE CuFpe(c)
    <3>1. CASE Exit
      BY <3>1
    <3>2. CASE c \notin fpe_blocked
      <4>1. /\ cu_pc[c] = "run" /\ cu_pc' = [cu_pc EXCEPT ![c] = "lock"]
            /\ faulted' = faulted \cup {c}
            /\ UNCHANGED <<flat_grid_size, finish_id, executed, wg, task, mon_pc>>
        BY <2>2, <3>2 DEF CuFpe
      <4>2. Holders' = Holders /\ Taken' = Taken /\ mon_pc \in MonWaitsCus
        BY <4>1
      <4> HIDE DEF Running, Holders, Taken
      <4> QED BY <4>1, <4>2
    <3> QED BY <2>2, <3>1, <3>2 DEF CuFpe
  <2>3. CASE CuSegv(c)
    BY <2>3 DEF CuSegv
  <2> QED BY <1>8, <2>1, <2>2, <2>3 DEF CuFault
<1>9. CASE UNCHANGED vars
  BY <1>9 DEF vars
<1> QED BY <1>1, <1>2, <1>3, <1>4, <1>5, <1>6, <1>7, <1>8, <1>9 DEF Next

\* The CPU state shared by the CUs stays that of the task in service.
LEMMA EnvNext ==
  ASSUME Types, Phase, Busy, Env, [Next]_vars
  PROVE  Env'
<1> USE DEF ThreadTypes, TaskTypes, Types, Phase, MonPhase, CuPhase, Busy, Quiescent, Env
<1>1. CASE Main
  BY <1>1 DEF Main, MainCreate, MainResume
<1>2. CASE SpuriousReturn
  BY <1>2 DEF SpuriousReturn
<1>3. CASE MonitorStep
  <2>1. CASE MonLock \/ MonBoot \/ MonRecheck \/ MonReady
    BY <2>1 DEF MonLock, MonBoot, MonRecheck, MonReady
  <2>2. CASE MonGet \/ MonTake \/ MonPark \/ MonRetry
    BY <2>2 DEF MonGet, MonTake, MonPark, MonRetry
  <2>3. CASE MonCheck \/ MonReject \/ MonPrepareFails \/ MonFault
    BY <2>3 DEF MonCheck, MonReject, MonPrepareFails, MonFault
  <2>4. CASE MonPrepare \/ MonResume \/ MonFinish \/ MonAbort
    BY <2>4 DEF MonPrepare, MonResume, MonFinish, MonAbort
  <2> QED BY <1>3, <2>1, <2>2, <2>3, <2>4 DEF MonitorStep
<1>4. ASSUME NEW v \in VCPU, VcpuStep(v) PROVE Env'
  <2>1. CASE Poke(v) \/ TryLock(v) \/ SignalMonitor(v)
    BY <2>1 DEF Poke, TryLock, SignalMonitor
  <2> QED BY <1>4, <2>1 DEF VcpuStep
<1>5. ASSUME NEW v \in VCPU, NEW t \in Task, Enqueue(v, t) PROVE Env'
  BY <1>5 DEF Enqueue
<1>6. ASSUME NEW s \in Signal, ResetSignal(s) PROVE Env'
  BY <1>6 DEF ResetSignal
<1>7. ASSUME NEW c \in CU, CuStep(c) PROVE Env'
  <2>1. CASE CuLock(c) \/ CuReport(c) \/ CuWake(c) \/ CuUnlock(c)
    BY <2>1 DEF CuLock, CuReport, CuWake, CuUnlock
  <2>2. CASE CuUpdate(c) \/ CuFetch(c) \/ CuFinish(c)
    BY <2>2 DEF CuUpdate, CuFetch, CuFinish
  <2> QED BY <1>7, <2>1, <2>2 DEF CuStep
<1>8. ASSUME NEW c \in CU, CuFault(c) PROVE Env'
  <2>1. CASE CuPageFault(c) \/ CuFpe(c) \/ CuSegv(c)
    BY <2>1 DEF CuPageFault, CuFpe, CuSegv
  <2> QED BY <1>8, <2>1 DEF CuFault
<1>9. CASE UNCHANGED vars
  BY <1>9 DEF vars
<1> QED BY <1>1, <1>2, <1>3, <1>4, <1>5, <1>6, <1>7, <1>8, <1>9 DEF Next

\* Enqueue, take and free preserve the place of each task.
LEMMA AllocNext ==
  ASSUME Types, MonPhase, Alloc, [Next]_vars
  PROVE  Alloc'
<1> USE DEF ThreadTypes, TaskTypes, Types, MonPhase, Alloc, NoLeakNoDangling
<1>1. CASE Main
  BY <1>1 DEF Main, MainCreate, MainResume
<1>2. CASE SpuriousReturn
  BY <1>2 DEF SpuriousReturn
<1>3. CASE MonitorStep
  <2>1. CASE MonLock \/ MonBoot \/ MonRecheck \/ MonReady
    BY <2>1 DEF MonLock, MonBoot, MonRecheck, MonReady
  <2>2. CASE MonGet \/ MonPark \/ MonRetry
    BY <2>2 DEF MonGet, MonPark, MonRetry
  <2>3. CASE MonTake
    <3>1. /\ queue # <<>> /\ task = NoTask /\ task' = Head(queue)
          /\ queue' = Tail(queue) /\ heap' = heap /\ sent' = sent
      BY <2>3 DEF MonTake
    <3>2. /\ Len(queue) \in Nat \ {0} /\ DOMAIN queue = 1 .. Len(queue)
          /\ task' = queue[1] /\ task' \in Task
          /\ DOMAIN queue' = 1 .. Len(queue) - 1
          /\ \A i \in 1 .. Len(queue) - 1 : queue'[i] = queue[i + 1]
      BY <3>1
    <3>3. heap' = {queue'[i] : i \in DOMAIN queue'} \cup ({task'} \ {NoTask})
      <4>1. ASSUME NEW x \in heap PROVE x = task' \/ \E i \in DOMAIN queue' : x = queue'[i]
        <5>1. PICK j \in DOMAIN queue : x = queue[j]
          BY <3>1
        <5>2. CASE j = 1
          BY <5>1, <5>2, <3>2
        <5>3. CASE j # 1
          <6>1. j - 1 \in DOMAIN queue' /\ queue'[j - 1] = queue[j]
            BY <5>1, <5>3, <3>2
          <6> QED BY <5>1, <6>1
        <5> QED BY <5>2, <5>3
      <4>2. \A i \in DOMAIN queue' : queue'[i] \in heap
        BY <3>1, <3>2
      <4>3. task' \in heap /\ task' # NoTask
        BY <3>1, <3>2
      <4>4. ASSUME NEW x \in heap'
            PROVE  x \in {queue'[i] : i \in DOMAIN queue'} \cup ({task'} \ {NoTask})
        <5>1. x = task' \/ \E i \in DOMAIN queue' : x = queue'[i]
          BY <3>1, <4>1
        <5>2. x = task' => x \in {task'} \ {NoTask}
          BY <4>3
        <5> QED BY <5>1, <5>2, Zenon
      <4>5. {queue'[i] : i \in DOMAIN queue'} \subseteq heap'
        BY <3>1, <4>2
      <4>6. {task'} \ {NoTask} \subseteq heap'
        BY <3>1, <4>3
      <4> QED BY <4>4, <4>5, <4>6
    <3>4. \A i, j \in DOMAIN queue' : queue'[i] = queue'[j] => i = j
      <4>1. ASSUME NEW i \in DOMAIN queue', NEW j \in DOMAIN queue',
                   queue'[i] = queue'[j]
            PROVE  i = j
        <5>1. i + 1 \in DOMAIN queue /\ j + 1 \in DOMAIN queue
          BY <3>2
        <5>2. queue[i + 1] = queue[j + 1]
          BY <3>2, <4>1
        <5>3. i + 1 = j + 1
          BY <5>1, <5>2
        <5> QED BY <3>2, <5>3
      <4> QED BY <4>1
    <3>5. \A i \in DOMAIN queue' : queue'[i] # task'
      <4>1. ASSUME NEW i \in DOMAIN queue' PROVE queue'[i] # task'
        <5>1. i + 1 \in DOMAIN queue /\ 1 \in DOMAIN queue /\ i + 1 # 1
          BY <3>2
        <5>2. queue[i + 1] # queue[1]
          BY <5>1
        <5> QED BY <3>2, <5>2
      <4> QED BY <4>1
    <3> QED BY <3>1, <3>3, <3>4, <3>5
  <2>4. CASE MonCheck \/ MonReject \/ MonPrepareFails \/ MonFault
    BY <2>4 DEF MonCheck, MonReject, MonPrepareFails, MonFault
  <2>5. CASE MonPrepare \/ MonResume \/ MonFinish \/ MonAbort
    BY <2>5 DEF MonPrepare, MonResume, MonFinish, MonAbort
  <2> QED BY <1>3, <2>1, <2>2, <2>3, <2>4, <2>5 DEF MonitorStep
<1>4. ASSUME NEW v \in VCPU, VcpuStep(v) PROVE Alloc'
  <2>1. CASE Poke(v) \/ TryLock(v) \/ SignalMonitor(v)
    BY <2>1 DEF Poke, TryLock, SignalMonitor
  <2> QED BY <1>4, <2>1 DEF VcpuStep
<1>5. ASSUME NEW v \in VCPU, NEW t \in Task, Enqueue(v, t) PROVE Alloc'
  <2>1. /\ queue' = Append(queue, t) /\ heap' = heap \cup {t}
        /\ sent' = sent \cup {t} /\ t \notin sent /\ task' = task
    BY <1>5 DEF Enqueue
  <2>2. /\ DOMAIN queue = 1 .. Len(queue) /\ Len(queue) \in Nat
        /\ DOMAIN queue' = 1 .. Len(queue) + 1
        /\ \A i \in 1 .. Len(queue) : queue'[i] = queue[i]
        /\ queue'[Len(queue) + 1] = t
    BY <2>1
  <2>3. t \notin heap /\ t # task /\ \A i \in DOMAIN queue : queue[i] # t
    BY <2>1
  <2>4. heap' = {queue'[i] : i \in DOMAIN queue'} \cup ({task'} \ {NoTask})
    <3>1. {queue'[i] : i \in DOMAIN queue'}
            = {queue[i] : i \in DOMAIN queue} \cup {t}
      BY <2>2
    <3> QED BY <2>1, <3>1
  <2>5. \A i, j \in DOMAIN queue' : queue'[i] = queue'[j] => i = j
    BY <2>2, <2>3
  <2>6. \A i \in DOMAIN queue' : queue'[i] # task'
    BY <2>1, <2>2, <2>3
  <2> QED BY <2>1, <2>4, <2>5, <2>6
<1>6. ASSUME NEW s \in Signal, ResetSignal(s) PROVE Alloc'
  BY <1>6 DEF ResetSignal
<1>7. ASSUME NEW c \in CU, CuStep(c) PROVE Alloc'
  <2>1. CASE CuLock(c) \/ CuReport(c) \/ CuWake(c) \/ CuUnlock(c)
    BY <2>1 DEF CuLock, CuReport, CuWake, CuUnlock
  <2>2. CASE CuUpdate(c) \/ CuFetch(c) \/ CuFinish(c)
    BY <2>2 DEF CuUpdate, CuFetch, CuFinish
  <2> QED BY <1>7, <2>1, <2>2 DEF CuStep
<1>8. ASSUME NEW c \in CU, CuFault(c) PROVE Alloc'
  <2>1. CASE CuPageFault(c) \/ CuFpe(c) \/ CuSegv(c)
    BY <2>1 DEF CuPageFault, CuFpe, CuSegv
  <2> QED BY <1>8, <2>1 DEF CuFault
<1>9. CASE UNCHANGED vars
  BY <1>9 DEF vars
<1> QED BY <1>1, <1>2, <1>3, <1>4, <1>5, <1>6, <1>7, <1>8, <1>9 DEF Next

\* IInv is an inductive invariant.
LEMMA InitIInv == Init => IInv
<1> SUFFICES ASSUME Init PROVE IInv
  OBVIOUS
<1> USE DEF Init
<1>1. ThreadTypes
  BY DEF ThreadTypes
<1>2. TaskTypes
  BY DEF TaskTypes
<1>3. GridTypes
  BY DEF GridTypes
<1>4. MutexOwner
  BY DEF MutexOwner
<1>5. Phase /\ Busy
  BY DEF Phase, MonPhase, CuPhase, Busy, Quiescent
<1>6. Work
  BY DEF Work, Holders, Running, Taken
<1>7. Env /\ Alloc
  BY DEF Env, Alloc, NoLeakNoDangling
<1> QED BY <1>1, <1>2, <1>3, <1>4, <1>5, <1>6, <1>7 DEF IInv, Types

LEMMA IInvNext == IInv /\ [Next]_vars => IInv'
<1> SUFFICES ASSUME IInv, [Next]_vars PROVE IInv'
  OBVIOUS
<1> QED BY ThreadTypesNext, TaskTypesNext, GridTypesNext, MutexOwnerNext,
           MonPhaseNext, CuPhaseNext, BusyNext, WorkNext, EnvNext, AllocNext
        DEF IInv, Types, Phase

\* What the threads owe each other holds at every step of the dispatch path.
THEOREM Invariance == Spec => []IInv
BY InitIInv, IInvNext, PTL DEF Spec

\* The variables keep their types; in particular cu_busy stays between 0 and
\* the number of CUs, and finish_id never passes the grid.
THEOREM TypeCorrect == Spec => []TypeOK
<1>1. IInv => TypeOK
  <2> SUFFICES ASSUME IInv PROVE TypeOK
    OBVIOUS
  <2>1. cu_busy \in 0 .. NumCus
    <3>1. Active \in SUBSET CU
      BY DEF Active
    <3>2. Cardinality(Active) \in Nat /\ Cardinality(Active) <= NumCus
      BY <3>1, FS_Subset, FS_CardinalityType DEF NumCus
    <3> QED BY <3>2 DEF IInv, Busy
  <2>2. finish_id \in 0 .. flat_grid_size
    BY DEF IInv, Work, Types, GridTypes
  <2> QED BY <2>1, <2>2 DEF IInv, Types, ThreadTypes, TaskTypes, GridTypes, TypeOK
<1> QED BY <1>1, Invariance, PTL

\* The monitor never touches the data of a dispatch while a CU is awake.
THEOREM MonitorIsAlone == Spec => []Quiescent
<1>1. IInv => Quiescent
  BY DEF IInv, Busy
<1> QED BY <1>1, Invariance, PTL

\* The counter is exact, and the last report finds the monitor awake or wakes it.
THEOREM CounterIsExact == Spec => []BusyCount
<1>1. IInv => BusyCount
  BY DEF IInv, Busy, BusyCount, Active
<1> QED BY <1>1, Invariance, PTL

\* mntr_mutx is owned exactly in the locked regions, hence by one thread.
THEOREM OneOwner == Spec => []MutexOwner
<1>1. IInv => MutexOwner
  BY DEF IInv
<1> QED BY <1>1, Invariance, PTL

\* No work-group runs twice, whatever the CUs and their faults.
THEOREM GroupsRunOnce == Spec => []GroupsOnce
<1>1. IInv => GroupsOnce
  <2> SUFFICES ASSUME IInv PROVE GroupsOnce
    OBVIOUS
  <2>1. ASSUME NEW c \in Running PROVE wg[c] \in Taken \ (executed \cup Lost)
    <3>1. wg[c] \in Taken \ executed
      BY <2>1 DEF IInv, Work, Holders
    <3>2. ASSUME NEW d \in faulted, wg[d] = wg[c] PROVE FALSE
      <4>1. c = d
        BY <2>1, <3>2 DEF IInv, Work, Holders
      <4> QED BY <4>1, <2>1 DEF IInv, Work, Running
    <3> QED BY <3>1, <3>2 DEF Lost
  <2>2. \A c, d \in Running : wg[c] = wg[d] => c = d
    BY DEF IInv, Work, Holders
  <2> QED BY <2>1, <2>2 DEF GroupsOnce
<1> QED BY <1>1, Invariance, PTL

\* When the monitor writes the completion signal all CUs are asleep: a group is
\* done or held by a CU that faulted, and a CU without a fault left none untaken.
LEMMA FinishIsHonest ==
  ASSUME IInv, mon_pc = "finish"
  PROVE  Taken \subseteq executed \cup Lost /\ (Untaken # {} => faulted = CU)
<1>1. \A c \in CU : cu_pc[c] = "sleep"
  BY DEF IInv, Busy, Quiescent
<1>2. Holders = faulted
  BY <1>1 DEF Holders, Running
<1>3. Taken \subseteq executed \cup Lost
  BY <1>2 DEF IInv, Work, Lost
<1>4. ASSUME Untaken # {} PROVE faulted = CU
  <2>1. finish_id # flat_grid_size
    BY <1>4 DEF Untaken, IInv, Types, GridTypes
  <2>2. task # NoTask
    BY DEF IInv, Phase, MonPhase, CuPhase
  <2>3. \A c \in CU : c \in faulted
    BY <1>1, <2>1, <2>2 DEF IInv, Work
  <2> QED BY <2>3 DEF IInv, Types, GridTypes
<1> QED BY <1>3, <1>4

\* A completion is only written for a dispatch whose groups are accounted for.
THEOREM CompletionIsHonest == Spec => []CompletionHonest
<1>1. IInv => CompletionHonest
  BY FinishIsHonest DEF CompletionHonest
<1> QED BY <1>1, Invariance, PTL

\* A CU at work uses the CPU state of the task in service, which is allocated.
THEOREM EnvIsCurrent == Spec => []EnvCurrent
<1>1. IInv => EnvCurrent
  <2> SUFFICES ASSUME IInv, NEW c \in CU, cu_pc[c] \in {"fetch", "run"}
      PROVE  cu_env[c] = task /\ task \in heap /\ global_cpu_state = task
    BY DEF EnvCurrent
  <2>1. task # NoTask
    BY DEF IInv, Phase, MonPhase, CuPhase
  <2>2. cu_env[c] = task /\ global_cpu_state = task
    BY <2>1 DEF IInv, Env
  <2>3. task \in heap
    BY <2>1 DEF IInv, Alloc, NoLeakNoDangling
  <2> QED BY <2>2, <2>3
<1> QED BY <1>1, Invariance, PTL

\* Every allocated task is on the queue or in service, and only there.
THEOREM TasksAccounted == Spec => []NoLeakNoDangling
<1>1. IInv => NoLeakNoDangling
  BY DEF IInv, Alloc
<1> QED BY <1>1, Invariance, PTL

\* The invariant of the path when a CU may wake by itself: where the monitor is
\* and where the tasks are, with nothing said of the CUs.
SpuriousIInv == Types /\ MutexOwner /\ MonPhase /\ Alloc

\* A CU that wakes although nobody signalled breaks neither the lock nor the queue
\* (hsa_cu.c:33-52, hsa_agent.c:455-475,596-601).
THEOREM SpuriousWakeupIsSurvived == SpecSpurious => []SurvivesSpurious
<1>1. Init => SpuriousIInv
  BY InitIInv DEF IInv, SpuriousIInv, Phase
<1>2. ASSUME SpuriousIInv, [NextSpurious]_vars PROVE SpuriousIInv'
  <2>1. CASE [Next]_vars
    BY <1>2, <2>1, ThreadTypesNext, TaskTypesNext, GridTypesNext, MutexOwnerNext,
       MonPhaseNext, AllocNext DEF SpuriousIInv, Types
  <2>2. ASSUME NEW c \in CU, SpuriousCu(c) PROVE SpuriousIInv'
    <3>1. /\ cu_pc[c] = "sleep" /\ cu_pc' = [cu_pc EXCEPT ![c] = "woken"]
          /\ UNCHANGED <<main_pc, mon_pc, v_pc, mntr_mutx, mntr_s, process>>
          /\ UNCHANGED <<monitorData, gridData, cuData, ghosts, cu_busy>>
      BY <2>2 DEF SpuriousCu
    <3>2. Types'
      BY <1>2, <3>1 DEF SpuriousIInv, Types, ThreadTypes, TaskTypes, GridTypes
    <3>3. MutexOwner'
      BY <1>2, <3>1 DEF SpuriousIInv, Types, ThreadTypes, MutexOwner
    <3>4. MonPhase' /\ Alloc'
      BY <1>2, <3>1 DEF SpuriousIInv, MonPhase, Alloc, NoLeakNoDangling
    <3> QED
      BY <3>2, <3>3, <3>4 DEF SpuriousIInv
  <2> QED
    BY <1>2, <2>1, <2>2 DEF NextSpurious
<1>3. SpuriousIInv => SurvivesSpurious
  BY DEF SpuriousIInv, SurvivesSpurious, Alloc
<1> QED BY <1>1, <1>2, <1>3, PTL DEF SpecSpurious

\* The grid and the task in service change only while every CU sleeps.
THEOREM GridIsStable == Spec => GridStable
<1>1. ASSUME IInv, [Next]_vars
      PROVE  [flat_grid_size' # flat_grid_size \/ task' # task
                => \A c \in CU : cu_pc[c] = "sleep"]_vars
  <2>1. CASE mon_pc \in {"take", "prepare", "abort"}
    BY <1>1, <2>1 DEF IInv, Busy, Quiescent
  <2>2. CASE mon_pc \notin {"take", "prepare", "abort"}
    <3> USE <1>1, <2>2
    <3>1. CASE Main \/ SpuriousReturn
      BY <3>1 DEF Main, MainCreate, MainResume, SpuriousReturn
    <3>2. CASE MonLock \/ MonBoot \/ MonRecheck \/ MonReady \/ MonGet
      BY <3>2 DEF MonLock, MonBoot, MonRecheck, MonReady, MonGet
    <3>3. CASE MonPark \/ MonRetry \/ MonCheck \/ MonResume \/ MonFinish \/ MonFault
      BY <3>3 DEF MonPark, MonRetry, MonCheck, MonResume, MonFinish, MonFault
    <3>4. CASE MonTake \/ MonReject \/ MonPrepare \/ MonPrepareFails \/ MonAbort
      BY <3>4 DEF MonTake, MonReject, MonPrepare, MonPrepareFails, MonAbort
    <3>5. ASSUME NEW v \in VCPU, VcpuStep(v) \/ \E t \in Task : Enqueue(v, t)
          PROVE  flat_grid_size' = flat_grid_size /\ task' = task
      BY <3>5 DEF VcpuStep, Poke, TryLock, SignalMonitor, Enqueue
    <3>6. ASSUME NEW s \in Signal, ResetSignal(s)
          PROVE  flat_grid_size' = flat_grid_size /\ task' = task
      BY <3>6 DEF ResetSignal
    <3>7. ASSUME NEW c \in CU, CuStep(c)
          PROVE  flat_grid_size' = flat_grid_size /\ task' = task
      BY <3>7 DEF CuStep, CuLock, CuReport, CuWake, CuUnlock, CuUpdate,
         CuFetch, CuFinish
    <3>8. ASSUME NEW c \in CU, CuFault(c)
          PROVE  flat_grid_size' = flat_grid_size /\ task' = task
      BY <3>8 DEF CuFault, CuPageFault, CuFpe, CuSegv
    <3>9. CASE UNCHANGED vars
      BY <3>9 DEF vars
    <3> QED BY <3>1, <3>2, <3>3, <3>4, <3>5, <3>6, <3>7, <3>8, <3>9
            DEF Next, MonitorStep
  <2> QED BY <2>1, <2>2
<1> QED BY <1>1, Invariance, PTL DEF Spec, GridStable
=============================================================================
