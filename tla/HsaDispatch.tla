---------------------------- MODULE HsaDispatch ----------------------------
(***************************************************************************)
(* The dispatch path of the HSA component: virtual CPU threads put kernel  *)
(* dispatches on global_q, one monitor thread takes them in order, and a   *)
(* fixed set of compute-unit (CU) threads executes their work-groups.      *)
(*                                                                         *)
(* Everything that synchronises them is here: the queue with its spin      *)
(* lock, mntr_mutx, the three condition variables wait_mntr, mntr_wait_cu  *)
(* and cu_idle, the counter cu_busy, the work-group counter finish_id, and *)
(* the two longjmp targets a fault goes to.  A thread blocked on a         *)
(* condition variable is a thread whose pc names the wait; a notification  *)
(* moves it to the pc in which it competes for the mutex again.  A block   *)
(* of code that runs with mntr_mutx held and reads nothing other threads   *)
(* write without it is one step.                                           *)
(***************************************************************************)
EXTENDS Integers, Sequences, FiniteSets

CONSTANTS
    VCPU,      \* threads of the emulator that run guest code
    CU,        \* compute-unit threads (global_ctl.num_cus of them)
    Task,      \* hsa_task_t objects: one for each dispatch the guest submits
    NoTask,    \* the null task
    Signal,    \* completion signals in guest memory
    SignalOf,  \* aql.completionSignal of each task
    Grids      \* number of work-groups a dispatch may have (flat_grid_size)

ASSUME ActorsAssumption ==
    /\ IsFiniteSet(CU) /\ CU # {}
    /\ CU \cap VCPU = {}
    /\ {"free", "main", "monitor"} \cap (CU \cup VCPU) = {}

ASSUME TasksAssumption ==
    /\ NoTask \notin Task
    /\ SignalOf \in [Task -> Signal]
    /\ Grids \subseteq Nat

VARIABLES
    main_pc,           \* the thread in hsa_create_mntor
    mon_pc,            \* the monitor, in hsa_mntor_thread_fn
    v_pc,              \* each virtual CPU, in hsa_enqueue
    cu_pc,             \* each compute unit, in hsa_cu_thread_fn
    mntr_mutx,         \* owner of global_ctl.mntr_mutx, or "free"
    mntr_s,            \* global_ctl.mntr_s
    cu_busy,           \* global_ctl.cu_busy
    queue,             \* global_q.q_head
    task,              \* the monitor's local variable task
    heap,              \* tasks allocated and not freed yet
    signal_value,      \* signal_value of each completion signal
    flat_grid_size,    \* global_cc.flat_grid_size
    finish_id,         \* global_cc.finish_id
    global_cpu_state,  \* whose env global_cpu_state points to
    cu_env,            \* whose env each CU has copied into its own
    wg,                \* flat id of the work-group each CU took last
    fpe_blocked,       \* CUs whose signal mask holds SIGFPE
    process,           \* "up" until the process exits
    (* history variables *)
    sent,              \* tasks the guest has submitted
    verdict,           \* what became of each task
    executed,          \* work-groups of this dispatch that ran to the end
    faulted            \* CUs that left this dispatch through longjmp

threads == <<main_pc, mon_pc, v_pc, cu_pc>>
monitorData == <<queue, task, heap, signal_value, global_cpu_state>>
gridData == <<flat_grid_size, finish_id, executed, faulted>>
cuData == <<cu_env, wg, fpe_blocked>>
ghosts == <<sent, verdict>>
vars == <<threads, mntr_mutx, mntr_s, cu_busy, monitorData, gridData, cuData,
          ghosts, process>>

NumCus == Cardinality(CU)

MainPcs == {"create", "wait", "woken", "done"}
MonPcs == {"unborn", "lock", "boot", "wait_cu", "woken_cu", "ready", "get",
           "take", "park", "wait_task", "woken_task", "check", "prepare",
           "resume", "finish", "abort"}
VcpuPcs == {"guest", "poke", "try", "signal"}
CuPcs == {"unborn", "lock", "report", "sleep", "woken", "unlock", "update",
          "fetch", "run"}

\* Monitor pcs in which it holds mntr_mutx.
MonOwns == {"boot", "ready", "get", "take", "park", "check", "prepare",
            "resume", "finish", "abort"}
\* Monitor pcs in which it waits for the CUs, and those before there are any.
MonWaitsCus == {"wait_cu", "woken_cu"}
MonEarly == {"unborn", "lock", "boot"}
\* Monitor pcs between taking a task and freeing it.
MonServes == {"check", "prepare", "resume", "wait_cu", "woken_cu", "finish",
              "abort"}

TypeOK ==
    /\ main_pc \in MainPcs
    /\ mon_pc \in MonPcs
    /\ v_pc \in [VCPU -> VcpuPcs]
    /\ cu_pc \in [CU -> CuPcs]
    /\ mntr_mutx \in {"free", "main", "monitor"} \cup VCPU \cup CU
    /\ mntr_s \in {"NONE", "IDLE"}
    /\ cu_busy \in 0 .. NumCus
    /\ queue \in Seq(Task)
    /\ task \in Task \cup {NoTask}
    /\ heap \subseteq Task
    /\ signal_value \in [Signal -> {0, 1}]
    /\ flat_grid_size \in Nat
    /\ finish_id \in 0 .. flat_grid_size
    /\ global_cpu_state \in Task \cup {NoTask}
    /\ cu_env \in [CU -> Task \cup {NoTask}]
    /\ wg \in [CU -> Int]
    /\ fpe_blocked \subseteq CU
    /\ process \in {"up", "exited"}
    /\ sent \subseteq Task
    /\ verdict \in [Task -> {"none", "completed", "dropped"}]
    /\ executed \subseteq Int
    /\ faulted \subseteq CU

\* All zero-initialised globals, mntr_s = NONE, and the main thread about to
\* call hsa_create_mntor.  The guest prepares its signals with value 0.
Init ==
    /\ main_pc = "create" /\ mon_pc = "unborn"
    /\ v_pc = [v \in VCPU |-> "guest"]
    /\ cu_pc = [c \in CU |-> "unborn"]
    /\ mntr_mutx = "free" /\ mntr_s = "NONE" /\ cu_busy = 0
    /\ queue = <<>> /\ task = NoTask /\ heap = {}
    /\ signal_value = [s \in Signal |-> 0]
    /\ flat_grid_size = 0 /\ finish_id = 0
    /\ global_cpu_state = NoTask
    /\ cu_env = [c \in CU |-> NoTask]
    /\ wg = [c \in CU |-> -1]
    /\ fpe_blocked = {} /\ process = "up"
    /\ sent = {} /\ verdict = [t \in Task |-> "none"]
    /\ executed = {} /\ faulted = {}

----------------------------------------------------------------------------
(* Shared vocabulary.  An operator with a suffix (CusBusy_IfForWhile) is a     *)
(* plausible bug in the definition after it, kept to show which property       *)
(* would notice.                                                               *)

\* HSA_DEBUG_LOG prints and calls exit(): the whole process stops.
Exit ==
    /\ process' = "exited"
    /\ UNCHANGED <<threads, mntr_mutx, mntr_s, cu_busy, monitorData, gridData,
                   cuData, ghosts>>

Notified_WrongCondition == mon_pc
\* pthread_cond_signal(&wait_mntr) by a virtual CPU: lost if the monitor does
\* not wait (the main thread, which uses wait_mntr too, has long returned).
Notified == IF mon_pc = "wait_task" THEN "woken_task" ELSE mon_pc

WakeSleepers_SignalOne ==
    LET one == CHOOSE c \in CU : TRUE
    IN  [c \in CU |-> IF c = one /\ cu_pc[c] = "sleep" THEN "woken" ELSE cu_pc[c]]
\* pthread_cond_broadcast(&cu_idle) of hsa_mntor_resume_cus.
WakeSleepers == [c \in CU |-> IF cu_pc[c] = "sleep" THEN "woken" ELSE cu_pc[c]]

CusBusy_IfForWhile == FALSE
CusBusy_AllButOne == cu_busy > 1
\* The condition of the while loop in hsa_mntor_resume_cus.
CusBusy == cu_busy # 0

LastReport_BeforeDecrement == cu_busy = 0
\* The signal of hsa_cu_resume_mntor, given after cu_busy was decremented.
LastReport == cu_busy - 1 = 0

Drained_OffByOne == finish_id > flat_grid_size
Drained_OneShort == finish_id + 1 >= flat_grid_size
NextGroup_NotCounted == finish_id
\* hsa_get_work: no work-group is left / the counter after taking one.
Drained == finish_id = flat_grid_size
NextGroup == finish_id + 1

\* Does the monitor accept the completion signal it has read?
SignalReady == signal_value[SignalOf[task]] = 0

SharedEnv_OnlyOnce(t) == IF global_cpu_state = NoTask THEN t ELSE global_cpu_state
\* hsa_mntor_update: the env every CU copies when it resumes.
SharedEnv(t) == t

AfterFree_Leak == heap
\* What HSA_ABORT_TASK leaves allocated.
AfterFree == heap \ {task}

\* TAILQ_INSERT_TAIL on global_q, under q_lock.
Inserted_AtHead(t) == <<t>> \o queue
Inserted(t) == Append(queue, t)

----------------------------------------------------------------------------
(* The main thread: hsa_create_mntor *)

MainCreate ==
    /\ main_pc = "create" /\ mntr_mutx = "free"
    /\ main_pc' = "wait" /\ mon_pc' = "lock"   \* mntr_s is not IDLE yet
    /\ UNCHANGED <<v_pc, cu_pc, mntr_mutx, mntr_s, cu_busy, monitorData,
                   gridData, cuData, ghosts, process>>

MainResume ==
    /\ main_pc = "woken" /\ mntr_mutx = "free"
    /\ main_pc' = IF mntr_s = "IDLE" THEN "done" ELSE "wait"
    /\ UNCHANGED <<mon_pc, v_pc, cu_pc, mntr_mutx, mntr_s, cu_busy,
                   monitorData, gridData, cuData, ghosts, process>>

Main == MainCreate \/ MainResume

----------------------------------------------------------------------------
(* A virtual CPU: hsa_enqueue and hsa_main_resume_mntor *)

\* The task is built from private copies and inserted under q_lock.  A fault of the
\* copies (hsa_agent.c:99,105) is the virtual CPU's: hsa_component_fault jumps
\* nowhere for it, and no task is queued or freed because of it.  hsa_enqueue_cmd
\* passes no NULL, so the early return (81-84) is not taken.
Enqueue(v, t) ==
    /\ v_pc[v] = "guest" /\ main_pc = "done" /\ t \notin sent
    /\ sent' = sent \cup {t} /\ heap' = heap \cup {t}
    /\ queue' = Inserted(t)
    /\ v_pc' = [v_pc EXCEPT ![v] = "poke"]
    /\ UNCHANGED <<main_pc, mon_pc, cu_pc, mntr_mutx, mntr_s, cu_busy, task,
                   signal_value, global_cpu_state, gridData, cuData, verdict,
                   process>>

Poke(v) ==
    /\ v_pc[v] = "poke"
    /\ v_pc' = [v_pc EXCEPT ![v] = IF mntr_s = "IDLE" THEN "try" ELSE "guest"]
    /\ UNCHANGED <<main_pc, mon_pc, cu_pc, mntr_mutx, mntr_s, cu_busy,
                   monitorData, gridData, cuData, ghosts, process>>

\* pthread_mutex_trylock: the loop goes on only while it succeeds.
TryLock(v) ==
    /\ v_pc[v] = "try"
    /\ IF mntr_mutx = "free"
       THEN mntr_mutx' = v /\ v_pc' = [v_pc EXCEPT ![v] = "signal"]
       ELSE mntr_mutx' = mntr_mutx /\ v_pc' = [v_pc EXCEPT ![v] = "guest"]
    /\ UNCHANGED <<main_pc, mon_pc, cu_pc, mntr_s, cu_busy, monitorData,
                   gridData, cuData, ghosts, process>>

SignalMonitor(v) ==
    /\ v_pc[v] = "signal"
    /\ mon_pc' = Notified
    /\ mntr_mutx' = "free"
    /\ v_pc' = [v_pc EXCEPT ![v] = "try"]
    /\ UNCHANGED <<main_pc, cu_pc, mntr_s, cu_busy, monitorData, gridData, cuData,
                   ghosts, process>>

\* The guest takes a completion and uses the signal again.
ResetSignal(s) ==
    /\ signal_value[s] = 1
    /\ signal_value' = [signal_value EXCEPT ![s] = 0]
    /\ UNCHANGED <<threads, mntr_mutx, mntr_s, cu_busy, queue, task, heap,
                   global_cpu_state, gridData, cuData, ghosts, process>>

VcpuStep(v) == Poke(v) \/ TryLock(v) \/ SignalMonitor(v)

----------------------------------------------------------------------------
(* The monitor: hsa_mntor_thread_fn and what it calls *)

MonGoto(pc) == mon_pc' = pc /\ UNCHANGED <<main_pc, v_pc, cu_pc>>

MonLock ==
    /\ mon_pc = "lock" /\ mntr_mutx = "free"
    /\ mntr_mutx' = "monitor" /\ MonGoto("boot")
    /\ UNCHANGED <<mntr_s, cu_busy, monitorData, gridData, cuData, ghosts, process>>

\* hsa_mntor_init_all_cu creates the CU threads and waits for all of them.
MonBoot ==
    /\ mon_pc = "boot"
    /\ mon_pc' = "wait_cu" /\ mntr_mutx' = "free"
    /\ cu_pc' = [c \in CU |-> "lock"]
    /\ cu_busy' = NumCus
    /\ UNCHANGED <<main_pc, v_pc, mntr_s, monitorData, gridData, cuData,
                   ghosts, process>>

\* Back from pthread_cond_wait(&mntr_wait_cu): the loop tests cu_busy again.
MonRecheck ==
    /\ mon_pc = "woken_cu" /\ mntr_mutx = "free"
    /\ IF CusBusy THEN mon_pc' = "wait_cu" /\ mntr_mutx' = "free"
       ELSE /\ mon_pc' = IF task = NoTask THEN "ready" ELSE "finish"
            /\ mntr_mutx' = "monitor"
    /\ UNCHANGED <<main_pc, v_pc, cu_pc, mntr_s, cu_busy, monitorData,
                   gridData, cuData, ghosts, process>>

MonReady ==
    /\ mon_pc = "ready"
    /\ mntr_s' = "IDLE"
    /\ main_pc' = IF main_pc = "wait" THEN "woken" ELSE main_pc
    /\ mon_pc' = "get"
    /\ UNCHANGED <<v_pc, cu_pc, mntr_mutx, cu_busy, monitorData, gridData,
                   cuData, ghosts, process>>

\* hsa_get_task reads TAILQ_EMPTY without q_lock.
MonGet ==
    /\ mon_pc = "get"
    /\ MonGoto(IF queue # <<>> THEN "take" ELSE "park")
    /\ UNCHANGED <<mntr_mutx, mntr_s, cu_busy, monitorData, gridData, cuData,
                   ghosts, process>>

MonTake ==
    /\ mon_pc = "take"
    /\ task' = Head(queue) /\ queue' = Tail(queue)
    /\ global_cpu_state' = SharedEnv(Head(queue))
    /\ MonGoto("check")
    /\ UNCHANGED <<mntr_mutx, mntr_s, cu_busy, heap, signal_value, gridData,
                   cuData, ghosts, process>>

MonPark ==
    /\ mon_pc = "park"
    /\ mntr_s' = "IDLE" /\ mntr_mutx' = "free" /\ MonGoto("wait_task")
    /\ UNCHANGED <<cu_busy, monitorData, gridData, cuData, ghosts, process>>

MonRetry ==
    /\ mon_pc = "woken_task" /\ mntr_mutx = "free"
    /\ mntr_mutx' = "monitor" /\ MonGoto("get")
    /\ UNCHANGED <<mntr_s, cu_busy, monitorData, gridData, cuData, ghosts, process>>

\* A return of pthread_cond_wait that nobody signalled (for the CUs see
\* HsaDispatchSpurious).
SpuriousReturn ==
    /\ \/ mon_pc = "wait_cu" /\ MonGoto("woken_cu")
       \/ mon_pc = "wait_task" /\ MonGoto("woken_task")
       \/ main_pc = "wait" /\ main_pc' = "woken" /\ UNCHANGED <<mon_pc, v_pc, cu_pc>>
    /\ UNCHANGED <<mntr_mutx, mntr_s, cu_busy, monitorData, gridData, cuData,
                   ghosts, process>>

\* Reading the completion signal may fault, and a value other than 0 is fatal.
MonCheck ==
    /\ mon_pc = "check"
    /\ \/ /\ SignalReady /\ MonGoto("prepare")
          /\ UNCHANGED <<mntr_mutx, mntr_s, cu_busy, monitorData, gridData,
                         cuData, ghosts, process>>
       \/ ~SignalReady /\ Exit

\* Control reaches HSA_ABORT_TASK past the write of the completion signal.
MonDrop == MonGoto("abort") /\ verdict' = [verdict EXCEPT ![task] = "dropped"]

\* The early returns of hsa_prepare_code_cache, before it writes global_cc.
MonReject ==
    /\ mon_pc = "prepare" /\ MonDrop
    /\ UNCHANGED <<mntr_mutx, mntr_s, cu_busy, monitorData, gridData, cuData,
                   sent, process>>

\* A new dispatch in global_cc: its size, and the counter from zero.
NewGrid(n) == flat_grid_size' = n /\ finish_id' = 0
              /\ executed' = {} /\ faulted' = {}

\* The rest of it: the code is ready, or the BRIG is refused or unreadable.
MonPrepare ==
    /\ mon_pc = "prepare"
    /\ \E n \in Grids : NewGrid(n)
    /\ \/ MonDrop
       \/ MonGoto("resume") /\ UNCHANGED verdict
    /\ UNCHANGED <<mntr_mutx, mntr_s, cu_busy, monitorData, cuData, sent, process>>

\* The converter or the link loader fails: HSA_DEBUG_LOG.
MonPrepareFails == mon_pc = "prepare" /\ Exit

\* hsa_mntor_resume_cus, up to its wait.
MonResume ==
    /\ mon_pc = "resume"
    /\ cu_busy' = NumCus
    /\ cu_pc' = WakeSleepers
    /\ mon_pc' = "wait_cu" /\ mntr_mutx' = "free"
    /\ UNCHANGED <<main_pc, v_pc, mntr_s, monitorData, gridData, cuData,
                   ghosts, process>>

MonFinish ==
    /\ mon_pc = "finish"
    /\ signal_value' = [signal_value EXCEPT ![SignalOf[task]] = 1]
    /\ verdict' = [verdict EXCEPT ![task] = "completed"]
    /\ MonGoto("abort")
    /\ UNCHANGED <<mntr_mutx, mntr_s, cu_busy, queue, task, heap,
                   global_cpu_state, gridData, cuData, sent, process>>

\* hsa_component_fault while the monitor reads or writes guest memory: longjmp
\* to HSA_ABORT_TASK (a fault inside MonPrepare is its "abort" outcome).
MonFault ==
    /\ mon_pc \in {"check", "finish"} /\ MonDrop
    /\ UNCHANGED <<mntr_mutx, mntr_s, cu_busy, monitorData, gridData, cuData,
                   sent, process>>

\* HSA_ABORT_TASK: also the end of a dispatch that completed.
MonAbort ==
    /\ mon_pc = "abort"
    /\ heap' = AfterFree /\ task' = NoTask
    /\ MonGoto("get")
    /\ UNCHANGED <<mntr_mutx, mntr_s, cu_busy, queue, signal_value,
                   global_cpu_state, gridData, cuData, ghosts, process>>

MonitorStep ==
    \/ MonLock \/ MonBoot \/ MonRecheck \/ MonReady \/ MonGet \/ MonTake
    \/ MonPark \/ MonRetry \/ MonCheck \/ MonReject \/ MonPrepare
    \/ MonPrepareFails \/ MonResume \/ MonFinish \/ MonFault \/ MonAbort

----------------------------------------------------------------------------
(* A compute unit: hsa_cu_thread_fn and hsa_cu_resume_mntor *)

CuGoto(c, pc) == cu_pc' = [cu_pc EXCEPT ![c] = pc]
                 /\ UNCHANGED <<main_pc, v_pc>>

CuLock(c) ==
    /\ cu_pc[c] = "lock" /\ mntr_mutx = "free"
    /\ mntr_mutx' = c /\ CuGoto(c, "report")
    /\ UNCHANGED <<mon_pc, mntr_s, cu_busy, monitorData, gridData, cuData,
                   ghosts, process>>

\* The check "invail CU counter", the decrement, the signal and the wait.
CuReport(c) ==
    /\ cu_pc[c] = "report"
    /\ IF cu_busy - 1 < 0 THEN Exit
       ELSE
          /\ cu_busy' = cu_busy - 1
          /\ mon_pc' = IF LastReport /\ mon_pc = "wait_cu" THEN "woken_cu"
                       ELSE mon_pc
          /\ mntr_mutx' = "free" /\ CuGoto(c, "sleep")
          /\ UNCHANGED <<mntr_s, monitorData, gridData, cuData, ghosts, process>>

CuWake(c) ==
    /\ cu_pc[c] = "woken" /\ mntr_mutx = "free"
    /\ mntr_mutx' = c /\ CuGoto(c, "unlock")
    /\ UNCHANGED <<mon_pc, mntr_s, cu_busy, monitorData, gridData, cuData,
                   ghosts, process>>

CuUnlock_Forgotten(c) ==
    /\ cu_pc[c] = "unlock" /\ CuGoto(c, "update")
    /\ UNCHANGED <<mntr_mutx, mon_pc, mntr_s, cu_busy, monitorData, gridData,
                   cuData, ghosts, process>>

CuUnlock(c) ==
    /\ cu_pc[c] = "unlock"
    /\ mntr_mutx' = "free" /\ CuGoto(c, "update")
    /\ UNCHANGED <<mon_pc, mntr_s, cu_busy, monitorData, gridData, cuData,
                   ghosts, process>>

\* hsa_cu_update: memcpy from global_cpu_state, which is fatal when NULL.
CuUpdate(c) ==
    /\ cu_pc[c] = "update"
    /\ IF global_cpu_state = NoTask THEN Exit
       ELSE
          /\ cu_env' = [cu_env EXCEPT ![c] = global_cpu_state]
          /\ CuGoto(c, "fetch")
          /\ UNCHANGED <<mon_pc, mntr_mutx, mntr_s, cu_busy, monitorData,
                         gridData, wg, fpe_blocked, ghosts, process>>

\* hsa_get_work, under ref_mutx.
CuFetch(c) ==
    /\ cu_pc[c] = "fetch"
    /\ IF Drained THEN CuGoto(c, "lock") /\ UNCHANGED <<finish_id, wg>>
       ELSE /\ wg' = [wg EXCEPT ![c] = finish_id]
            /\ finish_id' = NextGroup
            /\ CuGoto(c, "run")
    /\ UNCHANGED <<mon_pc, mntr_mutx, mntr_s, cu_busy, monitorData,
                   flat_grid_size, executed, faulted, cu_env, fpe_blocked,
                   ghosts, process>>

\* Every work-item of the group has run (module WorkGroup).
CuFinish(c) ==
    /\ cu_pc[c] = "run"
    /\ executed' = executed \cup {wg[c]}
    /\ CuGoto(c, "fetch")
    /\ UNCHANGED <<mon_pc, mntr_mutx, mntr_s, cu_busy, monitorData,
                   flat_grid_size, finish_id, faulted, cuData, ghosts, process>>

\* A page fault: hsa_component_fault jumps to GPU_KERNEL_FAULT.
CuPageFault(c) ==
    /\ cu_pc[c] = "run"
    /\ faulted' = faulted \cup {c}
    /\ CuGoto(c, "lock")
    /\ UNCHANGED <<mon_pc, mntr_mutx, mntr_s, cu_busy, monitorData,
                   flat_grid_size, finish_id, executed, cuData, ghosts, process>>

\* SIGFPE: floating_dump jumps there too, out of a signal handler, and setjmp
\* saved no mask.  A second SIGFPE, now blocked, kills the process.
CuFpe(c) ==
    /\ cu_pc[c] = "run"
    /\ \/ c \in fpe_blocked /\ Exit
       \/ /\ c \notin fpe_blocked
          /\ fpe_blocked' = fpe_blocked \cup {c}
          /\ faulted' = faulted \cup {c}
          /\ CuGoto(c, "lock")
          /\ UNCHANGED <<mon_pc, mntr_mutx, mntr_s, cu_busy, monitorData,
                         flat_grid_size, finish_id, executed, cu_env, wg,
                         ghosts, process>>

\* SIGSEGV in the kernel: term_dump exits.
CuSegv(c) == cu_pc[c] = "run" /\ Exit

CuStep(c) ==
    \/ CuLock(c) \/ CuReport(c) \/ CuWake(c) \/ CuUnlock(c) \/ CuUpdate(c)
    \/ CuFetch(c) \/ CuFinish(c)

CuFault(c) == CuPageFault(c) \/ CuFpe(c) \/ CuSegv(c)

----------------------------------------------------------------------------

Next ==
    /\ process = "up"
    /\ \/ Main \/ MonitorStep \/ SpuriousReturn
       \/ \E v \in VCPU : VcpuStep(v) \/ \E t \in Task : Enqueue(v, t)
       \/ \E s \in Signal : ResetSignal(s)
       \/ \E c \in CU : CuStep(c) \/ CuFault(c)

Spec == Init /\ [][Next]_vars

\* Threads keep running, a thread that waits for mntr_mutx gets it in the end
\* however often others take it first, and a kernel does not run for ever.
\* Submitting, faulting and spurious returns are never owed.
Live(A) == process = "up" /\ A
Fairness ==
    /\ WF_vars(Live(Main)) /\ SF_vars(Live(MainResume))
    /\ WF_vars(Live(MonitorStep))
    /\ SF_vars(Live(MonLock \/ MonRecheck \/ MonRetry))
    /\ \A v \in VCPU : WF_vars(Live(VcpuStep(v)))
    /\ \A c \in CU : /\ WF_vars(Live(CuStep(c)))
                     /\ SF_vars(Live(CuLock(c) \/ CuWake(c)))

FairSpec == Spec /\ Fairness

----------------------------------------------------------------------------
(* Properties *)

Serving == mon_pc \in MonServes /\ task # NoTask
Taken == 0 .. finish_id - 1           \* groups handed to a CU so far
Untaken == finish_id .. flat_grid_size - 1
Running == {c \in CU : cu_pc[c] = "run"}
Lost == {wg[c] : c \in faulted}

\* Whenever the monitor runs outside its wait for the CUs, every CU thread is
\* asleep on cu_idle: nobody reads global_cc, karg, the code cache or
\* global_cpu_state while hsa_prepare_code_cache and hsa_mntor_update write
\* them, although no lock of these data is ever taken (hsa_agent.c:258-267).
Quiescent ==
    mon_pc \notin MonWaitsCus \cup MonEarly => \A c \in CU : cu_pc[c] = "sleep"

\* While the monitor waits, cu_busy is the number of CUs that have not reported
\* yet, and it does not sleep on a counter that is 0 already: the last report's
\* signal is never lost (hsa_cu.c:39-48, hsa_agent.c:260-266).
BusyCount ==
    /\ mon_pc \in MonWaitsCus =>
         cu_busy = Cardinality({c \in CU : cu_pc[c] # "sleep"})
    /\ mon_pc = "wait_cu" => cu_busy # 0

\* No work-group is executed twice or by two CUs at once, and none outside the
\* grid of the dispatch in service (hsa_cu.c:126-144).
GroupsOnce ==
    /\ \A c \in Running : wg[c] \in Taken \ (executed \cup Lost)
    /\ \A c, d \in Running : wg[c] = wg[d] => c = d

\* When the monitor is about to write the completion signal, each work-group
\* was executed, or was lost with the CU that faulted in it, or was never taken
\* because every CU had faulted (hsa_agent.c:579-594, hsa_cu.c:185-240).
CompletionHonest ==
    mon_pc = "finish" =>
        /\ Taken \subseteq executed \cup Lost
        /\ Untaken # {} => faulted = CU

\* A CU that executes a work-group does so with the guest state of the task in
\* service, and that task has not been freed (hsa_agent.c:464,598-601,
\* pqemu-dev.c:565-599).
EnvCurrent ==
    \A c \in CU : cu_pc[c] \in {"fetch", "run"} =>
        cu_env[c] = task /\ task \in heap /\ global_cpu_state = task

\* What global_q holds and what the monitor works on are exactly the tasks
\* that are still allocated, each in one place (hsa_agent.c:119-123,458-465).
NoLeakNoDangling ==
    /\ heap = {queue[i] : i \in DOMAIN queue} \cup ({task} \ {NoTask})
    /\ \A i, j \in DOMAIN queue : queue[i] = queue[j] => i = j
    /\ \A i \in DOMAIN queue : queue[i] # task

\* A thread that is not in one of its locked regions does not own mntr_mutx,
\* and one that is does (hsa_agent.c:67-70,528,624-635, hsa_cu.c:35-49).
MutexOwner ==
    /\ mntr_mutx = "monitor" <=> mon_pc \in MonOwns
    /\ \A v \in VCPU : mntr_mutx = v <=> v_pc[v] = "signal"
    /\ \A c \in CU : mntr_mutx = c <=> cu_pc[c] \in {"report", "unlock"}
    /\ mntr_mutx # "main"

\* The size and the arguments of a dispatch never change, and no other dispatch
\* begins, while a CU is anywhere but asleep (hsa_agent.c:347-363).
GridStable ==
    [][flat_grid_size' # flat_grid_size \/ task' # task
         => \A c \in CU : cu_pc[c] = "sleep"]_vars

\* A submitted task is served in the end, unless the process exits or the
\* monitor sleeps on wait_mntr with nobody left who would signal it.
Stalled == mon_pc = "wait_task" /\ \A v \in VCPU : v_pc[v] = "guest"
ServedOrStalled ==
    \A t \in Task : (t \in heap) ~> (t \notin heap \/ process = "exited" \/ Stalled)

\* "wakeup monitor" (hsa_agent.c:125): when every hsa_enqueue has returned, the
\* monitor does not sleep on a queue that holds a task.
EnqueueWakesMonitor == Stalled => queue = <<>>
=============================================================================
