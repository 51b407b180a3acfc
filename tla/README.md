# A verification of HSAemu's HSA component in TLA+

HSAemu adds an HSA compute device to QEMU. Guest code on a *virtual CPU* prepares a kernel dispatch
packet (AQL) and hands it to the device; a *monitor* thread takes the dispatches in order, converts the
kernel's BRIG code to machine code with the help of a child process, links it, and releases a fixed set
of *compute-unit* (CU) threads, which execute its work-groups and report back; the monitor then writes
the dispatch's completion signal in guest memory. All of it is C with pthreads, `setjmp`/`longjmp`,
`ucontext` and pipes, and very little of what keeps it right is written down as a lock.

This directory holds TLA+ models of the component, the configurations with which TLC checks them, and
proofs that TLAPS checks. Line numbers are those of the files under `src/`.

    tlc -workers 2 -config Dispatch.cfg MCHsaDispatch     # one run
    tlapm HsaDispatchProofs.tla                           # one proof module

`PROJECT.json` lists, for machines, the runs, what each definition models (`map`), the hazards of the
code, the mutants (plausible bugs, each an operator `X_Suffix` next to the definition `X` it replaces)
and the theorems.


## 1. Inventory

### Components, their state and their operations

| component | source | state | operations | status |
|---|---|---|---|---|
| Submission queue | `hsa_agent.c` 65-131 | `global_q`, its spin lock | `hsa_enqueue`, `hsa_main_resume_mntor` | `HsaDispatch` |
| Monitor | `hsa_agent.c` 202-267, 323-475, 523-639 | `global_ctl` (`mntr_mutx`, `mntr_s`, `cu_busy`, three condition variables), `global_cc`, `task` | `hsa_create_mntor`, `hsa_mntor_thread_fn`, `hsa_get_task`, `hsa_prepare_code_cache`, `hsa_mntor_resume_cus`, `hsa_component_fault` | `HsaDispatch` |
| Compute units | `hsa_cu.c` 33-52, 101-144, 153-244 | `cu_context` (per thread), `global_cc.finish_id`, the CU's copy of the CPU state, its signal mask | `hsa_cu_thread_fn`, `hsa_get_work`, `hsa_cu_resume_mntor`, `hsa_cu_update`, the SIGFPE and SIGSEGV handlers | `HsaDispatch` |
| Work-group execution | `hsa_cu.c` 22-31, 101-124, 146-150, 183-240 | one `ucontext` per work-item, `cu_context.finish_id`, the thread's signal mask | the loop over the work-items, `hsa_helper_barrier`, `cu_start_kernel`, the ways out of the loop | `WorkGroup`, `CuThread` |
| Code cache and converter | `hsa_agent.c` 269-453, `pqemu-dev.c` 342-360 | `brigFile`, `prev_hash`, `global_cc.code`/`kentry`/`karg`, two pipes, a file | `hsa_prepare_code_cache`, `fast_hash`, `hsa_copy_from_guest`, `hsa_fork_convert` | `CodeCache`, `KernelLoad` |
| Link loader | `hsa_linkloader.c/.h` | the object's symbols and relocations, the block of common variables (`SHNCommonDataPtr`, `SHNCommonDataFreeSize`) | `cc_producer`, `relocate`, `relocateX86_64`, `allocateSHNCommonData`, `get_symety_addr`, `loaderGetSymAddr` | `LinkLoader`, `KernelLoad` |
| CU TLB | `pqemu-dev.h` 38-65, `pqemu-dev.c` 260-283, 554-630 | `tlb_table` of each CU's CPU state, `global_cpu_state`, `cutlb_lock` | `HSA_GET_PHYADDR2`, `hsa_flush_cu_tlb`, `hsa_cu_update`, `hsa_mntor_update` | `CuTlb`, partly |
| QEMU bridge | `pqemu-dev.c` 190-560, `hsa_qemu_cmd.h` | options, debug mask | `hsa_enqueue_cmd`, `hsa_parse`, the monitor commands | the commands that change state: `DebugMessages`, `KernelHelpers` |
| Profile counters | `hsa_prof.c`, `hsa_cu.c` 37, 51, `hsa_agent.c` 202-228 | `cu_context.prof`, `global_cc.prof`, `global_ctl.prof`, `hsa_cpu_prof` | merge, print, clear, reset | `KernelHelpers`, partly |
| Topology, MMIO device | `topology.c/.h`, `pqemu-dev.c` 14-188 | lists of agents, regions, links; the table | `registe_*`, `agent_link_memory`, `gen_topology`, `hsa_dev_init_sysbus`, `hsa_dev_read`, `hsa_dev_write` | `Topology`, `MachineBoot` |
| Guest memory helpers, atomics | `hsa_mem.c`, `hsa_helper.c`, `hsa_atomic_def.h` | guest memory | loads, stores, atomic operations | `KernelHelpers`, partly |
| Service queue | `hsa_agent.c` 133-178 | `global_service_q` | `hsa_service_enqueue` | no |
| Geometry of a dispatch | `hsa_agent.c` 335-363, `hsa_cu.c` 54-63, 126-144, `hsa_help_info.c` 66-125 | sizes in `global_cc`, `cu_context.id` | `hsa_prepare_code_cache`, `cvt_flat_to_dim3`, the identifier helpers | `Geometry` |
| Debug messages | `hsa_help_info.c` 12-60, `hsa_cu.c` 65-99, `pqemu-dev.c` 511-524 | `ccmsg_q` of each CU, the debug mask `global_debug` | `hsa_printf_*`, `dump_ccmsg`, `hsa_set_debug`, `hsa_set_debug_mask` | `DebugMessages`, `CuThread` |
| Exceptions | `hsa_fexcept.c` | the processor's floating-point flags | `helper_SetDetectExcept`, `helper_ClearDetectExcept`, `helper_GetDetectExcept` | `FpExcept`, `CuThread` |
| Math, device enqueue | `hsa_help_math.c`, `hsa_deviceEnqueue.c` | none but a counter | calls of libm, a stub | the counter: `KernelHelpers` |
| Multi2Sim back-end | `m2s-dev.c` | a pointer | the same interface for a build without QEMU | no |
| Thread-pool prototype | `test/` | pools, blocks, threads | an earlier design, not built | no |

### How they interact

* *Virtual CPU and monitor* share `global_q` (spin lock) and the condition variable `wait_mntr`
  (`mntr_mutx`). The submitter never blocks on the mutex: it signals in a loop that ends with the first
  failing `pthread_mutex_trylock`.
* *Monitor and CUs* share `mntr_mutx`, the counter `cu_busy` and two condition variables: the monitor
  broadcasts `cu_idle` and waits on `mntr_wait_cu`; each CU that finds no more work decrements the
  counter, the last one signals, and all sleep on `cu_idle` again. `global_cc`, the code and
  `global_cpu_state` are written by the monitor and read by the CUs with no lock at all: only this
  handshake keeps them apart.
* *CU and CU* share `finish_id` under `ref_mutx`, and guest memory: atomic operations are compiler builtins or
  compare-and-swap loops.
* *CU, monitor and console* pass profile counters on: a CU adds its own to the dispatch's when it reports, the monitor
  adds those to the totals when it prints them, and QEMU's console clears the totals at any time without a lock.
* *Virtual CPU and CU* share the CUs' TLBs: a guest that changes its page table makes QEMU call
  `hsa_flush_cu_tlb` in the virtual CPU's thread, under the read-write lock `cutlb_lock`. The monitor and the virtual CPUs take
  that lock for reading too, for every page that they copy from or to the guest.
* *Monitor and converter* exchange one request and one reply over two pipes, and a file.
* *Monitor and link loader*: `cc_producer` relocates the object in `global_cc.code` in place, for a new object and again
  for one that was found in the cache.
* *CU and console* share `global_debug` without a lock; the messages themselves are the CU's own until it prints them.
* *Machine and guest*: the topology table is written once at boot, and the guest reads it through a device.
* *A fault* in a guest access (`hsa_component_fault`) or a division by zero (`floating_dump`) leaves the
  kernel, or the monitor's work on a task, through `longjmp`.

### What is hard, and what each component owes

* **Dispatch.** Hard: lost and spurious wakeups, a counter as a barrier, data shared without locks, and a
  fault in any access to guest memory. Owed: submission order, each work-group at most once, an
  answer only when no work is left, the right CPU state for every CU, no task leaked or used after it
  is freed, and progress.
* **Work-group.** Hard: a barrier that is nothing but the order of a round robin, a loop that counts
  returns and does not ask who returned, and `longjmp` out of the middle of it. Owed: no work-item passes a barrier before
  all have reached it, each is executed once, and the loop ends; what work-items keep in the processor stays apart.
* **Debug messages.** Hard: a queue that outlives a group that faulted, and a mask that another thread rewrites field by
  field while it is being read. Owed: every message that should be shown is printed once, and no other.
* **Code cache.** Hard: a cache that trusts a hash stored before the work it stands for is done, with a
  fault or a refusal possible at every page before and after it. Owed: the kernel that runs is the one of the task in
  service, with its own arguments.
* **Link loader.** Hard: two passes that must agree on sizes, in two different orders; unsigned arithmetic
  at the end of a block; addresses of 64 bits computed in 32. Owed: blocks that are disjoint, aligned and inside what was
  sized, a shortage that is reported, and places that hold the address they should wherever they can. (The second is violated at
  the end of the block, the third in 64-bit places above 2^32: section 3.)
* **Topology.** Hard: a layout that one side writes by a running offset and the other reads by amounts and sizes, and two
  bounds with `>` where `>=` was meant. Owed: a guest finds what was registered, and reads nothing outside the device.
* **CU TLB.** Hard: an unlocked copy beside a locked flush, a flush that drops its lock between slots, a
  fault that must release the lock. Owed: no translation survives its invalidation, none is of another
  page, and the lock's count is right.
* **Helpers and counters.** Hard: a read and a compare-and-swap with other CUs between them; counters that are merged and
  cleared in different threads, with a print that may be turned off and a reset that takes no lock. Owed: atomic
  operations are atomic; no count is lost or added twice.
* **Geometry.** Hard: two conversions from flat numbers, a rounding, and the kernel's own view of its range must agree;
  signed and unsigned 32-bit numbers are mixed. Owed: each point of the range is worked on once.

All hazards, with the line where each bites and the properties that watch it, are in `PROJECT.json`.


## 2. The modules

    KernelService   <-- refines --  HsaDispatch  --> HsaDispatchSpurious (spurious wakeups of CUs)
                                        |
          its step "run":          WorkGroup    <-- CuThread --> DebugMessages, FpExcept
          its step "prepare":      CodeCache    <-- KernelLoad --> LinkLoader (the step Link)
          its step "update":       CuTlb  --> CuTlbGroupFault
          what a kernel calls:     KernelHelpers  -- refines -->  AtomicMemory
          which points it gets:    Geometry    <-- MachineBoot --> Topology

`HsaProcess` has the one variable that the loader, the messages and their compositions share: whether the process is up.
`HsaDispatch` is the composition of the actors. The other modules open one of its atomic steps each; the
theorem or invariant that justifies seeing the step as atomic is named below.

### `HsaDispatch.tla`

One `pc` per thread: `main_pc` (`hsa_create_mntor`), `mon_pc` (`hsa_mntor_thread_fn`), `v_pc[v]`
(`hsa_enqueue`), `cu_pc[c]` (`hsa_cu_thread_fn`). A thread blocked on a condition variable stands at
`wait`, `wait_task`, `wait_cu` or `sleep`; a signal or broadcast moves it to `woken...`, where it competes
for the mutex. Code that runs with `mntr_mutx` held and reads nothing that others write without it is one
step; the places where it does are steps of their own: the monitor's test of the queue (`MonGet`), its
removal (`MonTake`) and its going to sleep (`MonPark`) are three, because `hsa_enqueue` inserts without
that mutex. `TryLock` and `SignalMonitor` are the submitter's loop.

| action | code |
|---|---|
| `Enqueue`, `Poke`, `TryLock`, `SignalMonitor` | `hsa_enqueue`, `hsa_main_resume_mntor` |
| `MonLock`, `MonBoot`, `MonReady` | the start of the monitor, which creates the CUs and waits for them |
| `MonGet`, `MonTake`, `MonPark`, `MonRetry` | `hsa_get_task` with `hsa_mntor_update` |
| `MonCheck`, `MonPrepare`, `MonPrepareFails`, `MonReject` | the signal's test and `hsa_prepare_code_cache` |
| `MonResume`, `MonRecheck` | `hsa_mntor_resume_cus` |
| `MonFinish`, `MonFault`, `MonAbort` | the answer, the `longjmp` to the abort label, the release of the task |
| `CuLock`, `CuReport`, `CuWake`, `CuUnlock` | `hsa_cu_resume_mntor` |
| `CuUpdate`, `CuFetch`, `CuFinish` | the CU's loop |
| `CuPageFault`, `CuFpe`, `CuSegv` | the three ways out of a kernel that fails |
| `SpuriousReturn`, `ResetSignal` | outside the repository: the threads library, the guest |

`Enqueue` leaves out the faults of the virtual CPU's own copies (`hsa_agent.c:99,105`): `hsa_component_fault` jumps nowhere for
a thread that is neither a CU nor the monitor, and no queue or task changes. It leaves out the early return at 81-84 as well:
`hsa_enqueue_cmd` passes no `NULL`.

`process = "exited"` is what `HSA_DEBUG_LOG`, a return of the monitor's thread function into nothing
and an unhandled signal lead to. `sent`, `verdict`, `executed` and `faulted` are history variables: no
action reads them except to update them.

`longjmp` makes the monitor's local `task` indeterminate when it is not in memory; the model takes the
value the program means, the current task.

### `KernelService.tla`, `HsaDispatchService.tla`

What the guest is promised, with no thread in it: dispatches are served one at a time, in the order of
submission; the work-groups of the one in service are done by workers, each at most once; an answer
comes only when nothing is left to do, or when every worker has failed; a dispatch in service is
carried on. `HsaDispatchService` maps `HsaDispatch` to it: the queue is the waiting list, `todo` is the grid
minus what was executed or lost, and a dispatch is launched from `resume` on.

### `HsaDispatchSpurious.tla`

Adds to `HsaDispatch` that `pthread_cond_wait` may return by itself at `hsa_cu.c:47`, the one wait of the
component that is not repeated in a loop. Most properties of `HsaDispatch` do not survive that; the
run `spurious_safe` checks what does.

### `WorkGroup.tla`

One CU's loop over the work-items of a group. A kernel is `barriers[w]`: how many barriers
work-item `w` executes. A context is the number of barriers it has passed, as saved by `swapcontext`.

### `DebugMessages.tla`

`ccmsg_q` of one CU and `global_debug`. A call of `hsa_printf_32` is three steps, because the console may write between its
reads of the mask: the test of `enable`, and one `memcmp` each for the work-group and the work-item. `hsa_set_debug_mask`
is two, the work-group's position and the work-item's. `memcmp` promises the sign of its result only, so a sum
of two results of opposite signs may or may not be 0 (`Passes`, `Filtered`). `seen` collects the settings in effect during
a call, and a queued message is what they said of it: a message is due if they all agree that it is to be shown, a
stray if none of them would show it. One outcome lies between: a call that has read `enable` as on, while the console
switches the mask off and then rewrites it, may drop a message that every setting in effect would have shown.

### `FpExcept.tla`

The processor's floating-point flags as the CU's thread and the contexts hold them: a `ucontext` saves and restores them,
`setjmp`/`longjmp` does not, and a signal handler starts with none (external facts, of Linux on x86-64).

### `CuThread.tla`

The three together: a CU's thread from its first work-group on. `Begin`, `Switch`, `AtBarrier`, `ItemReturns` and `End` are the
actions of `WorkGroup` with what they do to contexts and messages; `Prints`, `Compares` and `Excepts` are the kernel's calls;
`PageFault` is `hsa_component_fault`, which prints no message, `FloatingDump` the SIGFPE handler, which leaves SIGFPE blocked, and
`Killed` SIGSEGV or a blocked SIGFPE.

### `CodeCache.tla`

`brigFile.bin`, `prev_hash`, the code in place, its entry, the argument block, the two pipes and the converter, over any
sequence of dispatches. `hsa_copy_from_guest` copies page by page into static buffers, so a fault in the middle (a
`longjmp` out of the function) leaves a mixture of two BRIGs, or of two dispatches' arguments; so does a shorter copy over a
longer one. Two dispatches may name two kernels of one BRIG. `fast_hash` is a function `Hash` on what the buffer may hold;
`HashesApart` says that it tells apart the BRIGs at hand and gives none 0, which a 32-bit hash does not promise: that is the
assumption under which the cache is right. A pipe or file that fails ends the process (`HSA_DEBUG_LOG` does not return,
`HsaProcess.tla`).

| action | code |
|---|---|
| `Prepare`, `CopyPage`, `Copied` | the checks, and the BRIG copied from guest memory |
| `HashCheck` | the object cache |
| `Write`, `Convert`, `Read` | the request, the converter (external), its reply and the file |
| `Link` | `cc_producer`, as one step |
| `CopyArg`, `ArgsCopied`, `Run` | the arguments, and the kernel's execution |

### `LinkLoader.tla`

An object is its symbols and its relocations. `Size` is `relocate`'s pass over the symbols, which adds up sizes and paddings
of the variables without a section; `Allocate` is the `valloc`, whose `NULL` the code does not test for; `RelocateVariable`, `RelocateOther` and `RelocateFails`
are one relocation each, with `get_symety_addr`, `allocateSHNCommonData` and `find_sym`; `LookupFound` and `LookupFails` are
`loaderGetSymAddr` and the release of the block. `Stored` is the arithmetic of the relocation types: symbol, addend and
place are cut to an `int` each (`Signed`) before they are added, and four bytes are stored for every type. A 64-bit place can
hold any address (`Reaches`), and what the processor sees of it is its low half (`Kept`).
`SHNCommonDataFreeSize` is an unsigned number modulo `SizeWidth`. `patched` is a history variable.

### `KernelLoad.tla`

`CodeCache` with the passes of `LinkLoader` in place of its step `Link`, on the object that the converter made of the BRIG.
A cached object is linked again for each dispatch. `ImplementsCodeCache` says that the composition is a `CodeCache`: the
whole of `cc_producer` is one of its steps, or ends the process. Both modules keep their variables apart, so the
refinement mapping is the identity. `FullyLinked` relates the two: what runs is the object of the task's BRIG, with every one
of its relocations done.

### `CuTlb.tla`, `CuTlbGroupFault.tla`

Page tables of the guest, a snapshot of them in each dispatch, a TLB per CU with `addr_read` and `addend`
written one after the other, and the read-write lock as a count of readers and a writer. A translation is
three steps (lookup, walk, fill), the copy at dispatch two per slot, the flush three per slot. The monitor and the virtual CPUs
translate the addresses of their copies in TLBs that no flush and no CU touches, so of those translations only the lock is
modelled: `GlobalAccess` takes it, `GlobalHit` and `GlobalFault` release it, and `accessing` says who is between. A virtual CPU
submits or flushes, not both at once; the monitor copies while the CUs sleep. A page fault of a virtual CPU returns from
`hsa_component_fault` to QEMU's `tlb_fill`, which is not in the repository: it is taken to leave the copy by the guest's own
exception. Would it return, the lookup would be repeated without the lock.
`CuTlbGroupFault` adds the fault of a kernel outside its group memory, which calls the same
`hsa_component_fault` without holding the lock.

### `KernelHelpers.tla`, `AtomicMemory.tla`

The helpers that the converted code calls, at the grain of one access to the global segment. `Atomic` is the whole call
for operations that are one builtin; for INC, DEC, MAX and MIN it enters the loop of `hsa_atomic_def.h`, whose read
(`Read`) and compare-and-swap (`Swap`) are steps of their own. LD, ST and EXCH have empty cases in the code and change
nothing here either. Every helper counts itself first, so that a fault in its translation (`Fault`) leaves the count
behind. `Report` and `Woken` are the two ends of `hsa_cu_resume_mntor`, `ProfilePrint` and `StoreSum` the read and the
write of `hsa_update_prof` in the monitor, `ResetField` one counter of the console's `memset`. `counted` and `wiped` are
history variables. `AtomicMemory` is what a kernel may rely on: an operation takes effect at one
instant between call and return. The word's value is the kernel's whole view, so the refinement maps `mem` and `result`
to themselves and the operation in a loop to `pending`.

### `Geometry.tla`

A dispatch packet's sizes, `global_cc`'s, and every group and work-item in turn, with the arithmetic of the code: unsigned
rounding, products that wrap, `int` division towards zero, and the quotient that x86 does not have (`GetWorkTraps`).
`executed` collects the points that `helper_WorkItemAId` names.

### `Topology.tla`, `MachineBoot.tla`

The calls of a machine's `gen_hsa_topology`, in turn; the table they lay out, byte by byte, where byte `j` of an entry is a
value that names the entry and `j`; and the guest's reads. `MachineBoot` is a machine's life: it boots, the guest
walks the table, and dispatches a range of `Geometry`. The device is read-only, so its reads are taken before the dispatch.


## 3. The runs

| run | asks | instance |
|---|---|---|
| `dispatch` | safety of the dispatch path, with faults in every access of the monitor and the CUs, and that it implements `KernelService` | 2 virtual CPUs, 2 CUs, 2 dispatches of 1 or 3 groups |
| `dispatch_live` | the dispatch in service keeps being served; submitted tasks are served, unless the wakeup was lost | 2 virtual CPUs, 2 CUs, 2 dispatches of 1 group |
| `spurious_safe` | the mutex and the bookkeeping of tasks survive spurious wakeups | 1 virtual CPU, 2 CUs, 1 dispatch |
| `cu_thread` | the round robin is a barrier, executes all, and ends; messages are printed once; flags stay apart | 3 work-items, up to 1 barrier, 2 helper calls in a group, 2 positions, any number of groups, mask changes and faults |
| `cu_tlb` | flushes against translations, faults and copies; the lock's count | 2 CUs, 1 virtual CPU, the monitor, 2 pages in one slot, 2 frames |
| `kernel_load` | what runs is the task's own kernel, fully linked; the loader's memory and its addresses; the loader implements its one step | 3 dispatches, again and again, of 2 BRIGs of 1 and 2 pages, objects of every shape with 3 variables and 3 relocations |
| `kernel_helpers` | atomic operations are atomic, counts are conserved | 2 CUs, one word of 2 bits (`WordMod` = 4), one call per CU and dispatch |
| `machine_boot` | the guest finds what was registered; every point of the range is worked on once, unless numbers overflow | 3 machines; sides 0 to 15, groups up to 6, 4-bit numbers (`IntWidth` = 16) |
| `lost_wakeup` | *violated*: `hsa_enqueue` wakes the monitor | 1 virtual CPU, 1 CU, 2 dispatches |
| `tlb_group_fault` | *violated*: the count of `cutlb_lock` with faults outside a translation | 1 CU |
| `link_overrun` | *violated*: a shortage of the common block is reported | 1 variable, 3 relocations |
| `debug_mask` | *violated*: the mask hides all messages but the selected work-item's | as `cu_thread` |

What the newer passing runs show, by property:

* `cu_thread`. `BarrierSync`, `NoReentry`, `AllExecutedOnce` and `GroupEnds` hold of the loop although work-items call helpers, fault and
  are abandoned. `MessagesPrintedOnce`: a message that should be shown waits in the CU's queue until it is printed, once (`NoMessageLost`), and
  only those of a group that a page fault abandoned wait longer than their group (`PrintedAtEnd`). `FlagsAreOwn`: no work-item sees
  the flags of another, but all may see what a page fault left in the processor. `StraysExplained`: see `debug_mask`.
* `kernel_load`. `CodeIsCurrent`: `prev_hash` is the hash of the code whenever no conversion is under way (`CacheIsHonest`), so what runs is
  the kernel of the dispatch in service, with its arguments. `FullyLinked` and `ImplementsCodeCache`: see `KernelLoad.tla`. `BlocksSound`: blocks of
  variables are disjoint and aligned. `PassesAgree`: if every variable is named once, the memory that the first pass sized suffices for
  the second, in any order, and is never reported short; it supposes that a `size_t` can count the sum of the sizes (`RoomFits`),
  because the code adds them up without a test. `RelocationResolves`: a place of 32 bits gets the address it should wherever it can hold it, on
  both sides of 2^31; a place of 64 bits can hold any address and shows the low half of it, so it is right below 2^32 and wrong above.
* `machine_boot`. `TableIsWalkable`: by the header's amounts and sizes the guest finds the registered entries. `ReadsStayInside`: no read leaves
  the device's memory; the two tests of a read alone would let one byte pass, the assertion at boot keeps it inside.

### Bounds, and why they are enough

* Two virtual CPUs are needed for one to hold `mntr_mutx` while the other tries; two CUs for a first and a last
  report, and for a faulting and a surviving CU; three groups on two CUs let one CU come back for
  more; two dispatches give a second one its whole path after a fault in the first. Two tasks
  share the signals so that one run has both a dirty and a clean one.
  The theorems of section 5 lift the safety part to any number of threads, tasks and groups.
* `cu_thread`: of three work-items one is first, one last and one neither, and with a group of three an off-by-one of the
  cursor shows; one barrier has a round before and one after it, and the theorems of section 5 are for any
  number of either. Two calls let two work-items meet in the flags, and fill a queue with two messages; a
  mask at position 1 of 0 to 2 has work-items on both sides, and groups 0 and 1 one side and its middle, so that signs cancel.
  Exception number 5 is the first that names no flag. Groups follow each other without end, so that messages and flags are
  carried over faults.
* `cu_tlb` has one slot for two pages, so that every fill evicts; two CUs, so that the flush has a
  between; a second frame, so that a translation can be outdated. The readers' count is modulo
  `ReaderWidth` = 16, more than there are threads.
* `kernel_load`: three dispatches, in any order and repeatedly, of which two name two kernels of one BRIG, give all the
  histories that a cache of one entry can tell apart (the same, the same BRIG, another). One BRIG is longer than the
  other, and arguments take 0, 1 or 2 pages, so that every mixture of old and new pages occurs.
  The objects have every order of symbols and relocations; an alignment of 8 with sizes 1 and 4
  makes every padding from 0 to 7 bytes occur. An `int` has 8 bits: `valloc` answers below and above its largest value, and
  addresses of functions are below it, above it and above 2^8; `valloc` may answer `NULL`. `SizeWidth` = 1024 is larger than any sum of these sizes, so that a
  wrap is never an artefact.
* `kernel_helpers`: one looping and one other call at a time is what a lost update takes; dispatches follow each other
  without end, so counts pass through every merge and reset again and again. A word of 2 bits makes INC and DEC
  wrap. Counters are modulo 3, so that none, one and two of the same count differ; one counter is followed (`atom`), because
  counters never meet.
* `machine_boot`: 4-bit numbers make sides of 8 and 15 the ones at and above the largest `int`; groups up to 6 have every shape
  with sides up to 3, and packets with a side of 0, of the group or of the range, are among them (the code refuses them); 15 and 4 are no multiples of their groups. Entries of 1 and 2 bytes and a device of 20 bytes are what
  the layout and its bounds tell apart: a table of 15 bytes (the repository's), one of 19, the largest that the assertion
  lets pass, and one of 20.

`CHECK_DEADLOCK FALSE` is in the configurations (not in `KernelHelpers.cfg`) because these systems may stop: the process exits on an error, the
guest has submitted all it will, the monitor sleeps on a lost wakeup, a range is done, a machine's table does not fit, an object is linked, and a
flush never gets a lock whose count went wrong.

### Fairness

`FairSpec` of `HsaDispatch`: every thread that can take a step takes one (weak fairness: the
operating system schedules all threads); a thread that waits for `mntr_mutx` gets it in the end although
others take it in between (strong fairness on the steps that lock it: a mutex of the pthreads library is not
fair by its contract, but no thread of this program holds it for ever, and the submitter's loop, which
could retake it at once, is the one place that depends on it); a kernel terminates. Nothing obliges the
guest to submit or reset a signal, a kernel to fault, or a condition variable to return spuriously.

`CuSpec` of `CuThread`: weak fairness of the CU's thread as a whole, and nothing of the console. That a kernel comes to its
next barrier or its end is not an assumption on the scheduler but a bound of the model: a kernel has `barriers[w]` barriers and
a group makes at most `MaxCalls` calls.

### What the violated runs show

* `lost_wakeup`. The monitor sees an empty queue (`hsa_agent.c:458`); the submitter inserts and fails its
  `trylock`, because the monitor holds the mutex; the monitor sleeps. The task stays on the queue until
  another submission. `ServedOrStalled` says that this is the only way in which a task is not served.
* `tlb_group_fault`. `hsa_component_fault` always unlocks `cutlb_lock`. In a translation that is right; from
  `GROUP_MEM_CHECK` it is an unlock too many.
* `link_overrun`. Memory is sized once per symbol and taken once per relocation; when it runs out, the padding is
  subtracted from an unsigned count before the count is tested, and the shortage passes for plenty.
* `debug_mask`. `hsa_printf_64` does not ask the mask; `hsa_printf_32` adds two results of `memcmp`, and one below and one
  above the mask may add up to 0. `StraysExplained` says that, with a mask rewritten in the middle of a call, these are the only ways for
  `hsa_printf_32`.


## 4. Abstractions

* Data. Kernels, BRIG modules, frames and tasks are model values. In `HsaDispatch` a dispatch's packet is its number of
  groups and its signal; sizes by dimension are in `Geometry`.
* Messages. A position is a number, its place in the order of `memcmp`; positions differ in `x` only, by less than 256. The
  trace that `insert_ccmsg` writes to stderr at once is left out, and so is a failure of `getcontext` or `swapcontext`.
* Objects. The ELF tables, and how sections are found in them by name, are abstracted to lists of symbols and relocations, and the
  comparison of header fields to a check that may fail.
* Uniform kernels. `WorkGroup` takes kernels in which all work-items execute the same number of barriers
  (`UniformKernels`), as HSAIL demands. The loop at `hsa_cu.c:213-230` does not notice others: it would enter a work-item
  again that has returned, and count its second return as another's.
* Assumptions on packets. A group has at most `MAX_WORKGROUP_SIZE` work-items; nothing in the code tests it. A range
  of a size that is not a multiple of the group's is rounded up, and the kernel runs on the points beyond it, which
  `helper_WorkNDRangesize` counts in.
* Atomic steps. The monitor's preparation of the code cache is one step of `HsaDispatch`, because `Quiescent`
  shows that no CU runs then. A work-group is one step, because its state is the CU's own (`cu_context` is
  thread-local) but for the memory of the kernel. The spin-locked sections are one step each.
* Memory order. Accesses outside of a lock are taken in program order. The unlocked test of the queue and the
  copy of the CPU state are the two that matter: both are split into the steps in which they could be seen.
* The values of guest memory are in `KernelHelpers` only (and the signals' in `HsaDispatch`).


## 5. Proofs

`HsaDispatchProofs` proves, for every set of virtual CPUs and CUs (the CUs finite and not empty), every set of tasks,
signals and grids, that all invariants of the run `dispatch` hold, and `GridStable` with them:
`TypeCorrect`, `MonitorIsAlone`, `CounterIsExact`, `OneOwner`, `GroupsRunOnce`, `CompletionIsHonest`, `EnvIsCurrent`,
`TasksAccounted`, `GridIsStable`. The assumptions are `ActorsAssumption` and `TasksAssumption` of `HsaDispatch`.

The properties are not inductive. The inductive invariant is

    IInv == Types /\ MutexOwner /\ Phase /\ Busy /\ Work /\ Env /\ Alloc

`Types` leaves out the two bounds (`cu_busy >= 0`, `finish_id <= flat_grid_size`) that need the rest. `Phase`
ties the monitor's place to the existence of CUs and to whether it has a task. `Busy` is the heart: while
the monitor waits, `cu_busy` is the number of CUs that are not asleep, so that it reaches 0 exactly when all are, and
outside the wait all sleep. From it follow `Quiescent`, and that the data the monitor writes is stable.
`Work` splits the groups taken so far into those executed and those held, one each, by CUs that run or have faulted,
and says that a CU that left without a fault found nothing left: hence no group twice, and an honest
completion. `Env` and `Alloc` follow the CPU state and the tasks through queue, service and release. Each action
preserves each conjunct in a step of its own; facts on cardinalities are lemmas.

`SpuriousWakeupIsSurvived` is about the specification in which CUs may wake by themselves. There `Busy` is lost and with it most of
the rest; the parts of `IInv` that say nothing of the CUs, `Types /\ MutexOwner /\ MonPhase /\ Alloc`, are an inductive
invariant by themselves.

`HsaDispatchServiceProofs` proves `DispatchImplementsService`, `Spec => ImplementsService`: initial states map to initial states, and
each step of a thread is one of `KernelService`'s actions or leaves what it sees alone. Beside `IInv` it takes `Answered`,
which says when a task has its verdict, an invariant of its own.

The other modules, each with the assumptions that its component states about its constants:

| module | for every | proved | inductive invariant |
|---|---|---|---|
| `CuThreadProofs` | group size, uniform kernels, mask, bound on calls | of `WorkGroup`: the barrier, no re-entry, all executed; `CuThreadIsWorkGroup`, so the same of `CuThread`; `CuTypesHold`, `MessagesPrintedOnceHolds`, `FlagsAreOwnHolds`, `StraysAreExplained` | in round `r` the work-items before the cursor have passed `r + 1` barriers and those from it on `r`; `owed` is the number of messages in the queue that are due; a work-item's flags are in the processor or in its context, and hold no more than it raised and a page fault left |
| `CuTlbProofs` | virtual CPUs, CUs (with the monitor fewer than the lock can count), pages, slots, frames | `LockIsCountedHolds`, `FlushIsCompleteHolds`, `TranslationIsGenuineHolds` and the types | what is stale in a TLB, or was walked and is about to be filled in, is at a slot that some flush has still to come to (`Flushing`); the two words of an entry belong together but where a flush met a copy (`Paired`) |
| `LinkLoaderProofs` | object, width of `int` and `size_t` | `BlocksSoundHolds`, `PassesAgreeHolds`, `RelocationResolvesHolds` and the types | blocks end below the bump pointer, one above the other (`Bump`); while the first pass counts, its sum is the room set aside for the symbols before the cursor, and in the second the variables placed took no more than the room set aside for them (`Sizing`) |
| `KernelLoadProofs` | BRIGs, dispatches, hash function, conversions | `CodeIsCurrentHolds` of `CodeCache`; of `KernelLoad` that it implements `CodeCache`, all that holds of either, and `FullyLinkedHolds` | what the buffers hold so far (`Copies`), what the pipes hold (`Pipes`), which BRIG's hash `prev_hash` is (`Hashes`); the object is the one made of the code in the cache (`Together`) |
| `KernelHelpersProofs` | CUs, addresses, widths of words and counters | `HelpersImplementAtomicMemory`, `CountsAreConserved` and the types | a loop remembers its request (`InLoop`); the monitor touches the counts of a dispatch while all CUs sleep (`Handshake`) |
| `MachineBootProofs` | machines, sizes of entries and of the device, packets, width of `int` | `TheTableIsWalkable`, `TheReadsStayInside`, `NoDivisionByZero`, `TheRangeIsExecuted` and the types | the device shows the table of what was registered (`Table`); where the sizes fit, the points worked on are the first ones of the range in the order of groups, then work-items (`Covered`) |

Some of the arguments are worth a sentence:

* `FlushIsComplete`. The flush drops its lock between slots, so a stale entry may come and go behind and before it. The invariant that
  survives is that every stale entry, and every stale walk, has a flush ahead of it. A CU whose copy came from an outdated
  snapshot (`suspect`) is exempt, as in the property.
* `PassesAgree`. Sums over a set of variables are cardinalities of disjoint unions (`Room`), so that the order in which the two
  passes meet the variables does not matter and no recursion is needed; the step that counts is that the padding of a block is less
  than its alignment, which the first pass set aside for it. The theorem is how `RoomFits` came into the property:
  without it the formula is false, by a sum that wraps.
* `RangeIsExecuted`. That `cvt_flat_to_dim3` numbers the points of a range once each is shown with the order of the points
  (`Ord`): each is the sum of its coordinates by mixed radix, and division takes it apart again.
* `CountsConserved`. What is pending is counted in units, one element of a set for each, so that merging two counters is a
  disjoint union.

`ReadersAssumption` says that the lock can count the CUs, the virtual CPUs and the monitor, of which it holds one reader each.
`LockIsCountedHolds` adds up two sets, the CUs inside a translation and `accessing`; `ReaderComes` and `ReaderLeaves` are the two
ways in which the sum changes. `RelocationResolvesHolds`, and with it `LoadedIsLinkedRight`, says of 64-bit places that they show
the low half of their address, not that they show the address. `UniformKernels`
is section 4's; it is an assumption of the theorems on the barrier, not of a module.

Only model-checked: the liveness properties `ServedOrStalled` and `GroupEnds`, and `ImplementsFairService`, which need fairness
and `ENABLED`, out of the prover's reach. Every invariant of a passing run is stated by a theorem. What a recursive definition
computes for all inputs needs induction over data, also out of reach; the modules with theorems use none. The violated runs are
counterexamples, not theorems.


## 6. Plan

The model is complete in the sense of the table of section 1, and every safety property that a run checks is proved. What may
follow:

1. What composes the modules: that the step of `HsaDispatch` which executes a work-group is one that `CuThread` ends in a finite
   number of steps or leaves by a fault, as a theorem on the ways out of `CuThread`.
2. The safety half of progress: from the invariants of `HsaDispatch`, that a monitor that sleeps on a lost wakeup is the only state in which the
   dispatch path stops with a task on the queue. The runs show it for two CUs (`ServedOrStalled`).
3. Shorter proofs: lemmas on division shared by `LinkLoaderProofs` and `MachineBootProofs`.


## 7. Not modelled

* *Multi2Sim back-end* (`m2s-dev.c`), and the forwarding of commands to it in `pqemu-dev.c`: calls of a simulator whose sources are
  not in the repository.
* *Service queue*. Nothing in the repository initialises the list or the spin lock of `global_service_q`, and nothing reads it.
* *Thread-pool prototype* (`test/`): not part of the emulator, and not compilable at this commit.
* *Options* (`hsa_parse`): sets the number of CUs before any thread starts; it is the size of the constant `CU`.
* *Simulated cache* (`hsa_cache_def.h`) and the counters `cache` and `cache_miss`: who counts into `hsa_cpu_prof` on the side of the virtual
  CPUs is not in the repository.
* *Arithmetic of the math helpers*: libm's.
* *What the guest stores in a signal* beside its value while a dispatch is in service. `hsa_signal.h` declares the other fields
  (`signal_id`, `consumers`, `sig_mutx`); `hsa_agent.c:573` reads them all and 593 writes them all back. Who stores in them, and
  when, is the guest's runtime, which is not in the repository.
* *Hazards that no property would catch*: a second report or an early start of a CU that wakes by itself, a SIGFPE in a CU whose mask
  still blocks it, a variable that gets two addresses because two relocations name it. The first two occur in the model and the
  third in `LinkLoader`; what the properties say holds in spite of them.
* *The block of common variables after linking*: it is freed when `cc_producer` returns, and the kernel goes on using it; what it finds
  there is up to `malloc`, and nothing in the repository says what it should.
* *Kernels that are not uniform*, groups larger than `MAX_WORKGROUP_SIZE` and hashes that collide: excluded by the assumptions named
  in section 4 and in `CodeCache`.
