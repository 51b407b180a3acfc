----------------------------- MODULE WorkGroup -----------------------------
(***************************************************************************)
(* How one compute unit executes a work-group: every work-item is a        *)
(* ucontext, the CU switches into them in turn (round robin), and a        *)
(* barrier is a switch back to the CU.  The CU counts the work-items that  *)
(* return from the kernel and leaves the loop when the count reaches       *)
(* flat_group_size.                                                        *)
(*                                                                         *)
(* A kernel is what the CU sees of it: how many barriers each work-item    *)
(* executes before it returns.  ctx[w] is where the saved context of w     *)
(* resumes, as the number of barriers it has executed.                     *)
(***************************************************************************)
EXTENDS Integers

CONSTANTS
    flat_group_size,   \* number of work-items in a work-group
    Kernels            \* barrier counts of the work-items, one function each

Items == 0 .. flat_group_size - 1

ASSUME GroupSizeAssumption == flat_group_size \in Nat \ {0}
ASSUME KernelsAssumption == Kernels \subseteq [Items -> Nat]

VARIABLES
    pc,         \* "fetch", "loop" (in hsa_cu_thread_fn) or "item" (in a kernel)
    barriers,   \* the kernel in execution, a member of Kernels
    i,          \* the local variable i: the work-item at the cursor
    finish_id,  \* cu_context.finish_id
    ctx,        \* cu_context.wi_cntxt[].cntxt
    returned    \* history: how often each work-item has returned

vars == <<pc, barriers, i, finish_id, ctx, returned>>

TypeOK ==
    /\ pc \in {"fetch", "loop", "item", "end"}
    /\ barriers \in [Items -> Nat]
    /\ i \in Items
    /\ finish_id \in 0 .. flat_group_size
    /\ ctx \in [Items -> Nat]
    /\ returned \in [Items -> Nat]

Zero == [w \in Items |-> 0]

Init ==
    /\ pc = "fetch" /\ barriers \in Kernels
    /\ i = 0 /\ finish_id = 0 /\ ctx = Zero /\ returned = Zero

\* Where a fresh context made by makecontext(cu_start_kernel) resumes.
FreshContexts == Zero

NextItem_Stays == i
NextItem_WrapsEarly == IF i < flat_group_size - 2 THEN i + 1 ELSE 0
\* The cursor moves to the next work-item, or back to the first.
NextItem == IF i < flat_group_size - 1 THEN i + 1 ELSE 0

Unfinished_OffByOne == finish_id <= flat_group_size
Unfinished_OneShort == finish_id + 1 < flat_group_size
\* The condition of the loop over the work-items.
Unfinished == finish_id < flat_group_size

SavedAtBarrier_NotSaved == ctx
\* The context that swapcontext saves in hsa_helper_barrier.
SavedAtBarrier == [ctx EXCEPT ![i] = @ + 1]

\* hsa_get_work has found a work-group (of this or another dispatch): it
\* resets finish_id, and the CU makes all contexts afresh.
BeginGroup ==
    /\ pc = "fetch"
    /\ barriers' \in Kernels
    /\ finish_id' = 0 /\ i' = 0
    /\ ctx' = FreshContexts /\ returned' = Zero
    /\ pc' = "loop"

SwitchIn ==
    /\ pc = "loop"
    /\ pc' = IF Unfinished THEN "item" ELSE "end"
    /\ UNCHANGED <<barriers, i, finish_id, ctx, returned>>

\* hsa_helper_barrier: save the work-item's context and return to the CU.
Barrier ==
    /\ pc = "item" /\ ctx[i] < barriers[i]
    /\ ctx' = SavedAtBarrier
    /\ i' = NextItem /\ pc' = "loop"
    /\ UNCHANGED <<barriers, finish_id, returned>>

\* The kernel returns to cu_start_kernel, and uc_link leads back to the CU.
\* The saved context is the one of the last barrier, or the fresh one.
Return ==
    /\ pc = "item" /\ ctx[i] >= barriers[i]
    /\ finish_id' = finish_id + 1
    /\ returned' = [returned EXCEPT ![i] = @ + 1]
    /\ i' = NextItem /\ pc' = "loop"
    /\ UNCHANGED <<barriers, ctx>>

\* A page fault or SIGFPE: longjmp leaves the group where it is.
Fault ==
    /\ pc = "item"
    /\ pc' = "fetch"
    /\ UNCHANGED <<barriers, i, finish_id, ctx, returned>>

\* The group is over: hsa_get_work again.
EndGroup ==
    /\ pc = "end" /\ pc' = "fetch"
    /\ UNCHANGED <<barriers, i, finish_id, ctx, returned>>

Next == BeginGroup \/ SwitchIn \/ Barrier \/ Return \/ Fault \/ EndGroup

Spec == Init /\ [][Next]_vars

----------------------------------------------------------------------------
(* Properties *)

\* All work-items of a work-group execute the same number of barriers: what
\* HSAIL asks of a kernel (barrier must not be divergent).
UniformKernels == \A b \in Kernels : \A v, w \in Items : b[v] = b[w]

\* No work-item gets past its k-th barrier before every work-item of the group
\* has reached its own (hsa_cu.c:22-31,213-230).
BarrierSync ==
    pc = "item" => \A w \in Items : ctx[w] >= ctx[i]

\* The CU never switches into a work-item that has returned already: its
\* context is stale and its stack is not its own any more (hsa_cu.c:216-225).
NoReentry == pc = "item" => returned[i] = 0

\* "execute all work-item in a work-group" (hsa_cu.c:212): when the loop ends,
\* every work-item has returned, and just once.
AllExecutedOnce == pc = "end" => \A w \in Items : returned[w] = 1
=============================================================================
