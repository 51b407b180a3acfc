----------------------------- MODULE FpExcept ------------------------------
(***************************************************************************)
(* The floating-point exception flags that the DetectExcept helpers set,   *)
(* clear and read.  They are the flags of the processor: a ucontext saves  *)
(* and restores them, setjmp and longjmp leave them alone, and a signal    *)
(* handler starts with none.                                               *)
(***************************************************************************)
EXTENDS Integers

CONSTANTS
    WorkItems,          \* the work-items of a work-group
    exceptionsNumbers   \* the numbers the helpers are called with

VARIABLES
    fpu,        \* the flags of the CU thread's processor
    saved,      \* wi_cntxt[].cntxt: the flags in each work-item's context
    ret_flags,  \* the flags in ret_cntxt
    (* history variables *)
    own,        \* what each work-item has raised in this group, and not cleared
    left        \* what was in the processor when a page fault abandoned a group

fpVars == <<fpu, saved, ret_flags, own, left>>

\* FE_INVALID, FE_DIVBYZERO, FE_OVERFLOW, FE_UNDERFLOW, FE_INEXACT
Flags == 0 .. 4

FpTypeOK ==
    /\ fpu \subseteq Flags /\ ret_flags \subseteq Flags /\ left \subseteq Flags
    /\ saved \in [WorkItems -> SUBSET Flags]
    /\ own \in [WorkItems -> SUBSET Flags]

NoFlags == [w \in WorkItems |-> {}]

FpInit == fpu = {} /\ saved = NoFlags /\ ret_flags = {} /\ own = NoFlags /\ left = {}

\* The helpers answer a number without an exception with a message.
Named_Any(n) == {n}
Named(n) == {n} \cap Flags

\* The helper sets a flag, as a computation of the kernel may.
helper_SetDetectExcept(w, n) ==
    /\ fpu' = fpu \cup Named(n)
    /\ own' = [own EXCEPT ![w] = @ \cup Named(n)]
    /\ UNCHANGED <<saved, ret_flags, left>>

helper_ClearDetectExcept(w, n) ==
    /\ fpu' = fpu \ Named(n)
    /\ own' = [own EXCEPT ![w] = @ \ Named(n)]
    /\ UNCHANGED <<saved, ret_flags, left>>

\* getcontext, once for each work-item.
GetContexts ==
    /\ saved' = [w \in WorkItems |-> fpu] /\ own' = NoFlags
    /\ UNCHANGED <<fpu, ret_flags, left>>

\* swapcontext from the CU to work-item w,
SwapIn(w) ==
    /\ ret_flags' = fpu /\ fpu' = saved[w]
    /\ UNCHANGED <<saved, own, left>>

SwapOut_NotSaved(w) ==
    /\ fpu' = ret_flags
    /\ UNCHANGED <<saved, ret_flags, own, left>>
\* and back to the CU at a barrier.
SwapOut(w) ==
    /\ saved' = [saved EXCEPT ![w] = fpu] /\ fpu' = ret_flags
    /\ UNCHANGED <<ret_flags, own, left>>

\* uc_link: the context of the work-item, which is over, is not saved.
LinkBack(w) ==
    /\ fpu' = ret_flags /\ own' = [own EXCEPT ![w] = {}]
    /\ UNCHANGED <<saved, ret_flags, left>>

\* longjmp out of the middle of a work-item.
AbandonItem == left' = fpu /\ UNCHANGED <<fpu, saved, ret_flags, own>>

\* longjmp out of a signal handler.
AbandonHandler == fpu' = {} /\ left' = {} /\ UNCHANGED <<saved, ret_flags, own>>
=============================================================================
