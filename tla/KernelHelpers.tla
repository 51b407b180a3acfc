--------------------------- MODULE KernelHelpers ---------------------------
(***************************************************************************)
(* What the code of a kernel calls: loads, stores and atomic operations on *)
(* guest memory (hsa_mem.c, hsa_atomic_def.h), each of which counts itself *)
(* in the profile of its compute unit; and the way of the counts, from the *)
(* CU that reports to the dispatch, and from there to the totals, which    *)
(* the emulator's console may reset at any time.                           *)
(*                                                                         *)
(* The handshake of the monitor and the CUs is that of HsaDispatch: the    *)
(* monitor runs when all CUs are asleep.  Memory is the global segment;    *)
(* group and private memory belong to one CU.                              *)
(***************************************************************************)
EXTENDS Integers, FiniteSets

CONSTANTS
    CU,           \* compute units
    Address,      \* words of guest memory
    WordMod,      \* 2^MEM_BIT, the range of a word
    Request,      \* atomic operations the kernels call
    Kind,         \* the counters of hsa_profile_t that are followed
    CounterMod,   \* 2^32, the range of a counter
    MaxCalls      \* bound: calls by one CU in one dispatch

Word == 0 .. WordMod - 1
Loops == {"INC", "DEC", "MAX", "MIN"}
Builtins == {"ADD", "SUB", "CAS"}    \* AND, OR and XOR are like ADD
Missing == {"LD", "ST", "EXCH"}    \* their cases are empty
Refused == {"WAIT"}                \* HSA_ATOMIC_WAIT*: the default case
Operation == [op : Loops \cup Builtins \cup Missing \cup Refused,
              addr : Address, src0 : Word, src1 : Word]

ASSUME HelpersAssumption ==
    /\ IsFiniteSet(CU) /\ CU # {}
    /\ WordMod \in Nat \ {0} /\ CounterMod \in Nat \ {0} /\ MaxCalls \in Nat
    /\ Request \subseteq Operation

VARIABLES
    cu_pc,      \* each CU
    calls,      \* calls it may still make in this dispatch
    request,    \* the looping atomic operation it executes
    origin,     \* the value that loop has read
    result,     \* what its last atomic operation returned
    mem,        \* guest memory
    mon_pc,     \* the monitor
    show,       \* global_ctl.show
    cu_prof,    \* cu_context.prof of each CU
    cc_prof,    \* global_cc.prof
    ctl_prof,   \* global_ctl.prof
    sum,        \* the local copy in hsa_update_prof
    resetting,  \* counters hsa_reset_profile has yet to clear
    (* history variables *)
    counted,    \* everything that was ever counted
    wiped       \* what resets have taken away

memory == <<request, origin, result, mem>>
profile == <<cu_prof, counted>>
totals == <<mon_pc, ctl_prof, sum>>
console == <<show, resetting, wiped>>
vars == <<cu_pc, calls, memory, profile, cc_prof, totals, console>>

Profile == [Kind -> 0 .. CounterMod - 1]
Zero == [k \in Kind |-> 0]
NoRequest == [op |-> "none"]

TypeOK ==
    /\ cu_pc \in [CU -> {"asleep", "kernel", "read", "swap", "report"}]
    /\ calls \in [CU -> 0 .. MaxCalls]
    /\ request \in [CU -> Request \cup {NoRequest}]
    /\ origin \in [CU -> Word] /\ result \in [CU -> Word]
    /\ mem \in [Address -> Word]
    /\ mon_pc \in {"idle", "wait", "store"}
    /\ show \in BOOLEAN
    /\ cu_prof \in [CU -> Profile]
    /\ {cc_prof, ctl_prof, sum, counted, wiped} \subseteq Profile
    /\ resetting \subseteq Kind

Init ==
    /\ cu_pc = [c \in CU |-> "asleep"] /\ calls = [c \in CU |-> 0]
    /\ request = [c \in CU |-> NoRequest]
    /\ origin = [c \in CU |-> 0] /\ result = [c \in CU |-> 0]
    /\ mem \in [Address -> Word]
    /\ mon_pc = "idle" /\ show = TRUE
    /\ cu_prof = [c \in CU |-> Zero] /\ cc_prof = Zero /\ ctl_prof = Zero
    /\ sum = Zero /\ resetting = {} /\ counted = Zero /\ wiped = Zero

----------------------------------------------------------------------------
(* Shared vocabulary; X_Suffix is a plausible bug in X. *)

\* hsa_update_prof adds unsigned counters, field by field.
Plus(p, q) == [k \in Kind |-> (p[k] + q[k]) % CounterMod]
Tally(ks) == [k \in Kind |-> IF k \in ks THEN 1 ELSE 0]

\* A helper counts ks in its CU's profile.
Counts(c, ks) ==
    /\ cu_prof' = [cu_prof EXCEPT ![c] = Plus(@, Tally(ks))]
    /\ counted' = Plus(counted, Tally(ks))

Modify_NoWrap(r, x) ==
    CASE r.op = "ADD" -> x + r.src0
      [] r.op = "DEC" -> IF x >= r.src0 THEN 0 ELSE x - 1
      [] OTHER -> x
\* The value an operation stores where it found x.
Modify(r, x) ==
    CASE r.op = "ADD" -> (x + r.src0) % WordMod
      [] r.op = "SUB" -> (x - r.src0) % WordMod
      [] r.op = "CAS" -> IF x = r.src0 THEN r.src1 ELSE x
      [] r.op = "INC" -> IF x >= r.src0 THEN 0 ELSE x + 1
      [] r.op = "DEC" -> IF x >= r.src0 THEN 0 ELSE (x - 1) % WordMod
      [] r.op = "MAX" -> IF x > r.src0 THEN x ELSE r.src0
      [] r.op = "MIN" -> IF x < r.src0 THEN x ELSE r.src0

CuGoto(c, pc) == cu_pc' = [cu_pc EXCEPT ![c] = pc]

----------------------------------------------------------------------------
(* The compute units *)

\* The kernel calls a helper.
Calls(c) ==
    /\ cu_pc[c] = "kernel" /\ calls[c] > 0
    /\ calls' = [calls EXCEPT ![c] = @ - 1]

\* An access to the global segment is counted, and so is its miss of the TLB.
Access(c, k) == Calls(c) /\ (Counts(c, {k}) \/ Counts(c, {k, "tlb"}))

\* Helpers that change no shared memory: barriers, special functions, blocks of
\* instructions, loads, accesses to group memory, atomic ones included.
Count(c) ==
    /\ \/ \E k \in {"ins", "barr", "sfu", "lst", "lld", "atom"} : Calls(c) /\ Counts(c, {k})
       \/ Access(c, "gld")
    /\ UNCHANGED <<cu_pc, memory, cc_prof, totals, console>>

Store(c) ==
    /\ Access(c, "gst")
    /\ \E a \in Address, w \in Word : mem' = [mem EXCEPT ![a] = w]
    /\ UNCHANGED <<cu_pc, request, origin, result, cc_prof, totals, console>>

\* atomic_op_: one instruction, a loop that reads first, or nothing at all.
Atomic(c) ==
    /\ Access(c, "atom")
    /\ \E r \in Request :
         \/ /\ r.op \in Builtins
            /\ mem' = [mem EXCEPT ![r.addr] = Modify(r, @)]
            /\ result' = [result EXCEPT ![c] = mem[r.addr]]
            /\ UNCHANGED <<cu_pc, request>>
         \/ /\ r.op \in Loops
            /\ request' = [request EXCEPT ![c] = r] /\ CuGoto(c, "read")
            /\ UNCHANGED <<result, mem>>
         \/ /\ r.op \in Missing
            /\ result' = [result EXCEPT ![c] = 0]
            /\ UNCHANGED <<cu_pc, request, mem>>
    /\ UNCHANGED <<origin, cc_prof, totals, console>>

Read(c) ==
    /\ cu_pc[c] = "read"
    /\ origin' = [origin EXCEPT ![c] = mem[request[c].addr]]
    /\ CuGoto(c, "swap")
    /\ UNCHANGED <<calls, request, result, mem, profile, cc_prof, totals, console>>

Swapped_Always(c) == TRUE
\* Does the compare-and-swap still find the value that was read?
Swapped(c) == mem[request[c].addr] = origin[c]

Swap(c) ==
    /\ cu_pc[c] = "swap"
    /\ \/ /\ Swapped(c)
          /\ mem' = [mem EXCEPT ![request[c].addr] = Modify(request[c], origin[c])]
          /\ result' = [result EXCEPT ![c] = origin[c]]
          /\ request' = [request EXCEPT ![c] = NoRequest]
          /\ origin' = [origin EXCEPT ![c] = 0]
          /\ CuGoto(c, "kernel")
       \/ ~Swapped(c) /\ CuGoto(c, "read") /\ UNCHANGED memory
    /\ UNCHANGED <<calls, profile, cc_prof, totals, console>>

\* An access whose translation fails after both were counted, or an operation
\* atomic_op_ refuses: the CU leaves its kernel.
Fault(c) ==
    /\ Calls(c)
    /\ \/ \E k \in {"gld", "gst", "atom"} : Counts(c, {k, "tlb"})
       \/ (\E r \in Request : r.op \in Refused) /\ Counts(c, {"atom"})
    /\ CuGoto(c, "report")
    /\ UNCHANGED <<memory, cc_prof, totals, console>>

Finish(c) ==
    /\ cu_pc[c] = "kernel" /\ CuGoto(c, "report")
    /\ UNCHANGED <<calls, memory, profile, cc_prof, totals, console>>

\* hsa_cu_resume_mntor: the counts go to the dispatch, the CU sleeps.
Report(c) ==
    /\ cu_pc[c] = "report" /\ CuGoto(c, "asleep")
    /\ cc_prof' = Plus(cc_prof, cu_prof[c])
    /\ calls' = [calls EXCEPT ![c] = 0]
    /\ UNCHANGED <<memory, profile, totals, console>>

CuStep(c) == Count(c) \/ Store(c) \/ Atomic(c) \/ Read(c) \/ Swap(c)
             \/ Fault(c) \/ Finish(c) \/ Report(c)

----------------------------------------------------------------------------
(* The monitor *)

AllAsleep == \A c \in CU : cu_pc[c] = "asleep"

Woken_NotCleared(c) == cu_prof[c]
\* A CU that wakes clears its profile.
Woken(c) == Zero

Dispatch ==
    /\ mon_pc = "idle" /\ AllAsleep
    /\ mon_pc' = "wait"
    /\ cu_pc' = [c \in CU |-> "kernel"] /\ calls' = [c \in CU |-> MaxCalls]
    /\ cu_prof' = [c \in CU |-> Woken(c)]
    /\ UNCHANGED <<memory, counted, cc_prof, ctl_prof, sum, console>>

\* hsa_profile_print: the counts of the dispatch are added to the totals, in a
\* copy, unless the console has turned the print off.
ProfilePrint ==
    /\ mon_pc = "wait" /\ AllAsleep
    /\ \/ ~show /\ mon_pc' = "idle" /\ sum' = sum
       \/ show /\ mon_pc' = "store" /\ sum' = Plus(ctl_prof, cc_prof)
    /\ UNCHANGED <<cu_pc, calls, memory, profile, cc_prof, ctl_prof, console>>

Printed_NotCleared == cc_prof
\* What the dispatch's counters are after the print.
Printed == Zero

StoreSum ==
    /\ mon_pc = "store"
    /\ ctl_prof' = sum /\ cc_prof' = Printed /\ sum' = Zero
    /\ mon_pc' = "idle"
    /\ UNCHANGED <<cu_pc, calls, memory, profile, console>>

(* The console's thread *)

SetShow ==
    /\ show' = ~show
    /\ UNCHANGED <<cu_pc, calls, memory, profile, cc_prof, totals, resetting, wiped>>

ResetProfile ==
    /\ resetting = {} /\ resetting' = Kind
    /\ UNCHANGED <<cu_pc, calls, memory, profile, cc_prof, totals, show, wiped>>

\* memset clears the counters one after the other, with no lock.  What it takes
\* away while the monitor holds a copy of the old totals comes back with it.
ResetField(k) ==
    /\ k \in resetting /\ resetting' = resetting \ {k}
    /\ ctl_prof' = [ctl_prof EXCEPT ![k] = 0]
    /\ wiped' = IF mon_pc = "store" THEN wiped
                ELSE [wiped EXCEPT ![k] = (@ + ctl_prof[k]) % CounterMod]
    /\ UNCHANGED <<cu_pc, calls, memory, profile, cc_prof, mon_pc, sum, show>>

----------------------------------------------------------------------------

Next ==
    \/ \E c \in CU : CuStep(c)
    \/ Dispatch \/ ProfilePrint \/ StoreSum
    \/ SetShow \/ ResetProfile \/ \E k \in Kind : ResetField(k)

Spec == Init /\ [][Next]_vars

----------------------------------------------------------------------------
(* Properties *)

\* Every atomic operation that exists takes effect at one instant: no update of
\* another CU is lost between the read and the compare-and-swap of a loop, and
\* the value it returns is the one it replaced (hsa_atomic_def.h:37-73).
Service == INSTANCE AtomicMemory WITH
    Client <- CU, Idle <- NoRequest, pending <- request,
    Request <- {r \in Request : r.op \in Loops \cup Builtins}
ImplementsAtomicMemory == Service!Spec

\* The counts of the CUs that have not reported yet, one by one.
Pending(k) == UNION {{c} \X (1 .. cu_prof[c][k]) : c \in {d \in CU : cu_pc[d] # "asleep"}}
Unreported(k) == Cardinality(Pending(k))
Total(k) == IF mon_pc = "store" THEN sum[k] ELSE cc_prof[k] + ctl_prof[k]

\* On the way from the CUs to the totals no count is lost or taken twice,
\* whatever faults, with the print on or off; a reset takes away whole counters
\* or, when it meets the monitor's update, nothing (hsa_cu.c:37,51,
\* hsa_agent.c:202-228, hsa_prof.c:33-55, pqemu-dev.c:545-548).
CountsConserved ==
    \A k \in Kind :
        (Total(k) + Unreported(k) + wiped[k]) % CounterMod = counted[k]
=============================================================================
