----------------------------- MODULE CuThread ------------------------------
(***************************************************************************)
(* A compute unit's thread as the kernel sees it: the work-group of module *)
(* WorkGroup, whose work-items also print debug messages and use the       *)
(* floating-point flags, and the ways out of a group that are not its end: *)
(* a page fault, SIGFPE and SIGSEGV.  The console changes the debug mask   *)
(* meanwhile.                                                              *)
(***************************************************************************)
EXTENDS WorkGroup, DebugMessages, FpExcept

CONSTANT MaxCalls   \* bound on the helper calls of a work-group

ASSUME ItemsAssumption == WorkItems = Items
ASSUME CallsAssumption == MaxCalls \in Nat

VARIABLES
    sigfpe,     \* "open", or "blocked" in the thread's signal mask
    calls,      \* the calls so far: a kernel comes to its end
    abandoned   \* history: "yes" from a page fault until the next dump

cuVars == <<vars, msgVars, fpVars, sigfpe, calls, abandoned, process>>

CuTypeOK ==
    /\ TypeOK /\ MsgTypeOK /\ FpTypeOK /\ ProcessTypeOK
    /\ sigfpe \in {"open", "blocked"} /\ calls \in 0 .. MaxCalls
    /\ abandoned \in {"no", "yes"}

CuInit ==
    /\ Init /\ MsgInit /\ FpInit
    /\ sigfpe = "open" /\ calls = 0 /\ abandoned = "no" /\ process = "up"

SameMessages == UNCHANGED msgVars
SameCu == UNCHANGED <<sigfpe, process>>

----------------------------------------------------------------------------

\* hsa_get_work has found a group, and all contexts are made.
Begin ==
    /\ BeginGroup /\ group' \in Groups /\ GetContexts
    /\ calls' = 0
    /\ UNCHANGED <<debug, console, check, eq, ccmsg_q, seen, owed, abandoned>> /\ SameCu

\* The CU switches into the next work-item, unless the group is over.
Switch ==
    /\ SwitchIn
    /\ IF Unfinished THEN SwapIn(i) ELSE UNCHANGED fpVars
    /\ UNCHANGED <<calls, abandoned>> /\ SameMessages /\ SameCu

AtBarrier ==
    /\ check = "none" /\ Barrier /\ SwapOut(i)
    /\ UNCHANGED <<calls, abandoned>> /\ SameMessages /\ SameCu

ItemReturns ==
    /\ check = "none" /\ Return /\ LinkBack(i)
    /\ UNCHANGED <<calls, abandoned>> /\ SameMessages /\ SameCu

\* dump_ccmsg at the end of a group, and as part of the signal handlers.
Dumps ==
    /\ dump_ccmsg /\ abandoned' = "no"
    /\ UNCHANGED <<debug, console, group, check, eq, seen, calls>>

End == EndGroup /\ Dumps /\ UNCHANGED fpVars /\ SameCu

\* The kernel calls a helper for messages,
Prints ==
    /\ pc = "item" /\ calls < MaxCalls
    /\ hsa_printf_32(i) \/ hsa_printf_64(i)
    /\ calls' = calls + 1
    /\ UNCHANGED <<vars, fpVars, sigfpe, abandoned>>

Compares ==
    /\ CompareGroup \/ CompareItem(i)
    /\ UNCHANGED <<vars, fpVars, sigfpe, calls, abandoned>>

\* or one for the flags.
Excepts ==
    /\ pc = "item" /\ check = "none" /\ calls < MaxCalls
    /\ \E n \in exceptionsNumbers :
         helper_SetDetectExcept(i, n) \/ helper_ClearDetectExcept(i, n)
    /\ calls' = calls + 1
    /\ UNCHANGED <<vars, abandoned>> /\ SameMessages /\ SameCu

\* hsa_component_fault: nothing is dumped.
PageFault ==
    /\ check = "none" /\ Fault /\ AbandonItem
    /\ abandoned' = "yes"
    /\ UNCHANGED calls /\ SameMessages /\ SameCu

\* floating_dump; the signal stays blocked when longjmp leaves the handler.
FloatingDump ==
    /\ check = "none" /\ sigfpe = "open"
    /\ Fault /\ Dumps /\ AbandonHandler
    /\ sigfpe' = "blocked" /\ process' = process

\* SIGSEGV ends the process, after term_dump has printed the messages of this
\* CU; so does a SIGFPE that is blocked, at once.
Killed ==
    /\ pc = "item" /\ check = "none" /\ process' = "exited"
    /\ \/ Dumps
       \/ sigfpe = "blocked" /\ UNCHANGED <<calls, abandoned>> /\ SameMessages
    /\ UNCHANGED <<vars, fpVars, sigfpe>>

Console ==
    /\ ConsoleStep
    /\ UNCHANGED <<vars, fpVars, sigfpe, calls, abandoned>>

CuStep ==
    /\ process = "up"
    /\ \/ Begin \/ Switch \/ AtBarrier \/ ItemReturns \/ End
       \/ Prints \/ Compares \/ Excepts
       \/ PageFault \/ FloatingDump \/ Killed

CuNext == CuStep \/ (process = "up" /\ Console)

\* The CU thread runs on, and a kernel comes to its next barrier or its end.
CuSpec == CuInit /\ [][CuNext]_cuVars /\ WF_cuVars(CuStep)

----------------------------------------------------------------------------
(* Properties *)

\* A work-group that is begun is ended, abandoned by a fault, or the process
\* exits (hsa_cu.c:213-240).
GroupEnds == (pc = "loop") ~> (pc = "fetch" \/ process = "exited")

\* While the process lives, no message that should be shown is lost or printed
\* twice: those that were sent and are not printed yet are in the CU's queue,
\* whatever the console did to the mask in the middle of a call
\* (hsa_help_info.c:31-60, hsa_cu.c:84-94).
NoMessageLost == process = "up" => owed = Cardinality(DueIn(ccmsg_q))

\* When a CU asks for its next group, all messages of the groups before it are
\* printed, unless a page fault abandoned the last one: its messages wait for
\* the end of another group of the same CU (hsa_cu.c:232-240, hsa_agent.c:192).
PrintedAtEnd == pc = "fetch" /\ abandoned = "no" => ccmsg_q = <<>> /\ owed = 0

\* Every message that should be shown is printed exactly once, with or without
\* a fault in the group that sent it (hsa_help_info.c:12-60, hsa_cu.c:71-99).
MessagesPrintedOnce == NoMessageLost /\ PrintedAtEnd

\* The mask lets a message of an unselected work-item pass only where the two
\* comparisons have opposite signs, or the console changed the mask between them
\* (hsa_help_info.c:36-40).
StraysExplained ==
    [][\A k \in DOMAIN ccmsg_q' \ DOMAIN ccmsg_q :
         check = "tid" /\ Stray(ccmsg_q'[k]) =>
            \/ \E d \in seen : d # debug
            \/ Sign(debug.gid, group) * Sign(debug.tid, i) = -1]_cuVars

\* A work-item reads the flags it has raised itself, whatever the other items
\* of its group did between two of its barriers, and none but what the work-item
\* had raised that a page fault took the CU out of, groups or dispatches ago
\* (hsa_cu.c:22-31,200-225, hsa_fexcept.c:53-67).
FlagsAreOwn == pc = "item" => own[i] \subseteq fpu /\ fpu \subseteq own[i] \cup left

\* The mask hides all messages but those of the selected work-item: "set
\* work-group ID and work-item ID to mask other debug message"
\* (hsa_qemu_cmd.h:17).
MaskHidesOthers == \A k \in DOMAIN ccmsg_q : ~Stray(ccmsg_q[k])
=============================================================================
