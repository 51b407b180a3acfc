--------------------------- MODULE DebugMessages ---------------------------
(***************************************************************************)
(* The messages a kernel leaves with hsa_printf_32 and hsa_printf_64.  The *)
(* CU keeps them in a queue of its own and prints them all when it dumps;  *)
(* global_debug, which the console rewrites field by field and without a   *)
(* lock, selects the one work-item whose messages are kept.                *)
(*                                                                         *)
(* A position (hsa_dim3_t) is a number: its place in the order of memcmp.  *)
(* Here positions differ in x only, and by less than 256; the rewriting of *)
(* y and z changes nothing then.                                           *)
(***************************************************************************)
EXTENDS Integers, Sequences, FiniteSets, HsaProcess

CONSTANTS
    Groups,      \* positions of work-groups
    Masks,       \* [gid, tid], the masks the console may set
    MaxMessages  \* bound on the length of the queue

ASSUME MessagesAssumption ==
    Groups \subseteq Nat /\ Masks \subseteq [gid : Nat, tid : Nat] /\ MaxMessages \in Nat

VARIABLES
    debug,       \* global_debug: [enable, gid, tid]
    console,     \* the tid a set_debug_mask has still to write, or NoCommand
    group,       \* cu_context.id
    check,       \* hsa_printf_32: the next memcmp, of "gid" or "tid", or "none"
    eq,          \* the sign of the first memcmp's result
    ccmsg_q,     \* cu_context.ccmsg_q: of each message, what the settings in
                 \* effect during its call said of it
    (* history variables *)
    seen,        \* the values global_debug had during the call
    owed         \* messages to be shown that were sent and not printed

msgVars == <<debug, console, group, check, eq, ccmsg_q, seen, owed>>

NoCommand == -1
Debug == [enable : {"on", "off"}, gid : Nat, tid : Nat]

MsgTypeOK ==
    /\ debug \in Debug /\ console \in Nat \cup {NoCommand} /\ group \in Nat
    /\ check \in {"none", "gid", "tid"} /\ eq \in {-1, 0, 1}
    /\ seen \subseteq Debug /\ owed \in Nat
    /\ ccmsg_q \in Seq(SUBSET {"selected", "off", "masked"})

MsgInit ==
    /\ debug = [enable |-> "off", gid |-> 0, tid |-> 0] /\ console = NoCommand
    /\ group \in Groups /\ check = "none" /\ eq = 0
    /\ ccmsg_q = <<>> /\ seen = {} /\ owed = 0

----------------------------------------------------------------------------
(* Shared vocabulary; X_Suffix is a plausible bug in X. *)

\* What a setting says of a message of work-item t.
Answer(d, t) == IF d.gid = group /\ d.tid = t THEN "selected"
                ELSE IF d.enable = "off" THEN "off" ELSE "masked"
Answers(S, t) == {Answer(d, t) : d \in S}

\* Messages to be shown for certain.  A message is not one of them when, in the
\* middle of its call, the console switches the mask off and then rewrites it:
\* the call has read "on" and may miss a mask that no setting ever was.
Due(m) == m \in {{"selected"}, {"off"}}
\* Messages that no setting in effect during the call would show.
Stray(m) == m = {"masked"}

DueIn(q) == {k \in DOMAIN q : Due(q[k])}

\* memcmp promises the sign of its result only.
Sign(a, b) == IF a < b THEN -1 ELSE IF a > b THEN 1 ELSE 0

\* The call by work-item t ends; S was in effect during it.
Ends(S, t) ==
    /\ check' = "none" /\ eq' = 0 /\ seen' = {}
    /\ owed' = IF Due(Answers(S, t)) THEN owed + 1 ELSE owed

\* insert_ccmsg, or the same in hsa_printf_64; no memory is fatal.
Insert(S, t) ==
    \/ /\ Len(ccmsg_q) < MaxMessages
       /\ ccmsg_q' = Append(ccmsg_q, Answers(S, t)) /\ Ends(S, t)
       /\ process' = process
    \/ HSA_DEBUG_LOG /\ UNCHANGED <<ccmsg_q, check, eq, seen, owed>>
Drop(S, t) == Ends(S, t) /\ UNCHANGED <<ccmsg_q, process>>

\* eq: the sum of two results whose sizes are not known is 0 when both are, and
\* may be 0 when they are of opposite signs.
Filtered(sum, second) == sum # 0 \/ second # 0
Passes_Equal(first, second) == first = second
Passes(first, second) == first + second = 0

----------------------------------------------------------------------------
(* The work-item t of the CU *)

hsa_printf_64(t) ==
    /\ check = "none" /\ Insert({debug}, t)
    /\ UNCHANGED <<debug, console, group>>

\* hsa_printf_32, up to the first memcmp.
hsa_printf_32(t) ==
    /\ check = "none"
    /\ \/ debug.enable = "off" /\ Insert({debug}, t)
       \/ /\ debug.enable = "on" /\ check' = "gid" /\ seen' = {debug}
          /\ UNCHANGED <<eq, ccmsg_q, owed, process>>
    /\ UNCHANGED <<debug, console, group>>

CompareGroup ==
    /\ check = "gid" /\ check' = "tid"
    /\ eq' = Sign(debug.gid, group)
    /\ UNCHANGED <<debug, console, group, ccmsg_q, seen, owed, process>>

\* The second memcmp, and the message is kept or not.
CompareItem(t) ==
    /\ check = "tid"
    /\ LET second == Sign(debug.tid, t)
       IN  \/ Passes(eq, second) /\ Insert(seen, t)
           \/ Filtered(eq, second) /\ Drop(seen, t)
    /\ UNCHANGED <<debug, console, group>>

dump_ccmsg_FreesNext ==
    /\ ccmsg_q' = <<>>
    /\ owed' = owed - (IF 1 \in DueIn(ccmsg_q) THEN 1 ELSE 0)
dump_ccmsg_OneMessage ==
    /\ ccmsg_q' = IF ccmsg_q = <<>> THEN <<>> ELSE Tail(ccmsg_q)
    /\ owed' = owed - (IF 1 \in DueIn(ccmsg_q) THEN 1 ELSE 0)
\* Every message is printed and freed.
dump_ccmsg ==
    /\ ccmsg_q' = <<>>
    /\ owed' = owed - Cardinality(DueIn(ccmsg_q))

----------------------------------------------------------------------------
(* The console of the emulator, another thread *)

Noticed == seen' = IF check = "none" THEN seen ELSE seen \cup {debug'}

hsa_set_debug ==
    /\ console = NoCommand
    /\ \E status \in {"on", "off"} : debug' = [debug EXCEPT !.enable = status]
    /\ Noticed
    /\ UNCHANGED <<console, group, check, eq, ccmsg_q, owed, process>>

\* hsa_set_debug_mask writes the work-group's position first,
SetGroupMask ==
    /\ console = NoCommand
    /\ \E m \in Masks : debug' = [debug EXCEPT !.gid = m.gid] /\ console' = m.tid
    /\ Noticed
    /\ UNCHANGED <<group, check, eq, ccmsg_q, owed, process>>

\* and then the work-item's.
SetItemMask ==
    /\ console # NoCommand /\ console' = NoCommand
    /\ debug' = [debug EXCEPT !.tid = console]
    /\ Noticed
    /\ UNCHANGED <<group, check, eq, ccmsg_q, owed, process>>

ConsoleStep == hsa_set_debug \/ SetGroupMask \/ SetItemMask
=============================================================================
