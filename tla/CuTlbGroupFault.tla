-------------------------- MODULE CuTlbGroupFault --------------------------
(***************************************************************************)
(* The TLBs when kernels also leave their group memory or use an atomic    *)
(* operation the emulator does not implement: hsa_component_fault, written *)
(* for a fault inside a translation, unlocks cutlb_lock there too.         *)
(***************************************************************************)
EXTENDS CuTlb

\* GROUP_MEM_CHECK or the default case of atomic_op_*: the lock is not held.
GroupFault(c) ==
    /\ cu_pc[c] = "kernel"
    /\ Unlock /\ CuGoto(c, "asleep")
    /\ UNCHANGED <<page_table, flush, cu_slot, walk, tlb, snap, accessing,
                   process, history>>

NextGroupFault ==
    \/ Next
    \/ process = "up" /\ \E c \in CU : GroupFault(c)

SpecGroupFault == Init /\ [][NextGroupFault]_vars
=============================================================================
