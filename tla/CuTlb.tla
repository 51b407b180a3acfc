------------------------------- MODULE CuTlb -------------------------------
(***************************************************************************)
(* The software TLBs of the compute units.  Each CU owns a copy of a CPU   *)
(* state (cu_thread[c].env), whose tlb_table it reads to translate a guest *)
(* address (HSA_GET_PHYADDR2) and fills when it misses; a new dispatch     *)
(* overwrites the copy with the one taken when the task was enqueued; and  *)
(* a virtual CPU whose guest changed a mapping invalidates all of them,    *)
(* slot after slot (hsa_flush_cu_tlb).  cutlb_lock, a read-write lock,     *)
(* keeps the flush out of a translation; the copy takes no lock.           *)
(*                                                                         *)
(* The monitor and the virtual CPUs take the lock as well, for each page   *)
(* that hsa_copy_from_guest or hsa_copy_to_guest translates.  No flush and *)
(* no CU touches the TLBs they read, so of those only the lock is modelled.*)
(***************************************************************************)
EXTENDS Integers, FiniteSets

CONSTANTS
    VCPU,        \* virtual CPUs
    NumCus,      \* global_ctl.num_cus
    Page,        \* guest virtual pages, natural numbers
    TlbSize,     \* CPU_TLB_SIZE
    Frame,       \* host addresses of guest pages (the addend of an entry)
    NoFrame,     \* not mapped
    ReaderWidth  \* 2^w for the width w of the lock's count of readers

CU == 0 .. NumCus - 1
Slots == 0 .. TlbSize - 1
Invalid == -1

\* The threads that call hsa_get_phy_addr_global.
Accessor == VCPU \cup {"monitor"}

ASSUME TlbAssumption ==
    /\ NumCus \in Nat \ {0} /\ TlbSize \in Nat \ {0}
    /\ ReaderWidth \in Nat /\ NumCus < ReaderWidth
    /\ Page \subseteq Nat
    /\ NoFrame \notin Frame /\ Invalid \notin Frame
    /\ VCPU \cap CU = {} /\ "none" \notin VCPU

\* The lock can count all threads: num_cus is an int, the virtual CPUs are few.
ASSUME ReadersAssumption ==
    /\ "monitor" \notin VCPU
    /\ IsFiniteSet(VCPU) /\ NumCus + Cardinality(VCPU) + 1 < ReaderWidth

VARIABLES
    page_table,   \* the guest's current mapping
    v_pc,         \* each virtual CPU, in hsa_flush_cu_tlb
    v_at,         \* the CU and the slot it has come to
    cu_pc,        \* each CU
    cu_slot,      \* the slot its memcpy has come to
    cu_page,      \* the page it translates, Invalid between translations
    cu_walked,    \* the frame tlb_fill has found, NoFrame before
    tlb,          \* cu_thread[c].env->tlb_table[MMU_USER_IDX]
    snap,         \* the tlb_table of global_cpu_state
    accessing,    \* the threads inside hsa_get_phy_addr_global
    readers,      \* cutlb_lock: its count of readers, an unsigned number,
    writer,       \* and the thread that holds it for writing
    process,      \* "up" until the process exits
    (* history variables *)
    mapped,       \* every mapping the guest has had
    suspect,      \* CUs that copied an entry already outdated, since the
                  \* last change of a mapping
    overlapped    \* CUs whose last memcpy ran together with a flush

lock == <<readers, writer>>
flush == <<v_pc, v_at>>
walk == <<cu_page, cu_walked>>
history == <<mapped, suspect, overlapped>>
vars == <<page_table, flush, cu_pc, cu_slot, walk, tlb, snap, accessing, lock,
          process, history>>

Entry == [addr_read : Page \cup {Invalid}, addend : Frame \cup {Invalid}]
Empty == [addr_read |-> Invalid, addend |-> Invalid]

CopyPcs == {"copy_tag", "copy_addend"}
LookupPcs == {"lookup", "fill"}

TypeOK ==
    /\ page_table \in [Page -> Frame \cup {NoFrame}]
    /\ v_pc \in [VCPU -> {"guest", "lock", "tag", "addend"}]
    /\ v_at \in [VCPU -> CU \X Slots]
    /\ cu_pc \in [CU -> {"asleep", "kernel"} \cup CopyPcs \cup LookupPcs]
    /\ cu_slot \in [CU -> Slots]
    /\ cu_page \in [CU -> Page \cup {Invalid}]
    /\ cu_walked \in [CU -> Frame \cup {NoFrame}]
    /\ tlb \in [CU -> [Slots -> Entry]]
    /\ snap \in [Slots -> Entry]
    /\ accessing \subseteq Accessor
    /\ readers \in 0 .. ReaderWidth - 1
    /\ writer \in VCPU \cup {"none"}
    /\ process \in {"up", "exited"}
    /\ mapped \subseteq Page \X Frame
    /\ suspect \subseteq CU
    /\ overlapped \subseteq CU

Init ==
    /\ page_table \in [Page -> Frame \cup {NoFrame}]
    /\ v_pc = [v \in VCPU |-> "guest"] /\ v_at = [v \in VCPU |-> <<0, 0>>]
    /\ cu_pc = [c \in CU |-> "asleep"] /\ cu_slot = [c \in CU |-> 0]
    /\ cu_page = [c \in CU |-> Invalid] /\ cu_walked = [c \in CU |-> NoFrame]
    /\ tlb = [c \in CU |-> [j \in Slots |-> Empty]]
    /\ snap = [j \in Slots |-> Empty]
    /\ accessing = {} /\ readers = 0 /\ writer = "none" /\ process = "up"
    /\ mapped = {m \in Page \X Frame : page_table[m[1]] = m[2]}
    /\ suspect = {} /\ overlapped = {}

----------------------------------------------------------------------------
(* Shared vocabulary; X_Suffix is a plausible bug in X. *)

\* The index of a page in the direct-mapped table.
Index(p) == p % TlbSize

\* Does entry e map a page to a frame the guest has taken away from it?
Stale(e) == /\ e.addr_read # Invalid /\ e.addend # Invalid
            /\ page_table[e.addr_read] # e.addend

\* pthread_rwlock_unlock: it does not ask who calls it.
Unlock ==
    IF writer # "none" THEN writer' = "none" /\ readers' = readers
    ELSE writer' = writer /\ readers' = (readers - 1) % ReaderWidth

\* pthread_rwlock_rdlock, once nobody writes.
LockToRead ==
    writer = "none" /\ readers' = (readers + 1) % ReaderWidth /\ writer' = writer

\* May hsa_flush_cu_tlb take cutlb_lock for writing?
CanWrite == writer = "none" /\ readers = 0

NextSlot_SkipsLastCu(at) ==
    IF at[2] + 1 < TlbSize THEN <<at[1], at[2] + 1>>
    ELSE IF at[1] + 2 < NumCus THEN <<at[1] + 1, 0>> ELSE <<0, 0>>
NextSlot_PastEnd(at) ==
    IF at[2] + 1 < TlbSize THEN <<at[1], at[2] + 1>>
    ELSE IF at[1] + 1 <= NumCus THEN <<at[1] + 1, 0>> ELSE <<0, 0>>
\* The two nested loops of hsa_flush_cu_tlb; <<0, 0>> again when they end.
NextSlot(at) ==
    IF at[2] + 1 < TlbSize THEN <<at[1], at[2] + 1>>
    ELSE IF at[1] + 1 < NumCus THEN <<at[1] + 1, 0>> ELSE <<0, 0>>

Hits_SlotOnly(e, p) == e.addr_read # Invalid
\* The comparison of the page address with addr_read.
Hits(e, p) == e.addr_read = p

\* Does a flush work on an entry of this CU right now?
FlushInside(c) == \E v \in VCPU : v_pc[v] \in {"tag", "addend"} /\ v_at[v][1] = c

Exit ==
    /\ process' = "exited"
    /\ UNCHANGED <<page_table, flush, cu_pc, cu_slot, walk, tlb, snap, accessing,
                   lock, history>>

----------------------------------------------------------------------------
(* A virtual CPU *)

\* The guest changes a mapping and invalidates the TLBs; QEMU then calls
\* hsa_flush_cu_tlb.
Remap(v) ==
    /\ v_pc[v] = "guest" /\ v \notin accessing
    /\ \E p \in Page : \E f \in Frame \cup {NoFrame} :
         /\ f # page_table[p]
         /\ page_table' = [page_table EXCEPT ![p] = f]
         /\ mapped' = mapped \cup ({p} \X ({f} \cap Frame))
    /\ suspect' = {c \in CU : cu_pc[c] \in CopyPcs}
    /\ v_pc' = [v_pc EXCEPT ![v] = "lock"]
    /\ UNCHANGED <<v_at, cu_pc, cu_slot, walk, tlb, snap, accessing, lock, process,
                   overlapped>>

FlushLock(v) ==
    /\ v_pc[v] = "lock" /\ CanWrite
    /\ writer' = v /\ readers' = readers
    /\ v_pc' = [v_pc EXCEPT ![v] = "tag"]
    /\ UNCHANGED <<page_table, v_at, cu_pc, cu_slot, walk, tlb, snap, accessing,
                   process, history>>

FlushField(v, field) ==
    LET c == v_at[v][1]
        j == v_at[v][2]
    IN  /\ tlb' = IF field = "tag" THEN [tlb EXCEPT ![c][j].addr_read = Invalid]
                  ELSE [tlb EXCEPT ![c][j].addend = Invalid]
        /\ overlapped' = IF cu_pc[c] \in CopyPcs THEN overlapped \cup {c}
                         ELSE overlapped

FlushTag(v) ==
    /\ v_pc[v] = "tag" /\ FlushField(v, "tag")
    /\ v_pc' = [v_pc EXCEPT ![v] = "addend"]
    /\ UNCHANGED <<page_table, v_at, cu_pc, cu_slot, walk, snap, accessing, lock,
                   process,
                   mapped, suspect>>

FlushAddend(v) ==
    /\ v_pc[v] = "addend" /\ FlushField(v, "addend") /\ Unlock
    /\ v_at' = [v_at EXCEPT ![v] = NextSlot(@)]
    /\ v_pc' = [v_pc EXCEPT ![v] = IF NextSlot(v_at[v]) = <<0, 0>> THEN "guest"
                                   ELSE "lock"]
    /\ UNCHANGED <<page_table, cu_pc, cu_slot, walk, snap, accessing, process,
                   mapped, suspect>>

VcpuStep(v) == FlushLock(v) \/ FlushTag(v) \/ FlushAddend(v)

----------------------------------------------------------------------------
(* The compute units *)

CuGoto(c, pc) == cu_pc' = [cu_pc EXCEPT ![c] = pc]

\* The monitor starts a dispatch: global_cpu_state becomes the state copied
\* when the task was enqueued, whose entries were right at some earlier time.
Dispatch ==
    /\ \A c \in CU : cu_pc[c] = "asleep"
    /\ "monitor" \notin accessing
    /\ snap' \in [Slots -> {Empty} \cup
                    {[addr_read |-> m[1], addend |-> m[2]] : m \in mapped}]
    /\ \A j \in Slots : snap'[j] # Empty => Index(snap'[j].addr_read) = j
    /\ cu_pc' = [c \in CU |-> "copy_tag"] /\ cu_slot' = [c \in CU |-> 0]
    /\ overlapped' = {}
    /\ UNCHANGED <<page_table, flush, walk, tlb, accessing, lock, process, mapped,
                   suspect>>

\* hsa_cu_update: memcpy of the whole state, field by field and unlocked.
Copied(c) ==
    /\ overlapped' = IF FlushInside(c) THEN overlapped \cup {c} ELSE overlapped
    /\ suspect' = IF Stale(snap[cu_slot[c]]) THEN suspect \cup {c} ELSE suspect

CopyTag(c) ==
    /\ cu_pc[c] = "copy_tag" /\ Copied(c)
    /\ tlb' = [tlb EXCEPT ![c][cu_slot[c]].addr_read = snap[cu_slot[c]].addr_read]
    /\ CuGoto(c, "copy_addend")
    /\ UNCHANGED <<page_table, flush, cu_slot, walk, snap, accessing, lock, process,
                   mapped>>

CopyAddend(c) ==
    /\ cu_pc[c] = "copy_addend" /\ Copied(c)
    /\ tlb' = [tlb EXCEPT ![c][cu_slot[c]].addend = snap[cu_slot[c]].addend]
    /\ IF cu_slot[c] + 1 < TlbSize
       THEN cu_slot' = [cu_slot EXCEPT ![c] = @ + 1] /\ CuGoto(c, "copy_tag")
       ELSE cu_slot' = [cu_slot EXCEPT ![c] = 0] /\ CuGoto(c, "kernel")
    /\ UNCHANGED <<page_table, flush, walk, snap, accessing, lock, process, mapped>>

\* HSA_GET_PHYADDR2: the kernel uses an address of page p.
Access(c, p) ==
    /\ cu_pc[c] = "kernel" /\ LockToRead
    /\ cu_page' = [cu_page EXCEPT ![c] = p]
    /\ CuGoto(c, "lookup")
    /\ UNCHANGED <<page_table, flush, cu_slot, cu_walked, tlb, snap, accessing,
                   process, history>>

EntryFor(c) == tlb[c][Index(cu_page[c])]

LeaveLookup(c) == Unlock /\ cu_page' = [cu_page EXCEPT ![c] = Invalid]

Hit(c) ==
    /\ cu_pc[c] = "lookup" /\ Hits(EntryFor(c), cu_page[c])
    /\ \/ Exit   \* an I/O page
       \/ /\ LeaveLookup(c) /\ CuGoto(c, "kernel")
          /\ UNCHANGED <<page_table, flush, cu_slot, cu_walked, tlb, snap, accessing,
                         process, history>>

\* tlb_fill walks the page table ...
Miss(c) ==
    /\ cu_pc[c] = "lookup" /\ ~Hits(EntryFor(c), cu_page[c])
    /\ page_table[cu_page[c]] # NoFrame
    /\ cu_walked' = [cu_walked EXCEPT ![c] = page_table[cu_page[c]]]
    /\ CuGoto(c, "fill")
    /\ UNCHANGED <<page_table, flush, cu_slot, cu_page, tlb, snap, accessing, lock,
                   process, history>>

\* ... and installs the entry; the lookup starts over (redo).
Fill(c) ==
    /\ cu_pc[c] = "fill"
    /\ tlb' = [tlb EXCEPT ![c][Index(cu_page[c])] =
                 [addr_read |-> cu_page[c], addend |-> cu_walked[c]]]
    /\ cu_walked' = [cu_walked EXCEPT ![c] = NoFrame]
    /\ CuGoto(c, "lookup")
    /\ UNCHANGED <<page_table, flush, cu_slot, cu_page, snap, accessing, lock,
                   process, history>>

PageFault_KeepsLock(c) ==
    /\ cu_pc[c] = "lookup" /\ ~Hits(EntryFor(c), cu_page[c])
    /\ page_table[cu_page[c]] = NoFrame
    /\ cu_page' = [cu_page EXCEPT ![c] = Invalid]
    /\ CuGoto(c, "asleep")
    /\ UNCHANGED <<page_table, flush, cu_slot, cu_walked, tlb, snap, accessing, lock,
                   process,
                   history>>

\* The page is not there: hsa_component_fault unlocks and leaves the kernel.
PageFault(c) ==
    /\ cu_pc[c] = "lookup" /\ ~Hits(EntryFor(c), cu_page[c])
    /\ page_table[cu_page[c]] = NoFrame
    /\ LeaveLookup(c) /\ CuGoto(c, "asleep")
    /\ UNCHANGED <<page_table, flush, cu_slot, cu_walked, tlb, snap, accessing, process,
                   history>>

\* No work-group is left (module HsaDispatch).
Finish(c) ==
    /\ cu_pc[c] = "kernel" /\ CuGoto(c, "asleep")
    /\ UNCHANGED <<page_table, flush, cu_slot, walk, tlb, snap, accessing, lock,
                   process, history>>

CuStep(c) ==
    \/ CopyTag(c) \/ CopyAddend(c) \/ Hit(c) \/ Miss(c) \/ Fill(c)
    \/ PageFault(c) \/ Finish(c)
    \/ \E p \in Page : Access(c, p)

----------------------------------------------------------------------------
(* hsa_get_phy_addr_global, for each page of a copy from or to the guest *)

\* A virtual CPU submits a task or a command; the monitor reads or writes between
\* two dispatches.
GlobalAccess(t) ==
    /\ t \notin accessing
    /\ \/ t = "monitor" /\ \A c \in CU : cu_pc[c] = "asleep"
       \/ t \in VCPU /\ v_pc[t] = "guest"
    /\ LockToRead /\ accessing' = accessing \cup {t}
    /\ UNCHANGED <<page_table, flush, cu_pc, cu_slot, walk, tlb, snap, process,
                   history>>

LeaveAccess(t) ==
    /\ t \in accessing
    /\ Unlock /\ accessing' = accessing \ {t}
    /\ UNCHANGED <<page_table, flush, cu_pc, cu_slot, walk, tlb, snap, process,
                   history>>

\* The page is in the TLB of the thread, or tlb_fill has brought it in (redo).
GlobalHit(t) == (t \in accessing /\ Exit) \/ LeaveAccess(t)

GlobalFault_KeepsLock(t) ==
    /\ t \in accessing /\ \E p \in Page : page_table[p] = NoFrame
    /\ accessing' = accessing \ {t}
    /\ UNCHANGED <<page_table, flush, cu_pc, cu_slot, walk, tlb, snap, lock, process,
                   history>>
\* The page is not there: hsa_component_fault unlocks.  The monitor jumps back to
\* its loop; for a virtual CPU the function returns to tlb_fill, which is not in
\* this repository and is taken to leave the copy by the guest's own exception.
GlobalFault(t) == (\E p \in Page : page_table[p] = NoFrame) /\ LeaveAccess(t)

AccessStep(t) == GlobalAccess(t) \/ GlobalHit(t) \/ GlobalFault(t)

----------------------------------------------------------------------------

Next ==
    /\ process = "up"
    /\ \/ Dispatch
       \/ \E v \in VCPU : Remap(v) \/ VcpuStep(v)
       \/ \E c \in CU : CuStep(c)
       \/ \E t \in Accessor : AccessStep(t)

Spec == Init /\ [][Next]_vars

----------------------------------------------------------------------------
(* Properties *)

\* When no flush is under way, no CU has a translation the guest has taken
\* back, except for what it copied from an outdated snapshot: neither the loops
\* of the flush nor a tlb_fill that overlaps it leave one behind
\* (pqemu-dev.c:605-630, pqemu-dev.h:44-64).
FlushIsComplete ==
    (\A v \in VCPU : v_pc[v] = "guest") =>
        \A c \in CU \ suspect : cu_pc[c] \notin CopyPcs =>
            \A j \in Slots : ~Stale(tlb[c][j])

\* A translation gives a frame that was mapped at the page in question, never
\* another page's; the addend of an invalidated entry is only ever used by a CU
\* whose unlocked memcpy ran together with a flush (pqemu-dev.c:598,618-626).
TranslationIsGenuine ==
    \A c \in CU : cu_pc[c] = "lookup" /\ Hits(EntryFor(c), cu_page[c]) =>
        \/ <<cu_page[c], EntryFor(c).addend>> \in mapped
        \/ c \in overlapped /\ EntryFor(c).addend = Invalid

\* cutlb_lock is held for reading once by each CU inside a translation and by
\* each other thread that translates an address of a copy, and never for reading
\* and for writing at once.  Of these threads some leave by hsa_component_fault,
\* "reset HSA component" (hsa_vmdep.h:37), which must leave the count so
\* (pqemu-dev.h:38-65, pqemu-dev.c:260-267,605-630, hsa_agent.c:182).
LockIsCounted ==
    /\ readers = Cardinality({c \in CU : cu_pc[c] \in LookupPcs})
                 + Cardinality(accessing)
    /\ writer # "none" => readers = 0
=============================================================================
