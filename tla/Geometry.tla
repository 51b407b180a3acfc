------------------------------ MODULE Geometry ------------------------------
(***************************************************************************)
(* How a dispatch packet becomes work-items: the monitor computes the      *)
(* number of groups in each dimension and in all, hsa_get_work gives out   *)
(* flat numbers of groups and turns them into coordinates, the loop over   *)
(* the group does the same for the work-items, and a kernel learns from    *)
(* the helpers which point of the range it is to work on.                  *)
(*                                                                         *)
(* One CU executes all groups, in the order in which they are given out:   *)
(* that each is given out once is GroupsOnce of HsaDispatch.  Faults are   *)
(* in HsaDispatch and WorkGroup.  Numbers are unsigned or int, and an int  *)
(* that overflows wraps.                                                   *)
(***************************************************************************)
EXTENDS Integers, FiniteSets

CONSTANTS
    IntWidth,            \* 2^w for the width w of int and uint32_t
    MAX_WORKGROUP_SIZE,  \* work-item contexts of a CU
    Packets              \* the sizes in a packet: [grid, group], by dimension

Dim == 0 .. 2
Unsigned(n) == n % IntWidth
Signed(n) == IF Unsigned(n) < IntWidth \div 2 THEN Unsigned(n)
             ELSE Unsigned(n) - IntWidth
Uint == 0 .. IntWidth - 1
Int32 == -(IntWidth \div 2) .. (IntWidth \div 2) - 1

\* A group has no more work-items than there are contexts: the code relies on
\* it and does not test it.
ASSUME GeometryAssumption ==
    /\ IntWidth \in Nat \ {0} /\ IntWidth % 2 = 0
    /\ Packets \subseteq [grid : [Dim -> Uint], group : [Dim -> Uint]]
    /\ MAX_WORKGROUP_SIZE \in Int32
    /\ \A p \in Packets : p.group[0] * p.group[1] * p.group[2] <= MAX_WORKGROUP_SIZE

VARIABLES
    pc,               \* "prepare", "refused", "fetch", "items", "done", "trapped"
    packet,           \* the packet of the dispatch
    group_size,       \* global_cc
    grid_size,
    flat_group_size,
    flat_grid_size,
    finish_id,
    id,               \* cu_context.id
    i,                \* cursor of the loop over the work-items
    executed,         \* history: the points of the range that were worked on
    ran               \* history: how many work-items ran

sizes == <<group_size, grid_size, flat_group_size, flat_grid_size>>
vars == <<pc, packet, sizes, finish_id, id, i, executed, ran>>

TypeOK ==
    /\ pc \in {"prepare", "refused", "fetch", "items", "done", "trapped"}
    /\ packet \in Packets
    /\ {group_size, grid_size, id} \subseteq [Dim -> Int32]
    /\ {flat_group_size, flat_grid_size, finish_id, i} \subseteq Uint /\ ran \in Nat
    /\ executed \subseteq [Dim -> Uint]

Nowhere == [d \in Dim |-> 0]

Init ==
    /\ pc = "prepare" /\ packet \in Packets
    /\ group_size = Nowhere /\ grid_size = Nowhere
    /\ flat_group_size = 0 /\ flat_grid_size = 0
    /\ finish_id = 0 /\ id = Nowhere /\ i = 0 /\ executed = {} /\ ran = 0

----------------------------------------------------------------------------
(* Arithmetic; X_Suffix is a plausible bug in X. *)

ALIGNMENT_DEV_RoundsDown(x, y) == x \div y
\* How many blocks of y hold x.
ALIGNMENT_DEV(x, y) == Unsigned(x + y - 1) \div y

SIZE_DIM2FLAT_Wide(s) == s[0] * s[1] * s[2]
SIZE_DIM2FLAT_Saturates(s) ==
    LET n == s[0] * s[1] * s[2] IN IF n \in Uint THEN n ELSE IntWidth - 1
SIZE_DIM2FLAT(s) == Unsigned(s[0] * s[1] * s[2])

\* Division of ints, towards zero.
Abs(n) == IF n < 0 THEN -n ELSE n
Quotient(m, n) == LET q == Abs(m) \div Abs(n)
                  IN IF (m < 0) = (n < 0) THEN q ELSE -q
Remainder(m, n) == m - (n * Quotient(m, n))
\* Where the machine raises SIGFPE instead of an answer.
Traps(m, n) == n = 0 \/ (m = -(IntWidth \div 2) /\ n = -1)

xy_size(size) == Signed(size[0] * size[1])

cvt_flat_to_dim3_SwapsSides(flat, size) ==
    LET tmp == Remainder(Signed(flat), xy_size(size))
    IN [d \in Dim |-> CASE d = 2 -> Quotient(Signed(flat), xy_size(size))
                        [] d = 1 -> Quotient(tmp, size[1])
                        [] d = 0 -> Remainder(tmp, size[1])]
\* The coordinates of the block with a flat number.
cvt_flat_to_dim3(flat, size) ==
    LET tmp == Remainder(Signed(flat), xy_size(size))
    IN [d \in Dim |-> CASE d = 2 -> Quotient(Signed(flat), xy_size(size))
                        [] d = 1 -> Quotient(tmp, size[0])
                        [] d = 0 -> Remainder(tmp, size[0])]

(* What the kernel asks. *)
WorkItemId == cvt_flat_to_dim3(i, group_size)
WorkItemAId == [d \in Dim |-> Unsigned(id[d] * group_size[d] + WorkItemId[d])]
WorkNDRangesize(d) == Unsigned(grid_size[d] * group_size[d])

----------------------------------------------------------------------------

Refuse ==
    /\ pc = "prepare" /\ \E d \in Dim : 0 \in {packet.grid[d], packet.group[d]}
    /\ pc' = "refused"
    /\ UNCHANGED <<packet, sizes, finish_id, id, i, executed, ran>>

\* hsa_prepare_code_cache sets the sizes.
Prepare ==
    /\ pc = "prepare" /\ \A d \in Dim : 0 \notin {packet.grid[d], packet.group[d]}
    /\ group_size' = [d \in Dim |-> Signed(packet.group[d])]
    /\ flat_group_size' = SIZE_DIM2FLAT(group_size')
    /\ grid_size' = [d \in Dim |->
                        Signed(ALIGNMENT_DEV(packet.grid[d], packet.group[d]))]
    /\ flat_grid_size' = SIZE_DIM2FLAT(grid_size')
    /\ finish_id' = 0 /\ pc' = "fetch"
    /\ UNCHANGED <<packet, id, i, executed, ran>>

\* hsa_get_work
GetWork ==
    /\ pc = "fetch" /\ finish_id # flat_grid_size
    /\ ~Traps(Signed(finish_id), xy_size(grid_size))
    /\ id' = cvt_flat_to_dim3(finish_id, grid_size)
    /\ finish_id' = Unsigned(finish_id + 1)
    /\ i' = 0 /\ pc' = "items"
    /\ UNCHANGED <<packet, sizes, executed, ran>>

\* The SIGFPE handler leaves hsa_get_work by longjmp, with ref_mutx locked: no
\* CU gets past its next hsa_get_work.
GetWorkTraps ==
    /\ pc = "fetch" /\ finish_id # flat_grid_size
    /\ Traps(Signed(finish_id), xy_size(grid_size))
    /\ pc' = "trapped"
    /\ UNCHANGED <<packet, sizes, finish_id, id, i, executed, ran>>

NoWork ==
    /\ pc = "fetch" /\ finish_id = flat_grid_size /\ pc' = "done"
    /\ UNCHANGED <<packet, sizes, finish_id, id, i, executed, ran>>

\* The loop over the work-items of the group.
Execute ==
    /\ pc = "items" /\ i < flat_group_size
    /\ executed' = executed \cup {WorkItemAId}
    /\ ran' = ran + 1 /\ i' = i + 1
    /\ UNCHANGED <<pc, packet, sizes, finish_id, id>>

EndGroup ==
    /\ pc = "items" /\ i = flat_group_size /\ pc' = "fetch"
    /\ UNCHANGED <<packet, sizes, finish_id, id, i, executed, ran>>

Next == Refuse \/ Prepare \/ GetWork \/ GetWorkTraps \/ NoWork \/ Execute \/ EndGroup

Spec == Init /\ [][Next]_vars

----------------------------------------------------------------------------
(* Properties *)

\* Sizes that overflow may leave less work than was asked for, but never a
\* division by zero, which in hsa_get_work would leave ref_mutx locked: the
\* product of all sides is 0 whenever that of two of them is
\* (hsa_cu.c:54-63,126-144; hsa_agent.c:352-361).
DivisorsNonZero ==
    /\ pc = "fetch" /\ finish_id # flat_grid_size =>
          grid_size[0] # 0 /\ xy_size(grid_size) # 0
    /\ pc = "items" /\ i < flat_group_size =>
          group_size[0] # 0 /\ xy_size(group_size) # 0

Points(size) == {a \in [Dim -> Uint] : \A d \in Dim : a[d] < size[d]}

\* Each point that helper_WorkNDRangesize promises was worked on once, and all
\* that were asked for are among them.
Complete ==
    /\ executed = Points([d \in Dim |-> WorkNDRangesize(d)])
    /\ ran = Cardinality(executed)
    /\ Points(packet.grid) \subseteq executed

\* No size wraps and the number of the last group is an int.
Groups(d) == (packet.grid[d] + packet.group[d] - 1) \div packet.group[d]
Fits ==
    /\ \A d \in Dim : packet.grid[d] + packet.group[d] - 1 \in Uint
    /\ Groups(0) * Groups(1) * Groups(2) - 1 \in Int32

\* The work-items of a dispatch cover the range the packet asks for, each point
\* once, whenever the number of its last group fits an int: the rounding of the
\* sizes, the two conversions of flat numbers and the kernel's view of its range
\* agree, and nothing but an overflow can go wrong (hsa_agent.c:347-361,
\* hsa_cu.c:54-63,134-136,213-230, hsa_help_info.c:87-125).
RangeIsExecuted == pc \in {"done", "trapped"} /\ Fits => Complete
=============================================================================
