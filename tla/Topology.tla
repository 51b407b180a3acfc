------------------------------ MODULE Topology ------------------------------
(***************************************************************************)
(* The topology table: at boot the machine registers its agents and memory *)
(* regions and links them, gen_topology lays everything out in one table,  *)
(* and a memory-mapped device shows the table to the guest, which walks it *)
(* by the amounts and sizes in its header.                                 *)
(*                                                                         *)
(* An entry is the pointer that registered it; byte j of an entry e is     *)
(* <<kind of e, e, j>>.                                                    *)
(***************************************************************************)
EXTENDS Integers, Sequences, SequencesExt

CONSTANTS
    Machines,        \* sequences of calls: [op, ptr] or [op, agent, region]
    header_size,     \* sizeof(hsa_topology_header_t), and so on
    agent_size,
    region_size,
    link_size,
    HSA_MMIO_SIZE    \* the bytes of the device

\* The calls of gen_hsa_topology.
agent(p) == [op |-> "agent", ptr |-> p]
region(p) == [op |-> "region", ptr |-> p]
link(a, r) == [op |-> "link", agent |-> a, region |-> r]
gen_hsa_topology ==
    <<agent("cpu"), agent("hsa_component"), agent("m2s_gpu"), region("sys_mem"),
      link("cpu", "sys_mem"), link("hsa_component", "sys_mem"),
      link("m2s_gpu", "sys_mem")>>

ASSUME TopologyAssumption ==
    /\ {header_size, agent_size, region_size, link_size} \subseteq Nat \ {0}
    /\ HSA_MMIO_SIZE \in Nat

VARIABLES
    calls,    \* the calls of the machine that are still to come
    agents,   \* _hsa_agent_head
    regions,  \* _hsa_region_head
    links,    \* _hsa_link_head: [agent, region], numbers from 0
    data,     \* hsa_state_t.data, or Off before the device is there
    head,     \* the amounts and sizes at its start
    answer    \* what the last access of the guest was: [addr, size, value]

tables == <<calls, agents, regions, links, data, head>>
topologyVars == <<tables, answer>>

Off == <<>>
Zero == <<"zero">>
NoAnswer == [addr |-> 0, size |-> 0, value |-> <<>>]

TopologyInit ==
    /\ calls \in Machines
    /\ agents = <<>> /\ regions = <<>> /\ links = <<>>
    /\ data = Off /\ head = Off /\ answer = NoAnswer

----------------------------------------------------------------------------
(* Registration; X_Suffix is a plausible bug in X. *)

Call(op) == data = Off /\ calls # <<>> /\ Head(calls).op = op /\ calls' = Tail(calls)

registe_agent ==
    /\ Call("agent") /\ agents' = Append(agents, Head(calls).ptr)
    /\ UNCHANGED <<regions, links, data, head, answer>>

registe_region ==
    /\ Call("region") /\ regions' = Append(regions, Head(calls).ptr)
    /\ UNCHANGED <<agents, links, data, head, answer>>

\* The list is searched for the pointer; an assertion fails where it is not found.
Position(list, ptr) == SelectInSeq(list, LAMBDA p : p = ptr) - 1

agent_link_memory ==
    /\ Call("link")
    /\ LET l == [agent |-> Position(agents, Head(calls).agent),
                 region |-> Position(regions, Head(calls).region)]
       IN  l.agent >= 0 /\ l.region >= 0 /\ links' = Append(links, l)
    /\ UNCHANGED <<agents, regions, data, head, answer>>

----------------------------------------------------------------------------
(* The table *)

Header == [agent_amount |-> Len(agents), agent_size |-> agent_size,
           region_amount |-> Len(regions), region_size |-> region_size,
           link_amount |-> Len(links), link_size |-> link_size,
           header_size |-> header_size,
           total_size |-> header_size + agent_size * Len(agents)
                            + region_size * Len(regions) + link_size * Len(links)]

\* The bytes of entries of one size, one after the other.
Copied(kind, entries, size) ==
    [b \in 1 .. Len(entries) * size |->
        <<kind, entries[(b - 1) \div size + 1], (b - 1) % size>>]

gen_topology_LinksFirst ==
    Copied("header", <<Header>>, header_size) \o Copied("agent", agents, agent_size)
        \o Copied("link", links, link_size) \o Copied("region", regions, region_size)
\* The table, laid out by a running offset.
gen_topology ==
    Copied("header", <<Header>>, header_size) \o Copied("agent", agents, agent_size)
        \o Copied("region", regions, region_size) \o Copied("link", links, link_size)

TableFits_Exactly == Header.total_size <= HSA_MMIO_SIZE
\* assert(head->total_size < HSA_MMIO_SIZE)
TableFits == Header.total_size < HSA_MMIO_SIZE

\* The table is copied to the start of the device's memory, which is zero.
hsa_dev_init_sysbus ==
    /\ data = Off /\ calls = <<>> /\ TableFits
    /\ head' = Header
    /\ data' = gen_topology \o [b \in 1 .. HSA_MMIO_SIZE - Len(gen_topology) |-> Zero]
    /\ UNCHANGED <<calls, agents, regions, links, answer>>

----------------------------------------------------------------------------
(* The guest *)

\* Byte k of the device, if there is one.
Byte(k) == IF k < Len(data) THEN data[k + 1] ELSE <<"outside">>

InTable_FirstByte(addr, size) == addr <= head.total_size
\* The test of the last byte of a read.
InTable(addr, size) ==
    addr + size - 1 <= head.total_size /\ addr + size - 1 <= HSA_MMIO_SIZE

\* A read that is refused, or of another size, answers 0.
hsa_dev_read ==
    /\ data # Off
    /\ \E addr \in 0 .. HSA_MMIO_SIZE - 1, size \in {1, 2, 3, 4, 8} :
         answer' = [addr |-> addr, size |-> size,
                    value |-> IF InTable(addr, size) /\ size # 3
                              THEN [j \in 1 .. size |-> Byte(addr + j - 1)]
                              ELSE <<Zero>>]
    /\ UNCHANGED tables

\* A write changes nothing.
hsa_dev_write == data # Off /\ answer' = NoAnswer /\ UNCHANGED tables

TopologyNext ==
    \/ registe_agent \/ registe_region \/ agent_link_memory
    \/ hsa_dev_init_sysbus \/ hsa_dev_read \/ hsa_dev_write

----------------------------------------------------------------------------
(* Properties *)

\* Where the guest looks for byte j of the k-th entry of a kind.
AgentByte(k, j) == head.header_size + (head.agent_size * k) + j
RegionByte(k, j) ==
    head.header_size + (head.agent_size * head.agent_amount)
        + (head.region_size * k) + j
LinkByte(k, j) ==
    head.header_size + (head.agent_size * head.agent_amount)
        + (head.region_size * head.region_amount) + (head.link_size * k) + j

\* A guest that walks the table by the amounts and sizes of its header reads what
\* was registered, in the order of registration, and each link names the numbers
\* of its two ends (topology.c:150-215, pqemu-dev.c:22-66).
TableIsWalkable ==
    answer.size = 1 =>
        /\ \A k \in DOMAIN agents, j \in 0 .. agent_size - 1 :
             answer.addr = AgentByte(k - 1, j) => answer.value = <<<<"agent", agents[k], j>>>>
        /\ \A k \in DOMAIN regions, j \in 0 .. region_size - 1 :
             answer.addr = RegionByte(k - 1, j) => answer.value = <<<<"region", regions[k], j>>>>
        /\ \A k \in DOMAIN links, j \in 0 .. link_size - 1 :
             answer.addr = LinkByte(k - 1, j) => answer.value = <<<<"link", links[k], j>>>>

\* No read is answered from outside the device's memory, although both tests of a
\* read let one byte too many pass: the assertion at boot keeps that byte inside
\* (pqemu-dev.c:30-33,132).
ReadsStayInside ==
    \A j \in DOMAIN answer.value : answer.value[j][1] # "outside"
=============================================================================
