---------------------------- MODULE MachineBoot ----------------------------
(***************************************************************************)
(* The life of a machine: it boots and the guest reads the topology table; *)
(* then the guest dispatches a range (module Geometry).                    *)
(***************************************************************************)
EXTENDS Geometry, Topology

machineVars == <<vars, topologyVars>>

\* Nothing is asked of the monitor before the machine has booted.
NoPacket == [grid |-> Nowhere, group |-> Nowhere]

MachineTypeOK ==
    /\ (pc = "boot" /\ packet = NoPacket) \/ TypeOK
    /\ data = Off \/ Len(data) = HSA_MMIO_SIZE

MachineInit ==
    /\ TopologyInit
    /\ pc = "boot" /\ packet = NoPacket
    /\ group_size = Nowhere /\ grid_size = Nowhere
    /\ flat_group_size = 0 /\ flat_grid_size = 0
    /\ finish_id = 0 /\ id = Nowhere /\ i = 0 /\ executed = {} /\ ran = 0

\* The guest has a dispatch.
Submit ==
    /\ pc = "boot" /\ data # Off
    /\ pc' = "prepare" /\ packet' \in Packets
    /\ answer' = NoAnswer
    /\ UNCHANGED <<sizes, finish_id, id, i, executed, ran, tables>>

MachineNext ==
    \/ pc = "boot" /\ TopologyNext /\ UNCHANGED vars
    \/ Submit
    \/ Next /\ UNCHANGED topologyVars

MachineSpec == MachineInit /\ [][MachineNext]_machineVars
=============================================================================
