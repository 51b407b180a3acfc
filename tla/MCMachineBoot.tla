--------------------------- MODULE MCMachineBoot ---------------------------
(* TLC instance of a machine: the repository's table and two others, one that *)
(* fills the device but for a byte and one that does not leave that byte;     *)
(* ranges and groups of every shape, among them ranges that are no multiple   *)
(* of their groups and numbers that overflow.                                 *)
EXTENDS MachineBoot

CONSTANTS GridSides, GroupSides

Shapes == {p \in [grid : [Dim -> GridSides], group : [Dim -> GroupSides]] :
              p.group[0] * p.group[1] * p.group[2] <= MAX_WORKGROUP_SIZE}

\* 15 bytes, 19 and 20.
TwoRegions ==
    <<region("system"), agent("cpu"), region("local"), link("cpu", "local"),
      agent("gpu"), agent("m2s"), agent("dsp"), link("gpu", "system"),
      link("m2s", "local")>>
OneMore == TwoRegions \o <<link("gpu", "local")>>
AllMachines == {gen_hsa_topology, TwoRegions, OneMore}
=============================================================================
