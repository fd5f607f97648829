--------------------------- MODULE MCUeventGraph ---------------------------
(***************************************************************************)
(* UeventGraph on a disk with two partitions: the disk's path is an        *)
(* ancestor of both partitions, and the second disk's name merely starts   *)
(* with the first's (block/sda, block/sda/sda1, block/sda/sda2, block/sdaa). *)
(***************************************************************************)
EXTENDS UeventGraph

MCPaths == {"sda", "sda1", "sda2", "sdaa"}

MCAncestorsOrSame ==
  [p \in MCPaths |-> IF p \in {"sda1", "sda2"} THEN {p, "sda"} ELSE {p}]

MCStartsWith == [p \in MCPaths |-> {p, "sda"}]
=============================================================================
