----------------------- MODULE MCPcdFileRefinement -----------------------
(***************************************************************************)
(* One thread, two open files on a device of two bytes.                  *)
(***************************************************************************)
EXTENDS PcdFileRefinement

SoleUses == [t \in Threads |-> Files]
SoleCalls == [t \in Threads |-> Kinds]
EdgeOffsets == {-(LoffMax + 1), -1, 0, 1, Size, LoffMax}
=============================================================================
