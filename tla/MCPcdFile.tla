----------------------------- MODULE MCPcdFile -----------------------------
(***************************************************************************)
(* Small instances of PcdFile for TLC.                                     *)
(***************************************************************************)
EXTENDS PcdFile, TLC

CONSTANTS t1, t2, f1, f2, zero, a

(* Both threads use f1, and t2 has f2 to itself. *)
SharedUses == (t1 :> {f1}) @@ (t2 :> {f1, f2})
SharedCalls == (t1 :> {"read", "seek"}) @@ (t2 :> Kinds)

(* Both threads use the one file. *)
OneFile == [t \in Threads |-> {f1}]
AllCalls == [t \in Threads |-> Kinds]

(* Both may also write through it, where its permission lets them. *)
ReadersWhoMayWrite == [t \in Threads |-> {"read", "write", "pwrite"}]

(* Around the ends of the device, and the extremes of loff_t. *)
EdgeOffsets == {-(LoffMax + 1), -1, 1, LoffMax}
EdgePositions == {1, Size + 1, LoffMax - 1}
=============================================================================
