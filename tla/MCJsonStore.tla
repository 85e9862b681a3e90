---------------------------- MODULE MCJsonStore ----------------------------
(***************************************************************************)
(* Two keys that differ in case only, and one that differs.                *)
(***************************************************************************)
EXTENDS JsonStore, TLC

KeysTyped == {"k", "K", "x"}
LowerCase == ("k" :> "k") @@ ("K" :> "k") @@ ("x" :> "x") @@ ("" :> "")

AroundArray == -1 .. 2

Members == [p \in Programs |-> IF p = "json_generic" THEN 2 ELSE 3]
Failing == [p \in Programs |-> IF p = "json_generic" THEN 0 ELSE 1]
Unread == [p \in Programs |-> IF p = "json_generic" THEN 1 ELSE 2]
=============================================================================
