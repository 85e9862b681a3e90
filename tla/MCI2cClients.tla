---------------------------- MODULE MCI2cClients ----------------------------
(***************************************************************************)
(* Temperatures around the lengths of the text and around zero, some with  *)
(* bits behind the nine of the temperature.                                *)
(***************************************************************************)
EXTENDS I2cClients

CONSTANTS cat, hwclock

(* 9.5, 10, -0.5 and -128 degrees. *)
EdgeRegisters == {<<9, 128>>, <<10, 127>>, <<255, 128>>, <<128, 0>>}
=============================================================================
