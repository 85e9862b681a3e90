---------------------------- MODULE MCCharDriver ----------------------------
(***************************************************************************)
(* CharDriver with the drivers of the repository.                          *)
(***************************************************************************)
EXTENDS CharDriver, DriverTables

AllDrivers == {Pcd, PcdDrv, Lm75a, Ds3231}
LoopFails == {PcdDrv}
=============================================================================
