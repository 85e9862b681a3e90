------------------------------ MODULE DevRead ------------------------------
(***************************************************************************)
(* dev_read.c, a test client of the pseudo character devices, beside the   *)
(* two platform modules.  It opens /dev/pcdev-0 for reading, the node that *)
(* pcd_platform_driver_probe makes of device 0 (those of pcd_drv.c are     *)
(* called pcdevm-1 and so on), asks at most twice for the bytes that are   *)
(* left of the number given on its command line, and closes the file.      *)
(* pcd_read of this driver is a stub that returns 0.                       *)
(***************************************************************************)
EXTENDS PcdPlatform

CONSTANT Requests   \* numbers given on the command line

ASSUME RequestsAssumption == Requests \subseteq Int

VARIABLE client     \* dev_read: the locals of main, where it is, its exit status

dvars == <<vars, client>>

Exited(status) == [pc |-> "exited", remaining |-> 0, total_read |-> 0, n |-> 0, status |-> status]

DInit == Init /\ client = Exited(0)

FileOpen == client.pc # "exited"

(* Mutant: the operations have no owner. *)
PinsModuleNot == FALSE

(* pcd_fops.owner: an open file holds a reference on the driver's module.   *)
PinsModule == FileOpen

(* open finds the node in /dev and the cdev by its number, and takes the    *)
(* reference, which it does not get once rmmod has begun.                   *)
Openable == 0 \in nodes /\ 0 \in cdevs /\ phase["driver"] \in {"attaching", "loaded"}

Open ==
  /\ ~FileOpen /\ Openable
  /\ \E r \in Requests :
       client' = [pc |-> "loop", remaining |-> r, total_read |-> 0, n |-> 0, status |-> 0]
  /\ UNCHANGED vars

OpenFails ==
  /\ ~FileOpen /\ ~Openable
  /\ client' = Exited(-1)
  /\ UNCHANGED vars

(* while (n != 2 && remaining) *)
Goes == client.n # 2 /\ client.remaining # 0

(* Mutant: the end of the file is not the end of the loop. *)
HandledForever(ret) ==
  CASE ret = 0 -> client
    [] ret # 0 /\ ret <= client.remaining ->
         [client EXCEPT !.total_read = @ + ret, !.remaining = @ - ret, !.n = @ + 1]
    [] OTHER -> [client EXCEPT !.pc = "close"]

(* The test for what was read comes before the one for an error. *)
Handled(ret) ==
  CASE ret = 0 -> [client EXCEPT !.pc = "close"]
    [] ret # 0 /\ ret <= client.remaining ->
         [client EXCEPT !.total_read = @ + ret, !.remaining = @ - ret, !.n = @ + 1]
    [] OTHER -> [client EXCEPT !.pc = "close"]

(* A negative length is refused before the driver sees it: read returns -1. *)
Read ==
  /\ client.pc = "loop" /\ Goes
  /\ client' = Handled(IF client.remaining < 0 THEN -1 ELSE 0)
  /\ UNCHANGED vars

Close ==
  /\ \/ client.pc = "close"
     \/ client.pc = "loop" /\ ~Goes
  /\ client' = Exited(0)
  /\ UNCHANGED vars

Main == Read \/ Close

(* rmmod of the driver fails while the module is in use. *)
Modules ==
  /\ Next
  /\ PinsModule /\ phase["driver"] = "loaded" => phase'["driver"] # "draining"
  /\ UNCHANGED client

DNext == Modules \/ Open \/ OpenFails \/ Main

DSpec == DInit /\ [][DNext]_dvars

(* The modules as in PcdPlatform; and dev_read is scheduled. *)
FairDSpec == DSpec /\ Fairness /\ WF_dvars(Main)

-----------------------------------------------------------------------------
(* While dev_read has its file open the driver it reads through stays: its  *)
(* code is loaded, and its numbers and its class are there, whether or not  *)
(* pcd_device_setup takes the device itself off the bus meanwhile, and at   *)
(* whatever moment of the driver's init the file was opened.                *)
FileKeepsDriver ==
  FileOpen => phase["driver"] \in {"attaching", "loaded"} /\ region /\ class = "ok"

(* dev_read ends: it does not read on at the end of the file, nor after a   *)
(* read that was refused, whatever becomes of the device.                   *)
DevReadEnds == FileOpen ~> ~FileOpen
=============================================================================
