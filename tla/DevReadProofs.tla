--------------------------- MODULE DevReadProofs ---------------------------
(***************************************************************************)
(* dev_read beside the platform modules: it leaves them as they are, and   *)
(* the driver it reads through stays while it has its file open.           *)
(***************************************************************************)
EXTENDS DevRead, PcdPlatformProofs

(* From the allocation of the range of numbers until pcd_exit gives it      *)
(* back, the driver holds it, but when class_create has failed.             *)
NumbersHeld ==
  /\ phase["driver"] = "class" => region
  /\ class = "ok" /\ phase["driver"] \in {"register", "attaching", "loaded", "draining", "detaching"}
       => region

DInv == IInv /\ NumbersHeld /\ FileKeepsDriver

(* What a program does with its file is no step of the modules, and they    *)
(* make theirs: the client implements the modules, so that what holds of    *)
(* them alone holds beside it.                                              *)
THEOREM ModulesAreKept == DSpec => Spec
<1>1. DInit => Init
  BY DEF DInit
<1>2. [DNext]_dvars => [Next]_vars
  BY DEF DNext, Modules, Open, OpenFails, Main, Read, Close, dvars
<1> QED BY <1>1, <1>2, PTL DEF DSpec, Spec

(* No step of the modules loses the numbers of a driver that has a class.   *)
LEMMA NumbersKept ==
  ASSUME IInv, NumbersHeld, [Next]_vars
  PROVE  NumbersHeld'
<1>1. phase \in [Threads -> Phases] /\ "driver" \in Threads /\ "setup" \in Threads
  BY DEF IInv, WorkOK, Threads
<1>2. CASE Setup
  BY <1>1, <1>2
  DEF NumbersHeld, Setup, pcdev_platform_init, AddDevice, DevicesAdded, AddDeviceFails, UndoDevice,
      DevicesUndone, pcdev_platform_exit, UnregisterDevice, Unregister, DevicesGone,
      ExitWithoutDevices
<1>3. CASE AllocRegion \/ CreateClass \/ UnregisterRegion \/ DestroyClass
  BY <1>1, <1>3 DEF NumbersHeld, DriverPhase, AllocRegion, CreateClass, UnregisterRegion, DestroyClass
<1>4. CASE RegisterDriver \/ AttachDevice \/ DriverLoaded \/ pcd_exit \/ DriverDrained \/ DetachDevice
  BY <1>1, <1>4
  DEF NumbersHeld, DriverPhase, RegisterDriver, AttachDevice, DriverLoaded, pcd_exit,
      DriverDrained, DetachDevice, core
<1>5. CASE \E t \in Threads : Probe(t) \/ Remove(t)
  <2>1. UNCHANGED core
    BY <1>5, WorkIsLocal DEF Local
  <2> QED BY <2>1 DEF NumbersHeld, core
<1>6. CASE UNCHANGED vars
  BY <1>6 DEF NumbersHeld, vars
<1> QED BY <1>2, <1>3, <1>4, <1>5, <1>6 DEF Next, Driver

(* A driver that is attaching or loaded and does not begin to unload stays  *)
(* that, with the class and the numbers it has.                             *)
LEMMA DriverStays ==
  ASSUME IInv, Next, phase["driver"] \in {"attaching", "loaded"},
         phase["driver"] = "loaded" => phase'["driver"] # "draining"
  PROVE  /\ phase'["driver"] \in {"attaching", "loaded"}
         /\ (region' <=> region) /\ class' = class
<1>1. phase \in [Threads -> Phases] /\ "driver" \in Threads /\ "setup" \in Threads
  BY DEF IInv, WorkOK, Threads
<1>2. CASE Setup
  BY <1>1, <1>2
  DEF Setup, pcdev_platform_init, AddDevice, DevicesAdded, AddDeviceFails, UndoDevice,
      DevicesUndone, pcdev_platform_exit, UnregisterDevice, Unregister, DevicesGone,
      ExitWithoutDevices
<1>3. CASE Driver
  BY <1>1, <1>3
  DEF DriverPhase, Driver, AllocRegion, CreateClass, RegisterDriver, AttachDevice, DriverLoaded,
      pcd_exit, DriverDrained, DetachDevice, DestroyClass, UnregisterRegion, core
<1>4. CASE \E t \in Threads : Probe(t) \/ Remove(t)
  <2>1. UNCHANGED core
    BY <1>4, WorkIsLocal DEF Local
  <2> QED BY <2>1 DEF core
<1> QED BY <1>2, <1>3, <1>4 DEF Next

(* A file that is open keeps the driver it was opened on, its class and its *)
(* numbers, however the modules come and go and whatever fails in them,     *)
(* class_create included.                                                   *)
THEOREM FileKeepsTheDriver == DSpec => []FileKeepsDriver
<1>1. DInit => NumbersHeld /\ FileKeepsDriver
  BY DEF DInit, Init, NumbersHeld, FileKeepsDriver, FileOpen, Exited, Threads
<1>2. ASSUME IInv, NumbersHeld, FileKeepsDriver, [DNext]_dvars
      PROVE  NumbersHeld' /\ FileKeepsDriver'
  <2>1. [Next]_vars
    BY <1>2 DEF DNext, Modules, Open, OpenFails, Main, Read, Close, dvars
  <2>2. NumbersHeld'
    BY <1>2, <2>1, NumbersKept
  <2>3. CASE Modules
    <3>1. client' = client
      BY <2>3 DEF Modules
    <3>2. ASSUME FileOpen
          PROVE  phase'["driver"] \in {"attaching", "loaded"} /\ region' /\ class' = "ok"
      <4>1. phase["driver"] \in {"attaching", "loaded"} /\ region /\ class = "ok"
        BY <1>2, <3>2 DEF FileKeepsDriver
      <4>2. Next /\ (phase["driver"] = "loaded" => phase'["driver"] # "draining")
        BY <2>3, <3>2 DEF Modules, PinsModule
      <4> QED BY <1>2, <4>1, <4>2, DriverStays
    <3>3. FileKeepsDriver'
      BY <3>1, <3>2 DEF FileKeepsDriver, FileOpen
    <3> QED BY <2>2, <3>3
  <2>4. CASE Open
    <3>1. nodes # {} /\ phase["driver"] \in {"attaching", "loaded"} /\ UNCHANGED vars
      BY <2>4 DEF Open, Openable
    <3>2. class = "ok"
      BY <1>2, <3>1 DEF IInv, ClassInv
    <3>3. region
      BY <1>2, <3>1, <3>2 DEF NumbersHeld
    <3> QED BY <2>2, <3>1, <3>2, <3>3 DEF FileKeepsDriver, vars
  <2>5. CASE OpenFails \/ Main \/ UNCHANGED dvars
    <3>1. UNCHANGED vars
      BY <2>5 DEF OpenFails, Main, Read, Close, dvars
    <3>2. FileOpen' => FileOpen
      BY <2>5 DEF OpenFails, Main, Read, Close, dvars, Exited, FileOpen
    <3> QED BY <1>2, <2>2, <3>1, <3>2 DEF FileKeepsDriver, vars
  <2> QED BY <1>2, <2>2, <2>3, <2>4, <2>5 DEF DNext
<1>3. DSpec => []IInv
  BY ModulesAreKept, PlatformInvariant, PTL
<1> QED BY <1>1, <1>2, <1>3, PTL DEF DSpec
=============================================================================
