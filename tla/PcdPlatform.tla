---------------------------- MODULE PcdPlatform ----------------------------
(***************************************************************************)
(* The platform version of the pseudo character devices: the module        *)
(* pcd_device_setup registers the platform devices, the module             *)
(* pcd_platform_driver registers the driver, and the kernel's driver core  *)
(* binds one to the other.  Either module is loaded and unloaded by a      *)
(* thread of its own, in any order and at the same time, so that           *)
(* pcd_platform_driver_probe and _remove run in both threads, each time    *)
(* under the lock of one device, and share pcdrv_data without a lock.      *)
(*                                                                         *)
(* pcdrv_data.device_pcd is not a variable: every probe overwrites it, but *)
(* the built module tests the pointer device_create has just returned.     *)
(* The file operations of this driver are stubs and are left out.          *)
(***************************************************************************)
EXTENDS Integers, FiniteSets

CONSTANTS
  N,             \* platform devices, of ids 0 .. N-1 (5 in the code)
  MayFail,       \* the calls into the kernel that may fail
  NoThread       \* a lock that nobody holds

Devices == 0 .. N - 1
Threads == {"setup", "driver"}
FailurePoints == {"device", "region", "class", "register", "memory", "cdev", "node"}

ASSUME PlatformAssumption ==
  /\ N \in Nat
  /\ MayFail \subseteq FailurePoints
  /\ NoThread \notin Threads

VARIABLES
  phase,         \* phase[t]: how far the module of thread t is
  next,          \* next[t]: the device its loop over the devices is at
  registered,    \* platform devices on the bus
  onBus,         \* the driver is on the bus and is matched with new devices
  region,        \* the driver owns its range of device numbers
  class,         \* pcdrv_data.class_pcd: "none", "ok" or "error"
  lock,          \* lock[d]: the thread that holds the lock of device d
  work,          \* work[t]: the probe or remove thread t is in
  dev_data,      \* devices whose driver data is allocated
  cdevs, nodes,  \* devices whose cdev, whose device file is registered
  bound,         \* devices bound to the driver
  total_device,  \* pcdrv_data.total_device
  refused,       \* history: registered devices whose last probe failed
  serial         \* the user runs one insmod or rmmod at a time; it never changes

vars == <<phase, next, registered, onBus, region, class, lock, work, dev_data,
          cdevs, nodes, bound, total_device, refused, serial>>
core == <<phase, next, registered, onBus, region, class, serial>>
private == <<dev_data, cdevs, nodes, bound, total_device, refused>>

Idle == [pc |-> "idle", dev |-> 0, tmp |-> 0]
At(pc, d) == [pc |-> pc, dev |-> d, tmp |-> 0]
Busy(t) == work[t].pc # "idle"

Init ==
  /\ phase = [t \in Threads |-> "absent"]
  /\ next = [t \in Threads |-> 0]
  /\ registered = {} /\ onBus = FALSE /\ region = FALSE /\ class = "none"
  /\ lock = [d \in Devices |-> NoThread]
  /\ work = [t \in Threads |-> Idle]
  /\ dev_data = {} /\ cdevs = {} /\ nodes = {} /\ bound = {} /\ total_device = 0
  /\ refused = {} /\ serial \in BOOLEAN

-----------------------------------------------------------------------------
(* pcd_platform_driver_probe and _remove, and the driver core around them.  *)

Goto(t, pc) == work' = [work EXCEPT ![t].pc = pc]
Unlock(t) == lock' = [lock EXCEPT ![work[t].dev] = NoThread]
Lock(t) == lock[work[t].dev] = NoThread /\ lock' = [lock EXCEPT ![work[t].dev] = t]

(* A device that is bound already, or gone, is not probed. *)
ProbeLock(t) ==
  /\ work[t].pc = "probe"
  /\ LET d == work[t].dev
     IN IF d \in registered \ bound
        THEN Lock(t) /\ Goto(t, "alloc")
        ELSE lock[d] = NoThread /\ UNCHANGED lock /\ work' = [work EXCEPT ![t] = Idle]
  /\ UNCHANGED <<core, private>>

ProbeAlloc(t) ==
  /\ work[t].pc = "alloc"
  /\ dev_data' = dev_data \cup {work[t].dev}
  /\ Goto(t, "cdev")
  /\ UNCHANGED <<core, lock, cdevs, nodes, bound, total_device, refused>>

ProbeAllocFails(t) ==
  /\ work[t].pc = "alloc" /\ "memory" \in MayFail
  /\ refused' = refused \cup {work[t].dev}
  /\ Unlock(t) /\ work' = [work EXCEPT ![t] = Idle]
  /\ UNCHANGED <<core, dev_data, cdevs, nodes, bound, total_device>>

ProbeCdev(t) ==
  /\ work[t].pc = "cdev"
  /\ \/ cdevs' = cdevs \cup {work[t].dev} /\ Goto(t, "create")
     \/ "cdev" \in MayFail /\ cdevs' = cdevs /\ Goto(t, "free")
  /\ UNCHANGED <<core, lock, dev_data, nodes, bound, total_device, refused>>

(* Mutants: the result of device_create is not tested; its failure goes to  *)
(* the label after cdev_del.                                                *)
ProbeCreateUnchecked(t) ==
  /\ work[t].pc = "create"
  /\ \/ class = "ok" /\ nodes' = nodes \cup {work[t].dev} /\ Goto(t, "count")
     \/ (class # "ok" \/ "node" \in MayFail) /\ nodes' = nodes /\ Goto(t, "count")
  /\ UNCHANGED <<core, lock, dev_data, cdevs, bound, total_device, refused>>
ProbeCreateSkips(t) ==
  /\ work[t].pc = "create"
  /\ \/ class = "ok" /\ nodes' = nodes \cup {work[t].dev} /\ Goto(t, "count")
     \/ (class # "ok" \/ "node" \in MayFail) /\ nodes' = nodes /\ Goto(t, "free")
  /\ UNCHANGED <<core, lock, dev_data, cdevs, bound, total_device, refused>>

(* device_create returns an error for a class that is one. *)
ProbeCreate(t) ==
  /\ work[t].pc = "create"
  /\ \/ class = "ok" /\ nodes' = nodes \cup {work[t].dev} /\ Goto(t, "count")
     \/ (class # "ok" \/ "node" \in MayFail) /\ nodes' = nodes /\ Goto(t, "cdev_del")
  /\ UNCHANGED <<core, lock, dev_data, cdevs, bound, total_device, refused>>

(* Mutant: cdev_del is forgotten. *)
ProbeUndoNothing(t) ==
  /\ work[t].pc = "cdev_del"
  /\ Goto(t, "free")
  /\ UNCHANGED <<core, lock, dev_data, cdevs, nodes, bound, total_device, refused>>

ProbeUndo(t) ==
  /\ work[t].pc = "cdev_del"
  /\ cdevs' = cdevs \ {work[t].dev} /\ Goto(t, "free")
  /\ UNCHANGED <<core, lock, dev_data, nodes, bound, total_device, refused>>

(* Mutant: a probe that failed is taken off the count. *)
ProbeFreeUncounts(t) ==
  /\ work[t].pc = "free"
  /\ dev_data' = dev_data \ {work[t].dev}
  /\ total_device' = total_device - 1
  /\ refused' = refused \cup {work[t].dev}
  /\ Unlock(t) /\ work' = [work EXCEPT ![t] = Idle]
  /\ UNCHANGED <<core, cdevs, nodes, bound>>

ProbeFree(t) ==
  /\ work[t].pc = "free"
  /\ dev_data' = dev_data \ {work[t].dev}
  /\ refused' = refused \cup {work[t].dev}
  /\ Unlock(t) /\ work' = [work EXCEPT ![t] = Idle]
  /\ UNCHANGED <<core, cdevs, nodes, bound, total_device>>

(* total_device++ is a load and a store. *)
ProbeLoad(t) ==
  /\ work[t].pc = "count"
  /\ work' = [work EXCEPT ![t].pc = "store", ![t].tmp = total_device]
  /\ UNCHANGED <<core, lock, private>>

ProbeStore(t) ==
  /\ work[t].pc = "store"
  /\ total_device' = work[t].tmp + 1
  /\ bound' = bound \cup {work[t].dev}
  /\ refused' = refused \ {work[t].dev}
  /\ Unlock(t) /\ work' = [work EXCEPT ![t] = Idle]
  /\ UNCHANGED <<core, dev_data, cdevs, nodes>>

Probe(t) ==
  \/ ProbeLock(t) \/ ProbeAlloc(t) \/ ProbeAllocFails(t) \/ ProbeCdev(t)
  \/ ProbeCreate(t) \/ ProbeUndo(t) \/ ProbeFree(t) \/ ProbeLoad(t) \/ ProbeStore(t)

(* A device that is not bound (any more) is not removed. *)
RemoveLock(t) ==
  /\ work[t].pc = "remove"
  /\ IF work[t].dev \in bound
     THEN Lock(t) /\ Goto(t, "destroy")
     ELSE lock[work[t].dev] = NoThread /\ UNCHANGED lock /\ work' = [work EXCEPT ![t] = Idle]
  /\ UNCHANGED <<core, private>>

RemoveNode(t) ==
  /\ work[t].pc = "destroy"
  /\ nodes' = nodes \ {work[t].dev} /\ Goto(t, "remove_cdev")
  /\ UNCHANGED <<core, lock, dev_data, cdevs, bound, total_device, refused>>

(* Mutant: cdev_del is forgotten. *)
RemoveNoCdev(t) ==
  /\ work[t].pc = "remove_cdev"
  /\ Goto(t, "uncount")
  /\ UNCHANGED <<core, lock, dev_data, cdevs, nodes, bound, total_device, refused>>

RemoveCdev(t) ==
  /\ work[t].pc = "remove_cdev"
  /\ cdevs' = cdevs \ {work[t].dev} /\ Goto(t, "uncount")
  /\ UNCHANGED <<core, lock, dev_data, nodes, bound, total_device, refused>>

RemoveLoad(t) ==
  /\ work[t].pc = "uncount"
  /\ work' = [work EXCEPT ![t].pc = "unstore", ![t].tmp = total_device]
  /\ UNCHANGED <<core, lock, private>>

(* After remove has returned the core frees what devm_kzalloc gave out. *)
RemoveStore(t) ==
  /\ work[t].pc = "unstore"
  /\ total_device' = work[t].tmp - 1
  /\ bound' = bound \ {work[t].dev}
  /\ dev_data' = dev_data \ {work[t].dev}
  /\ Unlock(t) /\ work' = [work EXCEPT ![t] = Idle]
  /\ UNCHANGED <<core, cdevs, nodes, refused>>

Remove(t) == RemoveLock(t) \/ RemoveNode(t) \/ RemoveCdev(t) \/ RemoveLoad(t) \/ RemoveStore(t)

-----------------------------------------------------------------------------
(* pcd_device_setup: platform_add_devices and platform_device_unregister.   *)

(* Nobody is inside insmod or rmmod of t: it is not there, or there, or     *)
(* there without its devices, or half gone for good.                        *)
Resting(t) == phase[t] \in {"absent", "loaded", "empty", "dead"}
MayBegin(t) == \A u \in Threads : u # t /\ serial => Resting(u)

pcdev_platform_init ==
  /\ phase["setup"] = "absent" /\ MayBegin("setup")
  /\ phase' = [phase EXCEPT !["setup"] = "adding"]
  /\ next' = [next EXCEPT !["setup"] = 0]
  /\ UNCHANGED <<serial, registered, onBus, region, class, lock, work, private>>

(* Mutant: one device too many is added. *)
AddDeviceTooMany ==
  /\ phase["setup"] = "adding" /\ ~Busy("setup") /\ next["setup"] <= N
  /\ registered' = registered \cup {next["setup"]}
  /\ next' = [next EXCEPT !["setup"] = @ + 1]
  /\ work' = IF onBus THEN [work EXCEPT !["setup"] = At("probe", next["setup"])] ELSE work
  /\ UNCHANGED <<serial, phase, onBus, region, class, lock, private>>

(* A device that comes on the bus is offered to the driver if it is there. *)
AddDevice ==
  /\ phase["setup"] = "adding" /\ ~Busy("setup") /\ next["setup"] < N
  /\ registered' = registered \cup {next["setup"]}
  /\ next' = [next EXCEPT !["setup"] = @ + 1]
  /\ work' = IF onBus THEN [work EXCEPT !["setup"] = At("probe", next["setup"])] ELSE work
  /\ UNCHANGED <<serial, phase, onBus, region, class, lock, private>>

(* A device that cannot be added ends the loop, *)
AddDeviceFails ==
  /\ phase["setup"] = "adding" /\ ~Busy("setup") /\ next["setup"] < N
  /\ "device" \in MayFail
  /\ phase' = [phase EXCEPT !["setup"] = "undoing"]
  /\ UNCHANGED <<serial, next, registered, onBus, region, class, lock, work, private>>

(* Mutant: the last device is not added. *)
DevicesAddedEarly ==
  /\ phase["setup"] = "adding" /\ ~Busy("setup") /\ next["setup"] = N - 1
  /\ phase' = [phase EXCEPT !["setup"] = "loaded"]
  /\ UNCHANGED <<serial, next, registered, onBus, region, class, lock, work, private>>

DevicesAdded ==
  /\ phase["setup"] = "adding" /\ ~Busy("setup") /\ next["setup"] = N
  /\ phase' = [phase EXCEPT !["setup"] = "loaded"]
  /\ UNCHANGED <<serial, next, registered, onBus, region, class, lock, work, private>>

pcdev_platform_exit ==
  /\ phase["setup"] = "loaded" /\ MayBegin("setup")
  /\ phase' = [phase EXCEPT !["setup"] = "removing"]
  /\ next' = [next EXCEPT !["setup"] = 0]
  /\ UNCHANGED <<serial, registered, onBus, region, class, lock, work, private>>

(* A device is marked dead under its lock, then released. *)
Unregister(d) ==
  /\ lock[d] = NoThread
  /\ registered' = registered \ {d}
  /\ work' = [work EXCEPT !["setup"] = At("remove", d)]
  /\ refused' = refused \ {d}
  /\ UNCHANGED <<serial, phase, onBus, region, class, lock, dev_data, cdevs, nodes, bound, total_device>>

(* and those added before it are taken off the bus, the last one first,     *)
UndoDevice ==
  /\ phase["setup"] = "undoing" /\ ~Busy("setup") /\ next["setup"] > 0
  /\ Unregister(next["setup"] - 1)
  /\ next' = [next EXCEPT !["setup"] = @ - 1]

(* but the result is not looked at: the module stays, without devices.      *)
DevicesUndone ==
  /\ phase["setup"] = "undoing" /\ ~Busy("setup") /\ next["setup"] = 0
  /\ phase' = [phase EXCEPT !["setup"] = "empty"]
  /\ UNCHANGED <<serial, next, registered, onBus, region, class, lock, work, private>>

(* Mutant: the same device is unregistered again and again. *)
UnregisterDeviceAgain ==
  /\ phase["setup"] = "removing" /\ ~Busy("setup") /\ next["setup"] < N
  /\ Unregister(next["setup"]) /\ UNCHANGED next

UnregisterDevice ==
  /\ phase["setup"] = "removing" /\ ~Busy("setup") /\ next["setup"] < N
  /\ Unregister(next["setup"])
  /\ next' = [next EXCEPT !["setup"] = @ + 1]

DevicesGone ==
  /\ phase["setup"] = "removing" /\ ~Busy("setup") /\ next["setup"] = N
  /\ phase' = [phase EXCEPT !["setup"] = "absent"]
  /\ UNCHANGED <<serial, next, registered, onBus, region, class, lock, work, private>>

(* Without devices pcdev_platform_exit takes down what is not there: the    *)
(* device that could not be added has no private part, the kernel stops     *)
(* rmmod there, and the module can be neither loaded nor unloaded again.    *)
ExitWithoutDevices ==
  /\ phase["setup"] = "empty" /\ MayBegin("setup")
  /\ phase' = [phase EXCEPT !["setup"] = "dead"]
  /\ UNCHANGED <<serial, next, registered, onBus, region, class, lock, work, private>>

Setup ==
  \/ pcdev_platform_init \/ AddDevice \/ DevicesAdded
  \/ AddDeviceFails \/ UndoDevice \/ DevicesUndone
  \/ pcdev_platform_exit \/ UnregisterDevice \/ DevicesGone \/ ExitWithoutDevices

-----------------------------------------------------------------------------
(* pcd_platform_driver: pcd_init and pcd_exit.                              *)

DriverPhase(from, to) ==
  phase["driver"] = from /\ phase' = [phase EXCEPT !["driver"] = to]

(* Mutant: the function goes on when there are no numbers. *)
AllocRegionUnchecked ==
  /\ MayBegin("driver")
  /\ \/ DriverPhase("absent", "class") /\ region' = TRUE
     \/ "region" \in MayFail /\ DriverPhase("absent", "class") /\ region' = region
  /\ UNCHANGED <<serial, next, registered, onBus, class, lock, work, private>>

AllocRegion ==
  /\ MayBegin("driver")
  /\ \/ DriverPhase("absent", "class") /\ region' = TRUE
     \/ "region" \in MayFail /\ DriverPhase("absent", "absent") /\ region' = region
  /\ UNCHANGED <<serial, next, registered, onBus, class, lock, work, private>>

(* When the class cannot be created the numbers are given back, and the     *)
(* function goes on.                                                        *)
CreateClass ==
  /\ DriverPhase("class", "register")
  /\ \/ class' = "ok" /\ region' = region
     \/ "class" \in MayFail /\ class' = "error" /\ region' = FALSE
  /\ UNCHANGED <<serial, next, registered, onBus, lock, work, private>>

(* The result of platform_driver_register is not looked at. *)
RegisterDriver ==
  /\ \/ DriverPhase("register", "attaching") /\ onBus' = TRUE
     \/ "register" \in MayFail /\ DriverPhase("register", "loaded") /\ onBus' = onBus
  /\ next' = [next EXCEPT !["driver"] = 0]
  /\ UNCHANGED <<serial, registered, region, class, lock, work, private>>

AttachDevice ==
  /\ phase["driver"] = "attaching" /\ ~Busy("driver") /\ next["driver"] < N
  /\ next' = [next EXCEPT !["driver"] = @ + 1]
  /\ work' = IF next["driver"] \in registered
             THEN [work EXCEPT !["driver"] = At("probe", next["driver"])] ELSE work
  /\ UNCHANGED <<serial, phase, registered, onBus, region, class, lock, private>>

DriverLoaded ==
  /\ ~Busy("driver") /\ next["driver"] = N
  /\ DriverPhase("attaching", "loaded")
  /\ UNCHANGED <<serial, next, registered, onBus, region, class, lock, work, private>>

(* Mutant: the numbers are given back first. *)
pcd_exitUnregisters ==
  /\ MayBegin("driver")
  /\ DriverPhase("loaded", "draining") /\ onBus' = FALSE /\ region' = FALSE
  /\ UNCHANGED <<serial, next, registered, class, lock, work, private>>

pcd_exit ==
  /\ MayBegin("driver")
  /\ DriverPhase("loaded", "draining") /\ onBus' = FALSE
  /\ UNCHANGED <<serial, next, registered, region, class, lock, work, private>>

(* A probe the other module's thread is in is waited for, *)
DriverDrained ==
  /\ work["setup"].pc \notin {"probe", "alloc", "cdev", "create", "cdev_del", "free", "count", "store"}
  /\ DriverPhase("draining", "detaching")
  /\ UNCHANGED <<serial, next, registered, onBus, region, class, lock, work, private>>

(* and the devices still bound are released. *)
DetachDevice ==
  /\ phase["driver"] = "detaching" /\ ~Busy("driver")
  /\ \E d \in bound : work' = [work EXCEPT !["driver"] = At("remove", d)]
  /\ UNCHANGED <<core, lock, private>>

(* Mutant: the class goes before the devices are released. *)
DestroyClassEarly ==
  /\ ~Busy("driver")
  /\ DriverPhase("detaching", "unregister") /\ class' = "none"
  /\ UNCHANGED <<serial, next, registered, onBus, region, lock, work, private>>

DestroyClass ==
  /\ ~Busy("driver") /\ bound = {}
  /\ DriverPhase("detaching", "unregister") /\ class' = "none"
  /\ UNCHANGED <<serial, next, registered, onBus, region, lock, work, private>>

(* The module's memory goes with it. *)
UnregisterRegion ==
  /\ DriverPhase("unregister", "absent") /\ region' = FALSE
  /\ total_device' = 0 /\ refused' = {}
  /\ UNCHANGED <<serial, next, registered, onBus, class, lock, work, dev_data, cdevs, nodes, bound>>

Driver ==
  \/ AllocRegion \/ CreateClass \/ RegisterDriver \/ AttachDevice \/ DriverLoaded
  \/ pcd_exit \/ DriverDrained \/ DetachDevice \/ DestroyClass \/ UnregisterRegion

Next == Setup \/ Driver \/ \E t \in Threads : Probe(t) \/ Remove(t)

Spec == Init /\ [][Next]_vars

(* A thread inside insmod or rmmod, or inside a probe or remove, goes on,   *)
(* and a mutex is handed to the one who waits for it: the locks are free    *)
(* again and again while the other module comes and goes, and that is all a *)
(* waiting thread can count on.                                             *)
Fairness ==
  /\ WF_vars(Setup /\ ~Resting("setup"))
  /\ WF_vars(Driver /\ ~Resting("driver"))
  /\ \A t \in Threads : /\ WF_vars(Probe(t) \/ Remove(t))
                         /\ SF_vars(ProbeLock(t) \/ RemoveLock(t))
  /\ SF_vars(UnregisterDevice \/ UndoDevice)

FairSpec == Spec /\ Fairness

-----------------------------------------------------------------------------
TypeOK ==
  /\ phase["setup"] \in {"absent", "adding", "loaded", "removing", "undoing", "empty", "dead"}
  /\ phase["driver"] \in {"absent", "class", "register", "attaching", "loaded",
                          "draining", "detaching", "unregister"}
  /\ next \in [Threads -> 0 .. N]
  /\ registered \subseteq Devices /\ bound \subseteq Devices /\ dev_data \subseteq Devices
  /\ cdevs \subseteq Devices /\ nodes \subseteq Devices /\ refused \subseteq Devices
  /\ onBus \in BOOLEAN /\ region \in BOOLEAN /\ class \in {"none", "ok", "error"}
  /\ lock \in [Devices -> Threads \cup {NoThread}]
  /\ \A t \in Threads : work[t].dev \in Devices \cup {0}
  /\ total_device \in Int

(* Whatever fails and whoever probes or removes it, a device that nobody is *)
(* working on is either bound, with its data, its cdev and its device file, *)
(* or not bound and without any of them.                                    *)
BoundIsWhole ==
  \A d \in Devices : lock[d] = NoThread =>
    LET present == d \in bound
    IN /\ d \in cdevs <=> present
       /\ d \in nodes <=> present
       /\ d \in dev_data <=> present

(* A device file belongs to a class and leads to a cdev, the cdev lies in   *)
(* memory the driver still holds, and pcd_exit destroys the class and the   *)
(* module only when no device uses them, even while pcd_device_setup is     *)
(* removing or adding devices.                                              *)
LayeredDevices ==
  /\ nodes \subseteq cdevs /\ cdevs \subseteq dev_data
  /\ nodes # {} => class = "ok"
  /\ phase["driver"] = "absent" => bound \cup dev_data = {}

(* Comments of pcd_init and probe: a range of numbers is allocated for the  *)
(* devices, and each device gets its number from it.                        *)
NumbersOwned == cdevs # {} => region

(* Once both modules are loaded, in whatever order and however their loads  *)
(* overlapped, no device has been missed: each is bound, or its probe was   *)
(* the last to be tried and failed; or platform_add_devices has failed, and *)
(* then all devices are missed, the ones it had added included.             *)
NoneMissed ==
  phase["setup"] \in {"loaded", "empty"} /\ phase["driver"] = "loaded" /\ onBus =>
    /\ bound \cup refused = registered
    /\ registered = IF phase["setup"] = "empty" THEN {} ELSE Devices

(* total_device is the number of devices bound, when no probe or remove is  *)
(* under way and the user runs one insmod or rmmod at a time.               *)
CountExact == serial /\ (\A t \in Threads : ~Busy(t)) => total_device = Cardinality(bound)

(* No insmod and no rmmod of the two modules waits for ever, although they  *)
(* wait for each other's probes and for the devices' locks.                 *)
ModulesSettle == \A t \in Threads : ~Resting(t) ~> Resting(t)
=============================================================================
