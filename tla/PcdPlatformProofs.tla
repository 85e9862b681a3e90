-------------------------- MODULE PcdPlatformProofs --------------------------
(***************************************************************************)
(* Proofs about PcdPlatform, for every number of devices: however the two  *)
(* modules come and go and whatever fails, devices are bound as a whole,   *)
(* what a device uses outlives it, and none is missed.                     *)
(***************************************************************************)
EXTENDS PcdPlatform, FiniteSetTheorems, TLAPS

Probing == {"probe", "alloc", "cdev", "create", "cdev_del", "free", "count", "store"}
Removing == {"remove", "destroy", "remove_cdev", "uncount", "unstore"}
Holding == (Probing \cup Removing) \ {"probe", "remove"}

(* Where the thread that holds a device's lock has the device allocated,    *)
(* its cdev and its device file registered, and the device bound.           *)
WithData == {"cdev", "create", "cdev_del", "free", "count", "store", "destroy", "remove_cdev", "uncount", "unstore"}
WithCdev == {"create", "cdev_del", "count", "store", "destroy", "remove_cdev"}
WithNode == {"count", "store", "destroy"}
WithBound == {"destroy", "remove_cdev", "uncount", "unstore"}

Phases == {"absent", "adding", "loaded", "removing", "undoing", "empty", "dead",
           "class", "register", "attaching", "draining", "detaching", "unregister"}

(* A thread is in a probe or a remove of a device, or in none. *)
WorkOK ==
  /\ phase \in [Threads -> Phases]
  /\ work \in [Threads -> [pc : {"idle"} \cup Probing \cup Removing,
                           dev : Devices \cup {0}, tmp : Int]]
  /\ \A t \in Threads : Busy(t) => work[t].dev \in Devices

(* A device's lock is held by the thread that is working on it. *)
LockInv ==
  \A t \in Threads : \A d \in Devices :
    (lock[d] = t) <=> (work[t].dev = d /\ work[t].pc \in Holding)

(* What device d has while a thread at pc holds its lock. *)
Matches(d, pc) ==
  /\ d \in dev_data <=> pc \in WithData
  /\ d \in cdevs <=> pc \in WithCdev
  /\ d \in nodes <=> pc \in WithNode
  /\ d \in bound <=> pc \in WithBound

(* The code a thread is in while it holds a lock says what the device has.  *)
HoldInv ==
  \A t \in Threads : work[t].pc \in Holding => Matches(work[t].dev, work[t].pc)

(* A device that is bound with all it needs, or not bound and has nothing. *)
Whole(d) ==
  /\ d \in cdevs <=> d \in bound
  /\ d \in nodes <=> d \in bound
  /\ d \in dev_data <=> d \in bound

WholeInv == \A d \in Devices : lock[d] = NoThread => Whole(d)

(* Probes and removes happen only in the phases of the modules that make    *)
(* them, and no device is bound before the driver is registered or after    *)
(* its devices were released.                                               *)
PhaseInv ==
  /\ onBus => phase["driver"] \in {"attaching", "loaded"}
  /\ work["setup"].pc \in Probing =>
       phase["setup"] = "adding" /\ phase["driver"] \in {"attaching", "loaded", "draining"}
  /\ work["setup"].pc \in Removing => phase["setup"] \in {"removing", "undoing"}
  /\ work["driver"].pc \in Probing => phase["driver"] = "attaching"
  /\ work["driver"].pc \in Removing => phase["driver"] = "detaching"
  /\ phase["driver"] \in {"absent", "class", "register", "unregister"} => bound = {}

(* What pcd_device_setup has registered is a prefix of the devices, or what *)
(* is left of them; a device it is removing is registered no more.          *)
RegisteredInv ==
  /\ registered = CASE phase["setup"] = "absent" -> {}
                    [] phase["setup"] = "adding" -> 0 .. next["setup"] - 1
                    [] phase["setup"] = "loaded" -> Devices
                    [] phase["setup"] = "removing" -> next["setup"] .. N - 1
                    [] phase["setup"] = "undoing" -> 0 .. next["setup"] - 1
                    [] phase["setup"] \in {"empty", "dead"} -> {}
  /\ work["setup"].pc \in Removing => work["setup"].dev \notin registered

(* While the driver is on the bus, a registered device is bound or refused, *)
(* or some thread is probing it or will offer it to the driver.             *)
ReachInv ==
  onBus => \A d \in registered :
    \/ d \in bound \cup refused
    \/ \E t \in Threads : work[t].dev = d /\ work[t].pc \in Probing
    \/ phase["driver"] = "attaching" /\ d >= next["driver"]

(* What is bound, refused or being probed is on the bus, but for the device *)
(* that pcd_device_setup has just taken off it and is about to release.     *)
PresentInv ==
  /\ \A t \in Threads : work[t].pc \in Probing \ {"probe"} => work[t].dev \in registered
  /\ refused \subseteq registered
  /\ \A d \in bound \ registered : work["setup"].dev = d /\ work["setup"].pc \in Removing

(* A device file is made only in a class that is one. *)
ClassInv == nodes # {} => class = "ok"

IInv ==
  /\ TypeOK /\ WorkOK
  /\ LockInv /\ HoldInv /\ WholeInv
  /\ PhaseInv /\ RegisteredInv /\ ReachInv /\ PresentInv /\ ClassInv

CountInv ==
  serial =>
    /\ Resting("setup") \/ Resting("driver")
    /\ total_device = Cardinality(bound)
    /\ \A t \in Threads : work[t].pc \in {"store", "unstore"} => work[t].tmp = total_device

RegionInv == phase["driver"] # "absent" => region

-----------------------------------------------------------------------------
(* The step of a probe or remove that thread t makes in its device, and     *)
(* what it may do: t keeps or takes the lock and the device has what the    *)
(* new place of t says, or t goes and leaves the device whole.              *)
Local(t, d, pc) ==
  /\ d = work[t].dev /\ pc = work'[t].pc
  /\ UNCHANGED core /\ WorkOK' /\ Busy(t)
  /\ \A u \in Threads : u # t => work'[u] = work[u]
  /\ lock' \in [Devices -> Threads \cup {NoThread}] /\ lock[d] \in {NoThread, t}
  /\ \A e \in Devices : e # d =>
       /\ lock'[e] = lock[e]
       /\ (e \in dev_data' <=> e \in dev_data) /\ (e \in cdevs' <=> e \in cdevs)
       /\ (e \in nodes' <=> e \in nodes) /\ (e \in bound' <=> e \in bound)
       /\ (e \in refused' <=> e \in refused)
  /\ \/ /\ lock'[d] = t /\ work'[t].dev = d /\ pc \in Holding
        /\ pc \in Probing <=> work[t].pc \in Probing
        /\ Matches(d, pc)'
     \/ /\ lock'[d] = NoThread /\ pc = "idle"
        /\ Whole(d)'
        /\ work[t].pc \in Probing => d \in bound' \cup refused' \/ d \notin registered
  /\ d \in bound \cup refused => d \in bound' \cup refused' \/ work[t].pc \in Removing
  /\ d \in bound' => d \in bound \/ work[t].pc \in Probing
  /\ d \in nodes' => d \in nodes \/ class = "ok"
  /\ pc \in Probing \/ d \in bound' \ bound \/ d \in refused' \ refused => d \in registered
  /\ pc = "idle" /\ work[t].pc \in Removing => d \notin bound'

(* A step of a probe or remove moves its thread to another place, or out.   *)
LEMMA GotoMoves ==
  ASSUME WorkOK, NEW t \in Threads, NEW pc \in Probing \cup Removing, Busy(t), Goto(t, pc),
         UNCHANGED phase
  PROVE  /\ WorkOK'
         /\ work'[t] = [pc |-> pc, dev |-> work[t].dev, tmp |-> work[t].tmp]
         /\ \A u \in Threads : u # t => work'[u] = work[u]
BY DEF WorkOK, Goto, Busy

(* A thread that is done is in no probe and no remove.                      *)
LEMMA IdleMoves ==
  ASSUME WorkOK, NEW t \in Threads, work' = [work EXCEPT ![t] = Idle], UNCHANGED phase
  PROVE  /\ WorkOK'
         /\ work'[t].pc = "idle"
         /\ \A u \in Threads : u # t => work'[u] = work[u]
BY DEF WorkOK, Idle, Busy

(* Nothing is loaded at first: the invariant holds.                         *)
LEMMA InitIInv == Init => IInv
<1> SUFFICES ASSUME Init PROVE IInv
  OBVIOUS
<1>1. TypeOK
  <2>1. next \in [Threads -> 0 .. N] /\ lock \in [Devices -> Threads \cup {NoThread}]
    BY PlatformAssumption DEF Init, Devices
  <2>2. /\ phase["setup"] \in {"absent", "adding", "loaded", "removing", "undoing", "empty", "dead"}
        /\ phase["driver"] \in {"absent", "class", "register", "attaching", "loaded",
                                "draining", "detaching", "unregister"}
    BY DEF Init, Threads
  <2>3. \A t \in Threads : work[t].dev \in Devices \cup {0}
    BY DEF Init, Idle
  <2>4. onBus \in BOOLEAN /\ region \in BOOLEAN
    BY DEF Init
  <2>5. class \in {"none", "ok", "error"} /\ total_device \in Int
    BY DEF Init
  <2>6. /\ registered \subseteq Devices /\ bound \subseteq Devices /\ dev_data \subseteq Devices
        /\ cdevs \subseteq Devices /\ nodes \subseteq Devices /\ refused \subseteq Devices
    BY DEF Init
  <2> QED BY <2>1, <2>2, <2>3, <2>4, <2>5, <2>6 DEF TypeOK
<1>2. WorkOK
  <2>1. phase \in [Threads -> Phases]
    BY DEF Init, Phases
  <2>2. work \in [Threads -> [pc : {"idle"} \cup Probing \cup Removing,
                             dev : Devices \cup {0}, tmp : Int]]
    BY DEF Init, Idle
  <2> QED BY <2>1, <2>2 DEF Init, WorkOK, Idle, Busy
<1>3. LockInv
  BY PlatformAssumption DEF Init, LockInv, Idle, Holding, Probing, Removing
<1>4. HoldInv /\ WholeInv /\ ClassInv
  BY DEF Init, HoldInv, WholeInv, Whole, ClassInv, Idle, Holding, Probing, Removing
<1>5. PhaseInv /\ RegisteredInv /\ ReachInv /\ PresentInv
  BY DEF Init, PhaseInv, RegisteredInv, ReachInv, PresentInv, Idle, Probing, Removing, Threads
<1> QED BY <1>1, <1>2, <1>3, <1>4, <1>5 DEF IInv

(* Each step of a probe or remove is a local one.                           *)
LEMMA WorkIsLocal ==
  ASSUME IInv, NEW t \in Threads, Probe(t) \/ Remove(t)
  PROVE  \E d \in Devices, pc \in {"idle"} \cup Holding : Local(t, d, pc)
<1>0. TypeOK /\ WorkOK /\ LockInv /\ HoldInv /\ WholeInv
  BY DEF IInv
<1>a. work[t].pc \in Probing \cup Removing /\ Busy(t)
  <2>1. work[t].pc \in Probing \cup Removing
    BY DEF Probing, Removing, Probe, Remove, ProbeLock, ProbeAlloc, ProbeAllocFails, ProbeCdev,
           ProbeCreate, ProbeUndo, ProbeFree, ProbeLoad, ProbeStore, RemoveLock, RemoveNode,
           RemoveCdev, RemoveLoad, RemoveStore
  <2> QED BY <2>1 DEF Busy, Probing, Removing
<1>b. PICK d \in Devices : d = work[t].dev
  BY <1>0, <1>a DEF WorkOK
<1>1. /\ work[t].pc \in Probing \cup Removing /\ Busy(t)
      /\ d = work[t].dev /\ lock \in [Devices -> Threads \cup {NoThread}]
      /\ NoThread \notin Threads
      /\ work[t].pc \in Probing \ {"probe"} => d \in registered
  BY <1>0, <1>a, <1>b, PlatformAssumption DEF TypeOK, IInv, PresentInv
<1> HIDE <1>b
<1>2. work[t].pc \in Holding => lock[d] = t /\ Matches(d, work[t].pc)
  BY <1>0, <1>1 DEF LockInv, HoldInv
<1>3. ASSUME NEW pc \in Holding, Goto(t, pc), UNCHANGED core
      PROVE  /\ WorkOK' /\ \A u \in Threads : u # t => work'[u] = work[u]
             /\ work'[t].pc = pc /\ work'[t].dev = d
  <2>1. pc \in Probing \cup Removing /\ UNCHANGED phase
    BY <1>3 DEF core, Holding
  <2>2. /\ WorkOK' /\ \A u \in Threads : u # t => work'[u] = work[u]
        /\ work'[t] = [pc |-> pc, dev |-> work[t].dev, tmp |-> work[t].tmp]
    BY <1>0, <1>1, <1>3, <2>1, GotoMoves
  <2> QED BY <1>1, <2>2
<1>4. ASSUME work' = [work EXCEPT ![t] = Idle], UNCHANGED core
      PROVE  /\ WorkOK' /\ \A u \in Threads : u # t => work'[u] = work[u]
             /\ work'[t].pc = "idle"
  BY <1>0, <1>4, IdleMoves DEF core
<1>5. CASE ProbeLock(t) /\ d \in registered \ bound
  <2>1. work[t].pc = "probe" /\ Goto(t, "alloc") /\ Lock(t) /\ UNCHANGED <<core, private>>
    BY <1>1, <1>5 DEF ProbeLock
  <2>2. lock[d] = NoThread /\ lock' = [lock EXCEPT ![d] = t]
    BY <1>1, <2>1 DEF Lock
  <2>3. Matches(d, "alloc")'
    BY <1>0, <1>1, <1>5, <2>1, <2>2 DEF WholeInv, Whole, private, Matches, WithData, WithCdev, WithNode, WithBound
  <2>4. WorkOK' /\ (\A u \in Threads : u # t => work'[u] = work[u]) /\ work'[t].pc = "alloc" /\ work'[t].dev = d
    BY <1>3, <2>1 DEF Holding, Probing, Removing
  <2>5. Local(t, d, "alloc")
    BY <1>1, <1>5, <2>1, <2>2, <2>3, <2>4 DEF Local, private, Holding, Probing, Removing
  <2> QED BY <2>5 DEF Holding, Probing, Removing
<1>6. CASE ProbeLock(t) /\ d \notin registered \ bound
  <2>1. work[t].pc = "probe" /\ lock[d] = NoThread /\ lock' = lock /\ UNCHANGED <<core, private>>
        /\ work' = [work EXCEPT ![t] = Idle]
    BY <1>1, <1>6 DEF ProbeLock
  <2>2. Whole(d)'
    BY <1>0, <1>1, <2>1 DEF WholeInv, Whole, private
  <2>3. WorkOK' /\ (\A u \in Threads : u # t => work'[u] = work[u]) /\ work'[t].pc = "idle"
    BY <1>4, <2>1
  <2> QED BY <1>1, <1>6, <2>1, <2>2, <2>3 DEF Local, private, Probing, Removing
<1>7. CASE ProbeAlloc(t)
  <2>1. work[t].pc = "alloc" /\ lock[d] = t /\ Matches(d, "alloc") /\ lock' = lock /\ UNCHANGED core
    BY <1>2, <1>7 DEF ProbeAlloc, Holding, Probing, Removing
  <2>2. PICK pc \in {"cdev"} : Goto(t, pc) /\ Matches(d, pc)'
    BY <1>1, <1>7, <2>1 DEF ProbeAlloc, Matches, WithData, WithCdev, WithNode, WithBound
  <2>3. WorkOK' /\ (\A u \in Threads : u # t => work'[u] = work[u]) /\ work'[t].pc = pc /\ work'[t].dev = d
    BY <1>3, <2>1, <2>2 DEF Holding, Probing, Removing
  <2>4. Local(t, d, pc)
    BY <1>1, <1>7, <2>1, <2>2, <2>3 DEF Local, ProbeAlloc, Holding, Probing, Removing
  <2> QED BY <2>2, <2>4 DEF Holding, Probing, Removing
<1>8. CASE ProbeAllocFails(t)
  <2>1. work[t].pc = "alloc" /\ lock[d] = t /\ Matches(d, "alloc") /\ UNCHANGED core
    BY <1>2, <1>8 DEF ProbeAllocFails, Holding, Probing, Removing
  <2>2. Whole(d)'
    BY <1>1, <1>8, <2>1 DEF ProbeAllocFails, Whole, Matches, WithData, WithCdev, WithNode, WithBound
  <2>3. WorkOK' /\ (\A u \in Threads : u # t => work'[u] = work[u]) /\ work'[t].pc = "idle"
    BY <1>4, <1>8, <2>1 DEF ProbeAllocFails
  <2>4. lock' = [lock EXCEPT ![d] = NoThread]
    BY <1>1, <1>8 DEF ProbeAllocFails, Unlock
  <2> QED BY <1>1, <1>8, <2>1, <2>2, <2>3, <2>4 DEF Local, ProbeAllocFails, Probing, Removing
<1>9. CASE ProbeCdev(t)
  <2>1. work[t].pc = "cdev" /\ lock[d] = t /\ Matches(d, "cdev") /\ lock' = lock /\ UNCHANGED core
    BY <1>2, <1>9 DEF ProbeCdev, Holding, Probing, Removing
  <2>2. PICK pc \in {"create", "free"} : Goto(t, pc) /\ Matches(d, pc)'
    BY <1>1, <1>9, <2>1 DEF ProbeCdev, Matches, WithData, WithCdev, WithNode, WithBound
  <2>3. WorkOK' /\ (\A u \in Threads : u # t => work'[u] = work[u]) /\ work'[t].pc = pc /\ work'[t].dev = d
    BY <1>3, <2>1, <2>2 DEF Holding, Probing, Removing
  <2>4. Local(t, d, pc)
    BY <1>1, <1>9, <2>1, <2>2, <2>3 DEF Local, ProbeCdev, Holding, Probing, Removing
  <2> QED BY <2>2, <2>4 DEF Holding, Probing, Removing
<1>10. CASE ProbeCreate(t)
  <2>1. work[t].pc = "create" /\ lock[d] = t /\ Matches(d, "create") /\ lock' = lock /\ UNCHANGED core
    BY <1>2, <1>10 DEF ProbeCreate, Holding, Probing, Removing
  <2>2. PICK pc \in {"count", "cdev_del"} : Goto(t, pc) /\ Matches(d, pc)'
    BY <1>1, <1>10, <2>1 DEF ProbeCreate, Matches, WithData, WithCdev, WithNode, WithBound
  <2>3. WorkOK' /\ (\A u \in Threads : u # t => work'[u] = work[u]) /\ work'[t].pc = pc /\ work'[t].dev = d
    BY <1>3, <2>1, <2>2 DEF Holding, Probing, Removing
  <2>4. Local(t, d, pc)
    BY <1>1, <1>10, <2>1, <2>2, <2>3 DEF Local, ProbeCreate, Holding, Probing, Removing
  <2> QED BY <2>2, <2>4 DEF Holding, Probing, Removing
<1>11. CASE ProbeUndo(t)
  <2>1. work[t].pc = "cdev_del" /\ lock[d] = t /\ Matches(d, "cdev_del") /\ lock' = lock /\ UNCHANGED core
    BY <1>2, <1>11 DEF ProbeUndo, Holding, Probing, Removing
  <2>2. PICK pc \in {"free"} : Goto(t, pc) /\ Matches(d, pc)'
    BY <1>1, <1>11, <2>1 DEF ProbeUndo, Matches, WithData, WithCdev, WithNode, WithBound
  <2>3. WorkOK' /\ (\A u \in Threads : u # t => work'[u] = work[u]) /\ work'[t].pc = pc /\ work'[t].dev = d
    BY <1>3, <2>1, <2>2 DEF Holding, Probing, Removing
  <2>4. Local(t, d, pc)
    BY <1>1, <1>11, <2>1, <2>2, <2>3 DEF Local, ProbeUndo, Holding, Probing, Removing
  <2> QED BY <2>2, <2>4 DEF Holding, Probing, Removing
<1>12. CASE ProbeFree(t)
  <2>1. work[t].pc = "free" /\ lock[d] = t /\ Matches(d, "free") /\ UNCHANGED core
    BY <1>2, <1>12 DEF ProbeFree, Holding, Probing, Removing
  <2>2. Whole(d)'
    BY <1>1, <1>12, <2>1 DEF ProbeFree, Whole, Matches, WithData, WithCdev, WithNode, WithBound
  <2>3. WorkOK' /\ (\A u \in Threads : u # t => work'[u] = work[u]) /\ work'[t].pc = "idle"
    BY <1>4, <1>12, <2>1 DEF ProbeFree
  <2>4. lock' = [lock EXCEPT ![d] = NoThread]
    BY <1>1, <1>12 DEF ProbeFree, Unlock
  <2> QED BY <1>1, <1>12, <2>1, <2>2, <2>3, <2>4 DEF Local, ProbeFree, Probing, Removing
<1>13. CASE ProbeLoad(t)
  <2>1. /\ work[t].pc = "count" /\ lock[d] = t /\ Matches(d, "count") /\ lock' = lock
        /\ UNCHANGED <<core, private>> /\ work' = [work EXCEPT ![t].pc = "store", ![t].tmp = total_device]
    BY <1>2, <1>13 DEF ProbeLoad, Holding, Probing, Removing
  <2>2. Matches(d, "store")'
    BY <1>1, <2>1 DEF private, Matches, WithData, WithCdev, WithNode, WithBound
  <2>3. WorkOK' /\ (\A u \in Threads : u # t => work'[u] = work[u]) /\ work'[t].pc = "store" /\ work'[t].dev = d
    BY <1>0, <1>1, <2>1 DEF WorkOK, TypeOK, Busy, core, Probing, Removing
  <2>4. Local(t, d, "store")
    BY <1>1, <2>1, <2>2, <2>3 DEF Local, private, Holding, Probing, Removing
  <2> QED BY <2>4 DEF Holding, Probing, Removing
<1>14. CASE ProbeStore(t)
  <2>1. work[t].pc = "store" /\ lock[d] = t /\ Matches(d, "store") /\ UNCHANGED core
    BY <1>2, <1>14 DEF ProbeStore, Holding, Probing, Removing
  <2>2. Whole(d)'
    BY <1>1, <1>14, <2>1 DEF ProbeStore, Whole, Matches, WithData, WithCdev, WithNode, WithBound
  <2>3. WorkOK' /\ (\A u \in Threads : u # t => work'[u] = work[u]) /\ work'[t].pc = "idle"
    BY <1>4, <1>14, <2>1 DEF ProbeStore
  <2>4. lock' = [lock EXCEPT ![d] = NoThread]
    BY <1>1, <1>14 DEF ProbeStore, Unlock
  <2> QED BY <1>1, <1>14, <2>1, <2>2, <2>3, <2>4 DEF Local, ProbeStore, Probing, Removing
<1>15. CASE RemoveLock(t) /\ d \in bound
  <2>1. work[t].pc = "remove" /\ Goto(t, "destroy") /\ Lock(t) /\ UNCHANGED <<core, private>>
    BY <1>1, <1>15 DEF RemoveLock
  <2>2. lock[d] = NoThread /\ lock' = [lock EXCEPT ![d] = t]
    BY <1>1, <2>1 DEF Lock
  <2>3. Matches(d, "destroy")'
    BY <1>0, <1>1, <1>15, <2>1, <2>2 DEF WholeInv, Whole, private, Matches, WithData, WithCdev, WithNode, WithBound
  <2>4. WorkOK' /\ (\A u \in Threads : u # t => work'[u] = work[u]) /\ work'[t].pc = "destroy" /\ work'[t].dev = d
    BY <1>3, <2>1 DEF Holding, Probing, Removing
  <2>5. Local(t, d, "destroy")
    BY <1>1, <2>1, <2>2, <2>3, <2>4 DEF Local, private, Holding, Probing, Removing
  <2> QED BY <2>5 DEF Holding, Probing, Removing
<1>16. CASE RemoveLock(t) /\ d \notin bound
  <2>1. work[t].pc = "remove" /\ lock[d] = NoThread /\ lock' = lock /\ UNCHANGED <<core, private>>
        /\ work' = [work EXCEPT ![t] = Idle]
    BY <1>1, <1>16 DEF RemoveLock
  <2>2. Whole(d)'
    BY <1>0, <1>1, <2>1 DEF WholeInv, Whole, private
  <2>3. WorkOK' /\ (\A u \in Threads : u # t => work'[u] = work[u]) /\ work'[t].pc = "idle"
    BY <1>4, <2>1
  <2> QED BY <1>1, <1>16, <2>1, <2>2, <2>3 DEF Local, private, Probing, Removing
<1>17. CASE RemoveNode(t)
  <2>1. work[t].pc = "destroy" /\ lock[d] = t /\ Matches(d, "destroy") /\ lock' = lock /\ UNCHANGED core
    BY <1>2, <1>17 DEF RemoveNode, Holding, Probing, Removing
  <2>2. PICK pc \in {"remove_cdev"} : Goto(t, pc) /\ Matches(d, pc)'
    BY <1>1, <1>17, <2>1 DEF RemoveNode, Matches, WithData, WithCdev, WithNode, WithBound
  <2>3. WorkOK' /\ (\A u \in Threads : u # t => work'[u] = work[u]) /\ work'[t].pc = pc /\ work'[t].dev = d
    BY <1>3, <2>1, <2>2 DEF Holding, Probing, Removing
  <2>4. Local(t, d, pc)
    BY <1>1, <1>17, <2>1, <2>2, <2>3 DEF Local, RemoveNode, Holding, Probing, Removing
  <2> QED BY <2>2, <2>4 DEF Holding, Probing, Removing
<1>18. CASE RemoveCdev(t)
  <2>1. work[t].pc = "remove_cdev" /\ lock[d] = t /\ Matches(d, "remove_cdev") /\ lock' = lock /\ UNCHANGED core
    BY <1>2, <1>18 DEF RemoveCdev, Holding, Probing, Removing
  <2>2. PICK pc \in {"uncount"} : Goto(t, pc) /\ Matches(d, pc)'
    BY <1>1, <1>18, <2>1 DEF RemoveCdev, Matches, WithData, WithCdev, WithNode, WithBound
  <2>3. WorkOK' /\ (\A u \in Threads : u # t => work'[u] = work[u]) /\ work'[t].pc = pc /\ work'[t].dev = d
    BY <1>3, <2>1, <2>2 DEF Holding, Probing, Removing
  <2>4. Local(t, d, pc)
    BY <1>1, <1>18, <2>1, <2>2, <2>3 DEF Local, RemoveCdev, Holding, Probing, Removing
  <2> QED BY <2>2, <2>4 DEF Holding, Probing, Removing
<1>19. CASE RemoveLoad(t)
  <2>1. /\ work[t].pc = "uncount" /\ lock[d] = t /\ Matches(d, "uncount") /\ lock' = lock
        /\ UNCHANGED <<core, private>> /\ work' = [work EXCEPT ![t].pc = "unstore", ![t].tmp = total_device]
    BY <1>2, <1>19 DEF RemoveLoad, Holding, Probing, Removing
  <2>2. Matches(d, "unstore")'
    BY <1>1, <2>1 DEF private, Matches, WithData, WithCdev, WithNode, WithBound
  <2>3. WorkOK' /\ (\A u \in Threads : u # t => work'[u] = work[u]) /\ work'[t].pc = "unstore" /\ work'[t].dev = d
    BY <1>0, <1>1, <2>1 DEF WorkOK, TypeOK, Busy, core, Probing, Removing
  <2>4. Local(t, d, "unstore")
    BY <1>1, <2>1, <2>2, <2>3 DEF Local, private, Holding, Probing, Removing
  <2> QED BY <2>4 DEF Holding, Probing, Removing
<1>20. CASE RemoveStore(t)
  <2>1. work[t].pc = "unstore" /\ lock[d] = t /\ Matches(d, "unstore") /\ UNCHANGED core
    BY <1>2, <1>20 DEF RemoveStore, Holding, Probing, Removing
  <2>2. Whole(d)'
    BY <1>1, <1>20, <2>1 DEF RemoveStore, Whole, Matches, WithData, WithCdev, WithNode, WithBound
  <2>3. WorkOK' /\ (\A u \in Threads : u # t => work'[u] = work[u]) /\ work'[t].pc = "idle"
    BY <1>4, <1>20, <2>1 DEF RemoveStore
  <2>4. lock' = [lock EXCEPT ![d] = NoThread]
    BY <1>1, <1>20 DEF RemoveStore, Unlock
  <2> QED BY <1>1, <1>20, <2>1, <2>2, <2>3, <2>4 DEF Local, RemoveStore, Probing, Removing
<1> QED
  BY <1>5, <1>6, <1>7, <1>8, <1>9, <1>10, <1>11, <1>12, <1>13, <1>14,
     <1>15, <1>16, <1>17, <1>18, <1>19, <1>20
  DEF Probe, Remove

(* A step of a probe or remove keeps the types.                             *)
LEMMA WorkKeepsTypes ==
  ASSUME IInv, NEW t \in Threads, Probe(t) \/ Remove(t)
  PROVE  TypeOK'
<1>1. TypeOK /\ WorkOK /\ NoThread \notin Threads
  BY PlatformAssumption DEF IInv
<1>2. PICK d \in Devices, pc \in {"idle"} \cup Holding : Local(t, d, pc)
  BY WorkIsLocal
<1>3. UNCHANGED core /\ WorkOK' /\ d = work[t].dev
      /\ lock' \in [Devices -> Threads \cup {NoThread}]
  BY <1>2 DEF Local
<1>4. /\ bound' \subseteq Devices /\ dev_data' \subseteq Devices
      /\ cdevs' \subseteq Devices /\ nodes' \subseteq Devices /\ refused' \subseteq Devices
  <2>1. CASE Probe(t)
    BY <1>1, <1>3, <2>1
    DEF Probe, ProbeLock, ProbeAlloc, ProbeAllocFails, ProbeCdev, ProbeCreate, ProbeUndo,
        ProbeFree, ProbeLoad, ProbeStore, private, TypeOK
  <2>2. CASE Remove(t)
    BY <1>1, <1>3, <2>2
    DEF Remove, RemoveLock, RemoveNode, RemoveCdev, RemoveLoad, RemoveStore, private, TypeOK
  <2> QED BY <2>1, <2>2
<1>5. total_device' \in Int
  <2>1. work[t].tmp \in Int /\ total_device \in Int
    BY <1>1 DEF WorkOK, TypeOK
  <2>2. CASE Probe(t)
    BY <2>1, <2>2
    DEF Probe, ProbeLock, ProbeAlloc, ProbeAllocFails, ProbeCdev, ProbeCreate, ProbeUndo,
        ProbeFree, ProbeLoad, ProbeStore, private
  <2>3. CASE Remove(t)
    BY <2>1, <2>3
    DEF Remove, RemoveLock, RemoveNode, RemoveCdev, RemoveLoad, RemoveStore, private
  <2> QED BY <2>2, <2>3
<1>6. /\ phase' = phase /\ next' = next /\ registered' = registered /\ class' = class
      /\ (onBus' <=> onBus) /\ (region' <=> region)
  BY <1>3 DEF core
<1>7. onBus' \in BOOLEAN /\ region' \in BOOLEAN
  <2>1. onBus \in BOOLEAN /\ region \in BOOLEAN
    BY <1>1 DEF TypeOK
  <2>2. onBus' = onBus /\ region' = region
    BY <1>3 DEF core
  <2> QED BY <2>1, <2>2
<1>8. \A u \in Threads : work'[u].dev \in Devices \cup {0}
  BY <1>3 DEF WorkOK
<1>9. /\ phase'["setup"] \in {"absent", "adding", "loaded", "removing", "undoing", "empty", "dead"}
      /\ phase'["driver"] \in {"absent", "class", "register", "attaching", "loaded",
                               "draining", "detaching", "unregister"}
      /\ next' \in [Threads -> 0 .. N] /\ registered' \subseteq Devices
      /\ class' \in {"none", "ok", "error"}
  BY <1>1, <1>6 DEF TypeOK
<1> QED
  BY <1>3, <1>4, <1>5, <1>7, <1>8, <1>9 DEF TypeOK

(* A local step disturbs no part of the invariant, whoever else is working. *)
LEMMA LocalKeeps ==
  ASSUME IInv, TypeOK', NEW t \in Threads, NEW d \in Devices, NEW pc \in {"idle"} \cup Holding,
         Local(t, d, pc)
  PROVE  /\ LockInv' /\ HoldInv' /\ WholeInv'
         /\ PhaseInv' /\ RegisteredInv' /\ ReachInv' /\ PresentInv' /\ ClassInv'
<1>1. /\ WorkOK /\ LockInv /\ HoldInv /\ WholeInv
      /\ PhaseInv /\ RegisteredInv /\ ReachInv /\ PresentInv /\ ClassInv
  BY DEF IInv
<1>2. /\ UNCHANGED core /\ WorkOK' /\ Busy(t) /\ d = work[t].dev /\ work'[t].pc = pc
      /\ \A u \in Threads : u # t => work'[u] = work[u]
      /\ \A e \in Devices : e # d => lock'[e] = lock[e]
      /\ lock' \in [Devices -> Threads \cup {NoThread}] /\ lock[d] \in {NoThread, t}
      /\ NoThread \notin Threads
  BY PlatformAssumption DEF Local
<1>3. \/ lock'[d] = t /\ work'[t].dev = d /\ pc \in Holding /\ Matches(d, pc)'
      \/ lock'[d] = NoThread /\ pc = "idle" /\ Whole(d)'
  BY DEF Local
<1>4. \A e \in Devices : e # d =>
        /\ (Whole(e) => Whole(e)')
        /\ \A p : Matches(e, p) => Matches(e, p)'
  BY DEF Local, Whole, Matches
<1>5. work[t].pc \in Probing \cup Removing /\ "idle" \notin Holding
  BY <1>1, <1>2 DEF WorkOK, Busy, Holding, Probing, Removing
<1>6. \A u \in Threads : u # t /\ work[u].pc \in Holding => work[u].dev # d /\ work[u].dev \in Devices
  BY <1>1, <1>2 DEF WorkOK, LockInv, Busy, Holding, Probing, Removing
<1>7. LockInv'
  BY <1>1, <1>2, <1>3, <1>5, <1>6 DEF LockInv
<1>8. HoldInv'
  BY <1>1, <1>2, <1>3, <1>4, <1>5, <1>6 DEF HoldInv
<1>9. WholeInv'
  BY <1>1, <1>2, <1>3, <1>4 DEF WholeInv
<1>10. /\ phase' = phase /\ next' = next /\ registered' = registered /\ class' = class
       /\ (onBus' <=> onBus)
  BY <1>2 DEF core
<1>11. \A u \in Threads :
         /\ work'[u].pc \in Probing => work[u].pc \in Probing
         /\ work'[u].pc \in Removing => work[u].pc \in Removing /\ work'[u].dev = work[u].dev
  <2>1. pc \in Probing => work[t].pc \in Probing
    BY DEF Local, Probing
  <2>2. pc \in Removing => work[t].pc \in Removing /\ work'[t].dev = d
    BY <1>5 DEF Local, Probing, Removing
  <2> QED BY <1>2, <2>1, <2>2
<1>12. /\ \A e \in Devices : e # d =>
            (e \in bound' <=> e \in bound) /\ (e \in nodes' <=> e \in nodes)
            /\ (e \in refused' <=> e \in refused)
       /\ d \in bound' => d \in bound \/ work[t].pc \in Probing
       /\ d \in nodes' => d \in nodes \/ class = "ok"
       /\ d \in bound \cup refused => d \in bound' \cup refused' \/ work[t].pc \in Removing
       /\ work[t].pc \in Probing =>
            \/ work'[t].pc \in Probing /\ work'[t].dev = d
            \/ d \in bound' \cup refused' \/ d \notin registered
  BY <1>2 DEF Local
<1>13. bound' \subseteq Devices /\ nodes' \subseteq Devices
  BY DEF TypeOK
<1>14. t = "setup" \/ t = "driver"
  BY DEF Threads
<1>15. "setup" \in Threads /\ "driver" \in Threads
  BY DEF Threads
<1>16. PhaseInv'
  <2>1. phase["driver"] \in {"absent", "class", "register", "unregister"} => bound' = {}
    <3> SUFFICES ASSUME phase["driver"] \in {"absent", "class", "register", "unregister"},
                        NEW e \in bound'
                 PROVE  FALSE
      OBVIOUS
    <3>1. bound = {} /\ work[t].pc \notin Probing
      BY <1>1, <1>14 DEF PhaseInv
    <3> QED BY <3>1, <1>12, <1>13
  <2>2. /\ work'["setup"].pc \in Probing =>
             phase["setup"] = "adding" /\ phase["driver"] \in {"attaching", "loaded", "draining"}
        /\ work'["setup"].pc \in Removing => phase["setup"] \in {"removing", "undoing"}
        /\ work'["driver"].pc \in Probing => phase["driver"] = "attaching"
        /\ work'["driver"].pc \in Removing => phase["driver"] = "detaching"
    BY <1>1, <1>11, <1>15 DEF PhaseInv
  <2>3. onBus' => phase["driver"] \in {"attaching", "loaded"}
    BY <1>1, <1>10 DEF PhaseInv
  <2> QED BY <1>10, <2>1, <2>2, <2>3 DEF PhaseInv
<1>17. RegisteredInv'
  BY <1>1, <1>10, <1>11, <1>15 DEF RegisteredInv
<1>18. ReachInv'
  <2> SUFFICES ASSUME onBus', NEW e \in registered'
               PROVE  \/ e \in bound' \cup refused'
                      \/ \E u \in Threads : work'[u].dev = e /\ work'[u].pc \in Probing
                      \/ phase["driver"] = "attaching" /\ e >= next["driver"]
    BY <1>10 DEF ReachInv
  <2>1. e \in registered /\ e \in Devices /\ onBus
    BY <1>10 DEF TypeOK
  <2>2. work[t].pc \in Removing => d \notin registered
    BY <1>1, <1>2, <1>14, <2>1 DEF PhaseInv, RegisteredInv
  <2>3. CASE e \in bound \cup refused
    BY <1>12, <2>1, <2>2, <2>3
  <2>4. CASE \E u \in Threads : work[u].dev = e /\ work[u].pc \in Probing
    <3>1. PICK u \in Threads : work[u].dev = e /\ work[u].pc \in Probing
      BY <2>4
    <3>2. CASE u = t
      BY <1>2, <1>12, <2>1, <3>1, <3>2
    <3>3. CASE u # t
      BY <1>2, <3>1, <3>3
    <3> QED BY <3>2, <3>3
  <2> QED BY <1>1, <2>1, <2>3, <2>4 DEF ReachInv
<1>19. ClassInv'
  BY <1>1, <1>10, <1>12, <1>13 DEF ClassInv
<1>20. PresentInv'
  <2>1. \A u \in Threads : work'[u].pc \in Probing \ {"probe"} => work'[u].dev \in registered'
    <3>1. pc \in Probing => d \in registered /\ work'[t].dev = d
      BY <1>5 DEF Local, Probing
    <3> QED BY <1>1, <1>2, <1>10, <3>1 DEF PresentInv
  <2>2. refused' \subseteq registered'
    <3>1. refused' \subseteq Devices /\ (d \in refused' => d \in refused \/ d \in registered)
      BY DEF TypeOK, Local
    <3> QED BY <1>1, <1>10, <1>12, <3>1 DEF PresentInv
  <2>3. ASSUME NEW e \in bound' \ registered'
        PROVE  work'["setup"].dev = e /\ work'["setup"].pc \in Removing
    <3>1. e \in bound \ registered
      <4>1. d \in bound' => d \in bound \/ d \in registered
        BY DEF Local
      <4> QED BY <1>10, <1>12, <1>13, <2>3, <4>1
    <3>2. work["setup"].dev = e /\ work["setup"].pc \in Removing
      BY <1>1, <3>1 DEF PresentInv
    <3>3. CASE t = "setup"
      <4>1. e = d /\ work[t].pc \in Removing /\ work[t].pc \notin Probing /\ d \in bound'
        BY <1>2, <2>3, <3>2, <3>3 DEF Probing, Removing
      <4>2. pc # "idle" /\ work'[t].dev = d /\ pc \in Holding /\ pc \notin Probing
        BY <4>1 DEF Local
      <4> QED BY <1>2, <3>3, <4>1, <4>2 DEF Holding
    <3>4. CASE t # "setup"
      BY <1>2, <1>15, <3>2, <3>4
    <3> QED BY <3>3, <3>4
  <2> QED BY <2>1, <2>2, <2>3 DEF PresentInv
<1> QED BY <1>7, <1>8, <1>9, <1>16, <1>17, <1>18, <1>19, <1>20

(* While no device is bound and the driver is not on the bus, nor waited    *)
(* for, no thread holds a device and the driver owns nothing of any.        *)
LEMMA NothingLeft ==
  ASSUME IInv, bound = {}, phase["driver"] \notin {"attaching", "loaded", "draining"}
  PROVE  /\ nodes = {} /\ cdevs = {} /\ dev_data = {}
         /\ \A t \in Threads : work[t].pc \notin Holding
<1>1. /\ WorkOK /\ LockInv /\ HoldInv /\ WholeInv /\ PhaseInv
      /\ lock \in [Devices -> Threads \cup {NoThread}]
      /\ nodes \subseteq Devices /\ cdevs \subseteq Devices /\ dev_data \subseteq Devices
  BY DEF IInv, TypeOK
<1>2. \A t \in Threads : work[t].pc \notin Holding
  <2> SUFFICES ASSUME NEW t \in Threads, work[t].pc \in Holding PROVE FALSE
    OBVIOUS
  <2>1. work[t].pc \notin Probing
    BY <1>1 DEF PhaseInv, Threads
  <2>2. work[t].pc \in WithBound
    BY <2>1 DEF Holding, Probing, Removing, WithBound
  <2> QED BY <1>1, <2>2 DEF HoldInv, Matches
<1>3. \A d \in Devices : lock[d] = NoThread
  BY <1>1, <1>2 DEF LockInv
<1> QED BY <1>1, <1>2, <1>3 DEF WholeInv, Whole

(* The steps that the modules make outside probe and remove leave the locks *)
(* and the devices alone: at most they send an idle thread to a device.     *)
Outside ==
  /\ UNCHANGED <<lock, dev_data, cdevs, nodes, bound>>
  /\ WorkOK'
  /\ \A t \in Threads : \/ work'[t] = work[t]
                        \/ work[t].pc = "idle" /\ work'[t].pc \in {"probe", "remove"}

(* No step of a module's init or exit function touches a device itself.     *)
LEMMA ModulesAreOutside ==
  ASSUME IInv, Setup \/ Driver
  PROVE  Outside
<1>1. /\ WorkOK /\ next \in [Threads -> 0 .. N] /\ N \in Nat /\ bound \subseteq Devices
      /\ "setup" \in Threads /\ "driver" \in Threads
  BY PlatformAssumption DEF IInv, TypeOK, Threads
<1>2. CASE pcdev_platform_init
  BY <1>1, <1>2 DEF Outside, WorkOK, Busy, private, pcdev_platform_init, Phases
<1>3. CASE AddDevice
  BY <1>1, <1>3 DEF Outside, WorkOK, Busy, private, AddDevice, At, Probing, Removing, Devices, Phases
<1>4. CASE DevicesAdded
  BY <1>1, <1>4 DEF Outside, WorkOK, Busy, private, DevicesAdded, Phases
<1>5. CASE pcdev_platform_exit
  BY <1>1, <1>5 DEF Outside, WorkOK, Busy, private, pcdev_platform_exit, Phases
<1>6. CASE UnregisterDevice
  BY <1>1, <1>6 DEF Outside, WorkOK, Busy, private, UnregisterDevice, Unregister, At, Probing, Removing, Devices, Phases
<1>7. CASE DevicesGone
  BY <1>1, <1>7 DEF Outside, WorkOK, Busy, private, DevicesGone, Phases
<1>8. CASE AllocRegion
  BY <1>1, <1>8 DEF Outside, WorkOK, Busy, private, AllocRegion, DriverPhase, Phases
<1>9. CASE CreateClass
  BY <1>1, <1>9 DEF Outside, WorkOK, Busy, private, CreateClass, DriverPhase, Phases
<1>10. CASE RegisterDriver
  BY <1>1, <1>10 DEF Outside, WorkOK, Busy, private, RegisterDriver, DriverPhase, Phases
<1>11. CASE AttachDevice
  BY <1>1, <1>11 DEF Outside, WorkOK, Busy, private, AttachDevice, At, Probing, Removing, Devices, Phases
<1>12. CASE DriverLoaded
  BY <1>1, <1>12 DEF Outside, WorkOK, Busy, private, DriverLoaded, DriverPhase, Phases
<1>13. CASE pcd_exit
  BY <1>1, <1>13 DEF Outside, WorkOK, Busy, private, pcd_exit, DriverPhase, Phases
<1>14. CASE DriverDrained
  BY <1>1, <1>14 DEF Outside, WorkOK, Busy, private, DriverDrained, DriverPhase, Phases
<1>15. CASE DetachDevice
  BY <1>1, <1>15 DEF Outside, WorkOK, Busy, private, DetachDevice, At, Probing, Removing, core, Phases
<1>16. CASE DestroyClass
  BY <1>1, <1>16 DEF Outside, WorkOK, Busy, private, DestroyClass, DriverPhase, Phases
<1>17. CASE UnregisterRegion
  BY <1>1, <1>17 DEF Outside, WorkOK, Busy, private, UnregisterRegion, DriverPhase, Phases
<1>18. CASE AddDeviceFails
  BY <1>1, <1>18 DEF Outside, WorkOK, Busy, private, AddDeviceFails, Phases
<1>19. CASE UndoDevice
  <2>1. next["setup"] - 1 \in Devices
    BY <1>1, <1>19 DEF UndoDevice, Devices
  <2> QED
    BY <1>1, <1>19, <2>1 DEF Outside, WorkOK, Busy, private, UndoDevice, Unregister, At, Probing, Removing, Phases
<1>20. CASE DevicesUndone
  BY <1>1, <1>20 DEF Outside, WorkOK, Busy, private, DevicesUndone, Phases
<1>21. CASE ExitWithoutDevices
  BY <1>1, <1>21 DEF Outside, WorkOK, Busy, private, ExitWithoutDevices, Phases
<1> QED
  BY <1>2, <1>3, <1>4, <1>5, <1>6, <1>7, <1>8, <1>9, <1>10, <1>11, <1>12, <1>13, <1>14, <1>15, <1>16, <1>17,
     <1>18, <1>19, <1>20, <1>21
  DEF Setup, Driver

(* A step outside the devices does not disturb what the locks stand for.    *)
LEMMA OutsideKeeps ==
  ASSUME IInv, Outside
  PROVE  LockInv' /\ HoldInv' /\ WholeInv'
<1>1. /\ LockInv /\ HoldInv /\ WholeInv
      /\ lock' = lock /\ dev_data' = dev_data /\ cdevs' = cdevs /\ nodes' = nodes /\ bound' = bound
  BY DEF IInv, Outside
<1>2. \A t \in Threads :
        \/ work'[t] = work[t]
        \/ work[t].pc \notin Holding /\ work'[t].pc \notin Holding
  BY DEF Outside, Holding, Probing, Removing
<1>3. LockInv'
  BY <1>1, <1>2 DEF LockInv
<1>4. HoldInv'
  BY <1>1, <1>2 DEF HoldInv, Matches
<1>5. WholeInv'
  BY <1>1 DEF WholeInv, Whole
<1> QED BY <1>3, <1>4, <1>5

(* What the steps of pcd_device_setup keep, outside of probe and remove.    *)
LEMMA SetupKeeps ==
  ASSUME IInv, Setup
  PROVE  TypeOK' /\ PhaseInv' /\ RegisteredInv' /\ ReachInv' /\ ClassInv'
<1>1. /\ TypeOK /\ WorkOK /\ PhaseInv /\ RegisteredInv /\ ReachInv /\ ClassInv /\ Outside
      /\ N \in Nat /\ "setup" \in Threads /\ "driver" \in Threads /\ Threads = {"setup", "driver"}
  BY ModulesAreOutside, PlatformAssumption DEF IInv, Threads
<1>2. /\ next \in [Threads -> 0 .. N] /\ work'["setup"].dev \in Devices \cup {0}
      /\ work'["driver"].dev \in Devices \cup {0} /\ phase \in [Threads -> Phases]
      /\ work \in [Threads -> [pc : {"idle"} \cup Probing \cup Removing,
                               dev : Devices \cup {0}, tmp : Int]]
  BY <1>1 DEF TypeOK, WorkOK, Outside
<1>3. CASE pcdev_platform_init
  <2>1. TypeOK'
    <3>1. lock' = lock /\ dev_data' = dev_data /\ cdevs' = cdevs /\ nodes' = nodes /\ bound' = bound
          /\ refused' \subseteq Devices /\ registered' \subseteq Devices /\ total_device' \in Int
      BY <1>1, <1>2, <1>3 DEF TypeOK, Devices, pcdev_platform_init, private
    <3>2. /\ phase'["setup"] \in {"absent", "adding", "loaded", "removing", "undoing", "empty", "dead"}
          /\ phase'["driver"] \in {"absent", "class", "register", "attaching", "loaded",
                                   "draining", "detaching", "unregister"}
          /\ next' \in [Threads -> 0 .. N] /\ class' \in {"none", "ok", "error"}
      BY <1>1, <1>2, <1>3 DEF TypeOK, pcdev_platform_init, private
    <3>3. onBus' \in BOOLEAN /\ region' \in BOOLEAN
      BY <1>1, <1>3 DEF TypeOK, pcdev_platform_init, private
    <3> QED BY <1>1, <1>2, <3>1, <3>2, <3>3 DEF TypeOK
  <2>2. PhaseInv'
    BY <1>1, <1>2, <1>3 DEF PhaseInv, Probing, Removing, pcdev_platform_init, private
  <2>3. RegisteredInv'
    BY <1>1, <1>2, <1>3 DEF RegisteredInv, TypeOK, Devices, Removing, Probing, pcdev_platform_init, private
  <2>4. ReachInv'
    BY <1>1, <1>2, <1>3 DEF ReachInv, PhaseInv, RegisteredInv, TypeOK, Devices, Probing, Removing, pcdev_platform_init, private
  <2>5. ClassInv'
    BY <1>1, <1>3, NothingLeft DEF ClassInv, PhaseInv, pcdev_platform_init, private
  <2> QED BY <2>1, <2>2, <2>3, <2>4, <2>5
<1>4. CASE AddDevice
  <2>1. TypeOK'
    <3>a. next["setup"] \in Devices
      BY <1>1, <1>2, <1>4 DEF AddDevice, Devices
    <3>1. lock' = lock /\ dev_data' = dev_data /\ cdevs' = cdevs /\ nodes' = nodes /\ bound' = bound
          /\ refused' \subseteq Devices /\ registered' \subseteq Devices /\ total_device' \in Int
      BY <1>1, <1>4, <3>a DEF TypeOK, AddDevice, private
    <3>2. /\ phase'["setup"] \in {"absent", "adding", "loaded", "removing", "undoing", "empty", "dead"}
          /\ phase'["driver"] \in {"absent", "class", "register", "attaching", "loaded",
                                   "draining", "detaching", "unregister"}
          /\ next' \in [Threads -> 0 .. N] /\ class' \in {"none", "ok", "error"}
      BY <1>1, <1>2, <1>4 DEF TypeOK, AddDevice, At, Busy, private
    <3>3. onBus' \in BOOLEAN /\ region' \in BOOLEAN
      BY <1>1, <1>4 DEF TypeOK, AddDevice, At, Busy, private
    <3> QED BY <1>1, <1>2, <3>1, <3>2, <3>3 DEF TypeOK
  <2>2. PhaseInv'
    BY <1>1, <1>2, <1>4 DEF PhaseInv, Probing, Removing, AddDevice, At, Busy, private
  <2>3. RegisteredInv'
    BY <1>1, <1>2, <1>4 DEF RegisteredInv, TypeOK, Devices, Removing, Probing, AddDevice, At, Busy, private
  <2>4. ReachInv'
    BY <1>1, <1>2, <1>4 DEF ReachInv, PhaseInv, RegisteredInv, TypeOK, Devices, Probing, Removing, AddDevice, At, Busy, private
  <2>5. ClassInv'
    BY <1>1, <1>4, NothingLeft DEF ClassInv, PhaseInv, AddDevice, At, Busy, private
  <2> QED BY <2>1, <2>2, <2>3, <2>4, <2>5
<1>5. CASE DevicesAdded
  <2>1. TypeOK'
    <3>1. lock' = lock /\ dev_data' = dev_data /\ cdevs' = cdevs /\ nodes' = nodes /\ bound' = bound
          /\ refused' \subseteq Devices /\ registered' \subseteq Devices /\ total_device' \in Int
      BY <1>1, <1>2, <1>5 DEF TypeOK, Devices, DevicesAdded, Busy, private
    <3>2. /\ phase'["setup"] \in {"absent", "adding", "loaded", "removing", "undoing", "empty", "dead"}
          /\ phase'["driver"] \in {"absent", "class", "register", "attaching", "loaded",
                                   "draining", "detaching", "unregister"}
          /\ next' \in [Threads -> 0 .. N] /\ class' \in {"none", "ok", "error"}
      BY <1>1, <1>2, <1>5 DEF TypeOK, DevicesAdded, Busy, private
    <3>3. onBus' \in BOOLEAN /\ region' \in BOOLEAN
      BY <1>1, <1>5 DEF TypeOK, DevicesAdded, Busy, private
    <3> QED BY <1>1, <1>2, <3>1, <3>2, <3>3 DEF TypeOK
  <2>2. PhaseInv'
    BY <1>1, <1>2, <1>5 DEF PhaseInv, Probing, Removing, DevicesAdded, Busy, private
  <2>3. RegisteredInv'
    BY <1>1, <1>2, <1>5 DEF RegisteredInv, TypeOK, Devices, Removing, Probing, DevicesAdded, Busy, private
  <2>4. ReachInv'
    BY <1>1, <1>2, <1>5 DEF ReachInv, PhaseInv, RegisteredInv, TypeOK, Devices, Probing, Removing, DevicesAdded, Busy, private
  <2>5. ClassInv'
    BY <1>1, <1>5, NothingLeft DEF ClassInv, PhaseInv, DevicesAdded, Busy, private
  <2> QED BY <2>1, <2>2, <2>3, <2>4, <2>5
<1>6. CASE pcdev_platform_exit
  <2>1. TypeOK'
    <3>1. lock' = lock /\ dev_data' = dev_data /\ cdevs' = cdevs /\ nodes' = nodes /\ bound' = bound
          /\ refused' \subseteq Devices /\ registered' \subseteq Devices /\ total_device' \in Int
      BY <1>1, <1>2, <1>6 DEF TypeOK, Devices, pcdev_platform_exit, private
    <3>2. /\ phase'["setup"] \in {"absent", "adding", "loaded", "removing", "undoing", "empty", "dead"}
          /\ phase'["driver"] \in {"absent", "class", "register", "attaching", "loaded",
                                   "draining", "detaching", "unregister"}
          /\ next' \in [Threads -> 0 .. N] /\ class' \in {"none", "ok", "error"}
      BY <1>1, <1>2, <1>6 DEF TypeOK, pcdev_platform_exit, private
    <3>3. onBus' \in BOOLEAN /\ region' \in BOOLEAN
      BY <1>1, <1>6 DEF TypeOK, pcdev_platform_exit, private
    <3> QED BY <1>1, <1>2, <3>1, <3>2, <3>3 DEF TypeOK
  <2>2. PhaseInv'
    BY <1>1, <1>2, <1>6 DEF PhaseInv, Probing, Removing, pcdev_platform_exit, private
  <2>3. RegisteredInv'
    BY <1>1, <1>2, <1>6 DEF RegisteredInv, TypeOK, Devices, Removing, Probing, pcdev_platform_exit, private
  <2>4. ReachInv'
    BY <1>1, <1>2, <1>6 DEF ReachInv, PhaseInv, RegisteredInv, TypeOK, Devices, Probing, Removing, pcdev_platform_exit, private
  <2>5. ClassInv'
    BY <1>1, <1>6, NothingLeft DEF ClassInv, PhaseInv, pcdev_platform_exit, private
  <2> QED BY <2>1, <2>2, <2>3, <2>4, <2>5
<1>7. CASE UnregisterDevice
  <2>1. TypeOK'
    <3>1. lock' = lock /\ dev_data' = dev_data /\ cdevs' = cdevs /\ nodes' = nodes /\ bound' = bound
          /\ refused' \subseteq Devices /\ registered' \subseteq Devices /\ total_device' \in Int
      BY <1>1, <1>2, <1>7 DEF TypeOK, Devices, UnregisterDevice, Unregister, At, Busy, private
    <3>2. /\ phase'["setup"] \in {"absent", "adding", "loaded", "removing", "undoing", "empty", "dead"}
          /\ phase'["driver"] \in {"absent", "class", "register", "attaching", "loaded",
                                   "draining", "detaching", "unregister"}
          /\ next' \in [Threads -> 0 .. N] /\ class' \in {"none", "ok", "error"}
      BY <1>1, <1>2, <1>7 DEF TypeOK, UnregisterDevice, Unregister, At, Busy, private
    <3>3. onBus' \in BOOLEAN /\ region' \in BOOLEAN
      BY <1>1, <1>7 DEF TypeOK, UnregisterDevice, Unregister, At, Busy, private
    <3> QED BY <1>1, <1>2, <3>1, <3>2, <3>3 DEF TypeOK
  <2>2. PhaseInv'
    BY <1>1, <1>2, <1>7 DEF PhaseInv, Probing, Removing, UnregisterDevice, Unregister, At, Busy, private
  <2>3. RegisteredInv'
    BY <1>1, <1>2, <1>7 DEF RegisteredInv, TypeOK, Devices, Removing, Probing, UnregisterDevice, Unregister, At, Busy, private
  <2>4. ReachInv'
    BY <1>1, <1>2, <1>7 DEF ReachInv, PhaseInv, RegisteredInv, TypeOK, Devices, Probing, Removing, UnregisterDevice, Unregister, At, Busy, private
  <2>5. ClassInv'
    BY <1>1, <1>7, NothingLeft DEF ClassInv, PhaseInv, UnregisterDevice, Unregister, At, Busy, private
  <2> QED BY <2>1, <2>2, <2>3, <2>4, <2>5
<1>8. CASE DevicesGone
  <2>1. TypeOK'
    <3>1. lock' = lock /\ dev_data' = dev_data /\ cdevs' = cdevs /\ nodes' = nodes /\ bound' = bound
          /\ refused' \subseteq Devices /\ registered' \subseteq Devices /\ total_device' \in Int
      BY <1>1, <1>2, <1>8 DEF TypeOK, Devices, DevicesGone, Busy, private
    <3>2. /\ phase'["setup"] \in {"absent", "adding", "loaded", "removing", "undoing", "empty", "dead"}
          /\ phase'["driver"] \in {"absent", "class", "register", "attaching", "loaded",
                                   "draining", "detaching", "unregister"}
          /\ next' \in [Threads -> 0 .. N] /\ class' \in {"none", "ok", "error"}
      BY <1>1, <1>2, <1>8 DEF TypeOK, DevicesGone, Busy, private
    <3>3. onBus' \in BOOLEAN /\ region' \in BOOLEAN
      BY <1>1, <1>8 DEF TypeOK, DevicesGone, Busy, private
    <3> QED BY <1>1, <1>2, <3>1, <3>2, <3>3 DEF TypeOK
  <2>2. PhaseInv'
    BY <1>1, <1>2, <1>8 DEF PhaseInv, Probing, Removing, DevicesGone, Busy, private
  <2>3. RegisteredInv'
    BY <1>1, <1>2, <1>8 DEF RegisteredInv, TypeOK, Devices, Removing, Probing, DevicesGone, Busy, private
  <2>4. ReachInv'
    BY <1>1, <1>2, <1>8 DEF ReachInv, PhaseInv, RegisteredInv, TypeOK, Devices, Probing, Removing, DevicesGone, Busy, private
  <2>5. ClassInv'
    BY <1>1, <1>8, NothingLeft DEF ClassInv, PhaseInv, DevicesGone, Busy, private
  <2> QED BY <2>1, <2>2, <2>3, <2>4, <2>5
<1>9. CASE AddDeviceFails
  <2>1. TypeOK'
    <3>1. lock' = lock /\ dev_data' = dev_data /\ cdevs' = cdevs /\ nodes' = nodes /\ bound' = bound
          /\ refused' \subseteq Devices /\ registered' \subseteq Devices /\ total_device' \in Int
      BY <1>1, <1>2, <1>9 DEF TypeOK, Devices, AddDeviceFails, Busy, private
    <3>2. /\ phase'["setup"] \in {"absent", "adding", "loaded", "removing", "undoing", "empty", "dead"}
          /\ phase'["driver"] \in {"absent", "class", "register", "attaching", "loaded",
                                   "draining", "detaching", "unregister"}
          /\ next' \in [Threads -> 0 .. N] /\ class' \in {"none", "ok", "error"}
      BY <1>1, <1>2, <1>9 DEF TypeOK, AddDeviceFails, Busy, private
    <3>3. onBus' \in BOOLEAN /\ region' \in BOOLEAN
      BY <1>1, <1>9 DEF TypeOK, AddDeviceFails, Busy, private
    <3> QED BY <1>1, <1>2, <3>1, <3>2, <3>3 DEF TypeOK
  <2>2. PhaseInv'
    BY <1>1, <1>2, <1>9 DEF PhaseInv, Probing, Removing, AddDeviceFails, Busy, private
  <2>3. RegisteredInv'
    BY <1>1, <1>2, <1>9 DEF RegisteredInv, TypeOK, Devices, Removing, Probing, AddDeviceFails, Busy, private
  <2>4. ReachInv'
    BY <1>1, <1>2, <1>9 DEF ReachInv, PhaseInv, RegisteredInv, TypeOK, Devices, Probing, Removing, AddDeviceFails, Busy, private
  <2>5. ClassInv'
    BY <1>1, <1>9, NothingLeft DEF ClassInv, PhaseInv, AddDeviceFails, Busy, private
  <2> QED BY <2>1, <2>2, <2>3, <2>4, <2>5
<1>10. CASE UndoDevice
  <2>1. TypeOK'
    <3>1. lock' = lock /\ dev_data' = dev_data /\ cdevs' = cdevs /\ nodes' = nodes /\ bound' = bound
          /\ refused' \subseteq Devices /\ registered' \subseteq Devices /\ total_device' \in Int
      BY <1>1, <1>2, <1>10 DEF TypeOK, Devices, UndoDevice, Unregister, At, Busy, private
    <3>2. /\ phase'["setup"] \in {"absent", "adding", "loaded", "removing", "undoing", "empty", "dead"}
          /\ phase'["driver"] \in {"absent", "class", "register", "attaching", "loaded",
                                   "draining", "detaching", "unregister"}
          /\ next' \in [Threads -> 0 .. N] /\ class' \in {"none", "ok", "error"}
      BY <1>1, <1>2, <1>10 DEF TypeOK, UndoDevice, Unregister, At, Busy, private
    <3>3. onBus' \in BOOLEAN /\ region' \in BOOLEAN
      BY <1>1, <1>10 DEF TypeOK, UndoDevice, Unregister, At, Busy, private
    <3> QED BY <1>1, <1>2, <3>1, <3>2, <3>3 DEF TypeOK
  <2>2. PhaseInv'
    BY <1>1, <1>2, <1>10 DEF PhaseInv, Probing, Removing, UndoDevice, Unregister, At, Busy, private
  <2>3. RegisteredInv'
    BY <1>1, <1>2, <1>10 DEF RegisteredInv, TypeOK, Devices, Removing, Probing, UndoDevice, Unregister, At, Busy, private
  <2>4. ReachInv'
    BY <1>1, <1>2, <1>10 DEF ReachInv, PhaseInv, RegisteredInv, TypeOK, Devices, Probing, Removing, UndoDevice, Unregister, At, Busy, private
  <2>5. ClassInv'
    BY <1>1, <1>10, NothingLeft DEF ClassInv, PhaseInv, UndoDevice, Unregister, At, Busy, private
  <2> QED BY <2>1, <2>2, <2>3, <2>4, <2>5
<1>11. CASE DevicesUndone
  <2>1. TypeOK'
    <3>1. lock' = lock /\ dev_data' = dev_data /\ cdevs' = cdevs /\ nodes' = nodes /\ bound' = bound
          /\ refused' \subseteq Devices /\ registered' \subseteq Devices /\ total_device' \in Int
      BY <1>1, <1>2, <1>11 DEF TypeOK, Devices, DevicesUndone, Busy, private
    <3>2. /\ phase'["setup"] \in {"absent", "adding", "loaded", "removing", "undoing", "empty", "dead"}
          /\ phase'["driver"] \in {"absent", "class", "register", "attaching", "loaded",
                                   "draining", "detaching", "unregister"}
          /\ next' \in [Threads -> 0 .. N] /\ class' \in {"none", "ok", "error"}
      BY <1>1, <1>2, <1>11 DEF TypeOK, DevicesUndone, Busy, private
    <3>3. onBus' \in BOOLEAN /\ region' \in BOOLEAN
      BY <1>1, <1>11 DEF TypeOK, DevicesUndone, Busy, private
    <3> QED BY <1>1, <1>2, <3>1, <3>2, <3>3 DEF TypeOK
  <2>2. PhaseInv'
    BY <1>1, <1>2, <1>11 DEF PhaseInv, Probing, Removing, DevicesUndone, Busy, private
  <2>3. RegisteredInv'
    BY <1>1, <1>2, <1>11 DEF RegisteredInv, TypeOK, Devices, Removing, Probing, DevicesUndone, Busy, private
  <2>4. ReachInv'
    BY <1>1, <1>2, <1>11 DEF ReachInv, PhaseInv, RegisteredInv, TypeOK, Devices, Probing, Removing, DevicesUndone, Busy, private
  <2>5. ClassInv'
    BY <1>1, <1>11, NothingLeft DEF ClassInv, PhaseInv, DevicesUndone, Busy, private
  <2> QED BY <2>1, <2>2, <2>3, <2>4, <2>5
<1>12. CASE ExitWithoutDevices
  <2>1. TypeOK'
    <3>1. lock' = lock /\ dev_data' = dev_data /\ cdevs' = cdevs /\ nodes' = nodes /\ bound' = bound
          /\ refused' \subseteq Devices /\ registered' \subseteq Devices /\ total_device' \in Int
      BY <1>1, <1>2, <1>12 DEF TypeOK, Devices, ExitWithoutDevices, Busy, private
    <3>2. /\ phase'["setup"] \in {"absent", "adding", "loaded", "removing", "undoing", "empty", "dead"}
          /\ phase'["driver"] \in {"absent", "class", "register", "attaching", "loaded",
                                   "draining", "detaching", "unregister"}
          /\ next' \in [Threads -> 0 .. N] /\ class' \in {"none", "ok", "error"}
      BY <1>1, <1>2, <1>12 DEF TypeOK, ExitWithoutDevices, Busy, private
    <3>3. onBus' \in BOOLEAN /\ region' \in BOOLEAN
      BY <1>1, <1>12 DEF TypeOK, ExitWithoutDevices, Busy, private
    <3> QED BY <1>1, <1>2, <3>1, <3>2, <3>3 DEF TypeOK
  <2>2. PhaseInv'
    BY <1>1, <1>2, <1>12 DEF PhaseInv, Probing, Removing, ExitWithoutDevices, Busy, private
  <2>3. RegisteredInv'
    BY <1>1, <1>2, <1>12 DEF RegisteredInv, TypeOK, Devices, Removing, Probing, ExitWithoutDevices, Busy, private
  <2>4. ReachInv'
    BY <1>1, <1>2, <1>12 DEF ReachInv, PhaseInv, RegisteredInv, TypeOK, Devices, Probing, Removing, ExitWithoutDevices, Busy, private
  <2>5. ClassInv'
    BY <1>1, <1>12, NothingLeft DEF ClassInv, PhaseInv, ExitWithoutDevices, Busy, private
  <2> QED BY <2>1, <2>2, <2>3, <2>4, <2>5
<1> QED
  BY <1>3, <1>4, <1>5, <1>6, <1>7, <1>8, <1>9, <1>10, <1>11, <1>12
  DEF Setup

(* What the steps of pcd_platform_driver keep, outside of probe and remove. *)
LEMMA DriverKeeps ==
  ASSUME IInv, Driver
  PROVE  TypeOK' /\ PhaseInv' /\ RegisteredInv' /\ ReachInv' /\ ClassInv'
<1>1. /\ TypeOK /\ WorkOK /\ PhaseInv /\ RegisteredInv /\ ReachInv /\ ClassInv /\ Outside
      /\ N \in Nat /\ "setup" \in Threads /\ "driver" \in Threads /\ Threads = {"setup", "driver"}
  BY ModulesAreOutside, PlatformAssumption DEF IInv, Threads
<1>2. /\ next \in [Threads -> 0 .. N] /\ work'["setup"].dev \in Devices \cup {0}
      /\ work'["driver"].dev \in Devices \cup {0} /\ phase \in [Threads -> Phases]
      /\ work \in [Threads -> [pc : {"idle"} \cup Probing \cup Removing,
                               dev : Devices \cup {0}, tmp : Int]]
  BY <1>1 DEF TypeOK, WorkOK, Outside
<1>3. CASE AllocRegion
  <2>1. TypeOK'
    <3>1. lock' = lock /\ dev_data' = dev_data /\ cdevs' = cdevs /\ nodes' = nodes /\ bound' = bound
          /\ refused' \subseteq Devices /\ registered' \subseteq Devices /\ total_device' \in Int
      BY <1>1, <1>2, <1>3 DEF TypeOK, Devices, AllocRegion, DriverPhase, private
    <3>2. /\ phase'["setup"] \in {"absent", "adding", "loaded", "removing", "undoing", "empty", "dead"}
          /\ phase'["driver"] \in {"absent", "class", "register", "attaching", "loaded",
                                   "draining", "detaching", "unregister"}
          /\ next' \in [Threads -> 0 .. N] /\ class' \in {"none", "ok", "error"}
      BY <1>1, <1>2, <1>3 DEF TypeOK, AllocRegion, DriverPhase, private
    <3>3. onBus' \in BOOLEAN /\ region' \in BOOLEAN
      BY <1>1, <1>3 DEF TypeOK, AllocRegion, DriverPhase, private
    <3> QED BY <1>1, <1>2, <3>1, <3>2, <3>3 DEF TypeOK
  <2>2. PhaseInv'
    BY <1>1, <1>2, <1>3 DEF PhaseInv, Probing, Removing, AllocRegion, DriverPhase, private
  <2>3. RegisteredInv'
    BY <1>1, <1>2, <1>3 DEF RegisteredInv, TypeOK, Devices, Removing, Probing, AllocRegion, DriverPhase, private
  <2>4. ReachInv'
    BY <1>1, <1>2, <1>3 DEF ReachInv, PhaseInv, RegisteredInv, TypeOK, Devices, Probing, Removing, AllocRegion, DriverPhase, private
  <2>5. ClassInv'
    BY <1>1, <1>3, NothingLeft DEF ClassInv, PhaseInv, AllocRegion, DriverPhase, private
  <2> QED BY <2>1, <2>2, <2>3, <2>4, <2>5
<1>4. CASE CreateClass
  <2>1. TypeOK'
    <3>1. lock' = lock /\ dev_data' = dev_data /\ cdevs' = cdevs /\ nodes' = nodes /\ bound' = bound
          /\ refused' \subseteq Devices /\ registered' \subseteq Devices /\ total_device' \in Int
      BY <1>1, <1>2, <1>4 DEF TypeOK, Devices, CreateClass, DriverPhase, private
    <3>2. /\ phase'["setup"] \in {"absent", "adding", "loaded", "removing", "undoing", "empty", "dead"}
          /\ phase'["driver"] \in {"absent", "class", "register", "attaching", "loaded",
                                   "draining", "detaching", "unregister"}
          /\ next' \in [Threads -> 0 .. N] /\ class' \in {"none", "ok", "error"}
      BY <1>1, <1>2, <1>4 DEF TypeOK, CreateClass, DriverPhase, private
    <3>3. onBus' \in BOOLEAN /\ region' \in BOOLEAN
      BY <1>1, <1>4 DEF TypeOK, CreateClass, DriverPhase, private
    <3> QED BY <1>1, <1>2, <3>1, <3>2, <3>3 DEF TypeOK
  <2>2. PhaseInv'
    BY <1>1, <1>2, <1>4 DEF PhaseInv, Probing, Removing, CreateClass, DriverPhase, private
  <2>3. RegisteredInv'
    BY <1>1, <1>2, <1>4 DEF RegisteredInv, TypeOK, Devices, Removing, Probing, CreateClass, DriverPhase, private
  <2>4. ReachInv'
    BY <1>1, <1>2, <1>4 DEF ReachInv, PhaseInv, RegisteredInv, TypeOK, Devices, Probing, Removing, CreateClass, DriverPhase, private
  <2>5. ClassInv'
    BY <1>1, <1>4, NothingLeft DEF ClassInv, PhaseInv, CreateClass, DriverPhase, private
  <2> QED BY <2>1, <2>2, <2>3, <2>4, <2>5
<1>5. CASE RegisterDriver
  <2>1. TypeOK'
    <3>1. lock' = lock /\ dev_data' = dev_data /\ cdevs' = cdevs /\ nodes' = nodes /\ bound' = bound
          /\ refused' \subseteq Devices /\ registered' \subseteq Devices /\ total_device' \in Int
      BY <1>1, <1>2, <1>5 DEF TypeOK, Devices, RegisterDriver, DriverPhase, private
    <3>2. /\ phase'["setup"] \in {"absent", "adding", "loaded", "removing", "undoing", "empty", "dead"}
          /\ phase'["driver"] \in {"absent", "class", "register", "attaching", "loaded",
                                   "draining", "detaching", "unregister"}
          /\ next' \in [Threads -> 0 .. N] /\ class' \in {"none", "ok", "error"}
      BY <1>1, <1>2, <1>5 DEF TypeOK, RegisterDriver, DriverPhase, private
    <3>3. onBus' \in BOOLEAN /\ region' \in BOOLEAN
      BY <1>1, <1>5 DEF TypeOK, RegisterDriver, DriverPhase, private
    <3> QED BY <1>1, <1>2, <3>1, <3>2, <3>3 DEF TypeOK
  <2>2. PhaseInv'
    BY <1>1, <1>2, <1>5 DEF PhaseInv, Probing, Removing, RegisterDriver, DriverPhase, private
  <2>3. RegisteredInv'
    BY <1>1, <1>2, <1>5 DEF RegisteredInv, TypeOK, Devices, Removing, Probing, RegisterDriver, DriverPhase, private
  <2>4. ReachInv'
    <3>1. CASE DriverPhase("register", "attaching") /\ onBus' = TRUE
      <4>1. /\ phase'["driver"] = "attaching" /\ next'["driver"] = 0
            /\ registered' \subseteq Devices
        BY <1>1, <1>2, <1>5, <3>1 DEF TypeOK, RegisterDriver, DriverPhase, private
      <4> QED BY <1>1, <4>1 DEF ReachInv, Devices
    <3>2. CASE DriverPhase("register", "loaded") /\ onBus' = onBus
      <4>1. phase["driver"] = "register"
        BY <3>2 DEF DriverPhase
      <4>2. ~onBus
        BY <1>1, <4>1 DEF PhaseInv
      <4> QED BY <3>2, <4>2 DEF ReachInv
    <3> QED BY <1>5, <3>1, <3>2 DEF RegisterDriver, DriverPhase
  <2>5. ClassInv'
    BY <1>1, <1>5, NothingLeft DEF ClassInv, PhaseInv, RegisterDriver, DriverPhase, private
  <2> QED BY <2>1, <2>2, <2>3, <2>4, <2>5
<1>6. CASE AttachDevice
  <2>1. TypeOK'
    <3>1. lock' = lock /\ dev_data' = dev_data /\ cdevs' = cdevs /\ nodes' = nodes /\ bound' = bound
          /\ refused' \subseteq Devices /\ registered' \subseteq Devices /\ total_device' \in Int
      BY <1>1, <1>2, <1>6 DEF TypeOK, Devices, AttachDevice, At, Busy, private
    <3>2. /\ phase'["setup"] \in {"absent", "adding", "loaded", "removing", "undoing", "empty", "dead"}
          /\ phase'["driver"] \in {"absent", "class", "register", "attaching", "loaded",
                                   "draining", "detaching", "unregister"}
          /\ next' \in [Threads -> 0 .. N] /\ class' \in {"none", "ok", "error"}
      BY <1>1, <1>2, <1>6 DEF TypeOK, AttachDevice, At, Busy, private
    <3>3. onBus' \in BOOLEAN /\ region' \in BOOLEAN
      BY <1>1, <1>6 DEF TypeOK, AttachDevice, At, Busy, private
    <3> QED BY <1>1, <1>2, <3>1, <3>2, <3>3 DEF TypeOK
  <2>2. PhaseInv'
    BY <1>1, <1>2, <1>6 DEF PhaseInv, Probing, Removing, AttachDevice, At, Busy, private
  <2>3. RegisteredInv'
    BY <1>1, <1>2, <1>6 DEF RegisteredInv, TypeOK, Devices, Removing, Probing, AttachDevice, At, Busy, private
  <2>4. ReachInv'
    BY <1>1, <1>2, <1>6 DEF ReachInv, PhaseInv, RegisteredInv, TypeOK, Devices, Probing, Removing, AttachDevice, At, Busy, private
  <2>5. ClassInv'
    BY <1>1, <1>6, NothingLeft DEF ClassInv, PhaseInv, AttachDevice, At, Busy, private
  <2> QED BY <2>1, <2>2, <2>3, <2>4, <2>5
<1>7. CASE DriverLoaded
  <2>1. TypeOK'
    <3>1. lock' = lock /\ dev_data' = dev_data /\ cdevs' = cdevs /\ nodes' = nodes /\ bound' = bound
          /\ refused' \subseteq Devices /\ registered' \subseteq Devices /\ total_device' \in Int
      BY <1>1, <1>2, <1>7 DEF TypeOK, Devices, DriverLoaded, DriverPhase, Busy, private
    <3>2. /\ phase'["setup"] \in {"absent", "adding", "loaded", "removing", "undoing", "empty", "dead"}
          /\ phase'["driver"] \in {"absent", "class", "register", "attaching", "loaded",
                                   "draining", "detaching", "unregister"}
          /\ next' \in [Threads -> 0 .. N] /\ class' \in {"none", "ok", "error"}
      BY <1>1, <1>2, <1>7 DEF TypeOK, DriverLoaded, DriverPhase, Busy, private
    <3>3. onBus' \in BOOLEAN /\ region' \in BOOLEAN
      BY <1>1, <1>7 DEF TypeOK, DriverLoaded, DriverPhase, Busy, private
    <3> QED BY <1>1, <1>2, <3>1, <3>2, <3>3 DEF TypeOK
  <2>2. PhaseInv'
    BY <1>1, <1>2, <1>7 DEF PhaseInv, Probing, Removing, DriverLoaded, DriverPhase, Busy, private
  <2>3. RegisteredInv'
    BY <1>1, <1>2, <1>7 DEF RegisteredInv, TypeOK, Devices, Removing, Probing, DriverLoaded, DriverPhase, Busy, private
  <2>4. ReachInv'
    BY <1>1, <1>2, <1>7 DEF ReachInv, PhaseInv, RegisteredInv, TypeOK, Devices, Probing, Removing, DriverLoaded, DriverPhase, Busy, private
  <2>5. ClassInv'
    BY <1>1, <1>7, NothingLeft DEF ClassInv, PhaseInv, DriverLoaded, DriverPhase, Busy, private
  <2> QED BY <2>1, <2>2, <2>3, <2>4, <2>5
<1>8. CASE pcd_exit
  <2>1. TypeOK'
    <3>1. lock' = lock /\ dev_data' = dev_data /\ cdevs' = cdevs /\ nodes' = nodes /\ bound' = bound
          /\ refused' \subseteq Devices /\ registered' \subseteq Devices /\ total_device' \in Int
      BY <1>1, <1>2, <1>8 DEF TypeOK, Devices, pcd_exit, DriverPhase, private
    <3>2. /\ phase'["setup"] \in {"absent", "adding", "loaded", "removing", "undoing", "empty", "dead"}
          /\ phase'["driver"] \in {"absent", "class", "register", "attaching", "loaded",
                                   "draining", "detaching", "unregister"}
          /\ next' \in [Threads -> 0 .. N] /\ class' \in {"none", "ok", "error"}
      BY <1>1, <1>2, <1>8 DEF TypeOK, pcd_exit, DriverPhase, private
    <3>3. onBus' \in BOOLEAN /\ region' \in BOOLEAN
      BY <1>1, <1>8 DEF TypeOK, pcd_exit, DriverPhase, private
    <3> QED BY <1>1, <1>2, <3>1, <3>2, <3>3 DEF TypeOK
  <2>2. PhaseInv'
    BY <1>1, <1>2, <1>8 DEF PhaseInv, Probing, Removing, pcd_exit, DriverPhase, private
  <2>3. RegisteredInv'
    BY <1>1, <1>2, <1>8 DEF RegisteredInv, TypeOK, Devices, Removing, Probing, pcd_exit, DriverPhase, private
  <2>4. ReachInv'
    BY <1>1, <1>2, <1>8 DEF ReachInv, PhaseInv, RegisteredInv, TypeOK, Devices, Probing, Removing, pcd_exit, DriverPhase, private
  <2>5. ClassInv'
    BY <1>1, <1>8, NothingLeft DEF ClassInv, PhaseInv, pcd_exit, DriverPhase, private
  <2> QED BY <2>1, <2>2, <2>3, <2>4, <2>5
<1>9. CASE DriverDrained
  <2>1. TypeOK'
    <3>1. lock' = lock /\ dev_data' = dev_data /\ cdevs' = cdevs /\ nodes' = nodes /\ bound' = bound
          /\ refused' \subseteq Devices /\ registered' \subseteq Devices /\ total_device' \in Int
      BY <1>1, <1>2, <1>9 DEF TypeOK, Devices, DriverDrained, DriverPhase, private
    <3>2. /\ phase'["setup"] \in {"absent", "adding", "loaded", "removing", "undoing", "empty", "dead"}
          /\ phase'["driver"] \in {"absent", "class", "register", "attaching", "loaded",
                                   "draining", "detaching", "unregister"}
          /\ next' \in [Threads -> 0 .. N] /\ class' \in {"none", "ok", "error"}
      BY <1>1, <1>2, <1>9 DEF TypeOK, DriverDrained, DriverPhase, private
    <3>3. onBus' \in BOOLEAN /\ region' \in BOOLEAN
      BY <1>1, <1>9 DEF TypeOK, DriverDrained, DriverPhase, private
    <3> QED BY <1>1, <1>2, <3>1, <3>2, <3>3 DEF TypeOK
  <2>2. PhaseInv'
    BY <1>1, <1>2, <1>9 DEF PhaseInv, Probing, Removing, DriverDrained, DriverPhase, private
  <2>3. RegisteredInv'
    BY <1>1, <1>2, <1>9 DEF RegisteredInv, TypeOK, Devices, Removing, Probing, DriverDrained, DriverPhase, private
  <2>4. ReachInv'
    BY <1>1, <1>2, <1>9 DEF ReachInv, PhaseInv, RegisteredInv, TypeOK, Devices, Probing, Removing, DriverDrained, DriverPhase, private
  <2>5. ClassInv'
    BY <1>1, <1>9, NothingLeft DEF ClassInv, PhaseInv, DriverDrained, DriverPhase, private
  <2> QED BY <2>1, <2>2, <2>3, <2>4, <2>5
<1>10. CASE DetachDevice
  <2>1. TypeOK'
    <3>1. lock' = lock /\ dev_data' = dev_data /\ cdevs' = cdevs /\ nodes' = nodes /\ bound' = bound
          /\ refused' \subseteq Devices /\ registered' \subseteq Devices /\ total_device' \in Int
      BY <1>1, <1>2, <1>10 DEF TypeOK, Devices, DetachDevice, At, Busy, private, core
    <3>2. /\ phase'["setup"] \in {"absent", "adding", "loaded", "removing", "undoing", "empty", "dead"}
          /\ phase'["driver"] \in {"absent", "class", "register", "attaching", "loaded",
                                   "draining", "detaching", "unregister"}
          /\ next' \in [Threads -> 0 .. N] /\ class' \in {"none", "ok", "error"}
      BY <1>1, <1>2, <1>10 DEF TypeOK, DetachDevice, At, Busy, private, core
    <3>3. onBus' \in BOOLEAN /\ region' \in BOOLEAN
      BY <1>1, <1>10 DEF TypeOK, DetachDevice, At, Busy, private, core
    <3> QED BY <1>1, <1>2, <3>1, <3>2, <3>3 DEF TypeOK
  <2>2. PhaseInv'
    BY <1>1, <1>2, <1>10 DEF PhaseInv, Probing, Removing, DetachDevice, At, Busy, private, core
  <2>3. RegisteredInv'
    BY <1>1, <1>2, <1>10 DEF RegisteredInv, TypeOK, Devices, Removing, Probing, DetachDevice, At, Busy, private, core
  <2>4. ReachInv'
    BY <1>1, <1>2, <1>10 DEF ReachInv, PhaseInv, RegisteredInv, TypeOK, Devices, Probing, Removing, DetachDevice, At, Busy, private, core
  <2>5. ClassInv'
    BY <1>1, <1>10, NothingLeft DEF ClassInv, PhaseInv, DetachDevice, At, Busy, private, core
  <2> QED BY <2>1, <2>2, <2>3, <2>4, <2>5
<1>11. CASE DestroyClass
  <2>1. TypeOK'
    <3>1. lock' = lock /\ dev_data' = dev_data /\ cdevs' = cdevs /\ nodes' = nodes /\ bound' = bound
          /\ refused' \subseteq Devices /\ registered' \subseteq Devices /\ total_device' \in Int
      BY <1>1, <1>2, <1>11 DEF TypeOK, Devices, DestroyClass, DriverPhase, Busy, private
    <3>2. /\ phase'["setup"] \in {"absent", "adding", "loaded", "removing", "undoing", "empty", "dead"}
          /\ phase'["driver"] \in {"absent", "class", "register", "attaching", "loaded",
                                   "draining", "detaching", "unregister"}
          /\ next' \in [Threads -> 0 .. N] /\ class' \in {"none", "ok", "error"}
      BY <1>1, <1>2, <1>11 DEF TypeOK, DestroyClass, DriverPhase, Busy, private
    <3>3. onBus' \in BOOLEAN /\ region' \in BOOLEAN
      BY <1>1, <1>11 DEF TypeOK, DestroyClass, DriverPhase, Busy, private
    <3> QED BY <1>1, <1>2, <3>1, <3>2, <3>3 DEF TypeOK
  <2>2. PhaseInv'
    BY <1>1, <1>2, <1>11 DEF PhaseInv, Probing, Removing, DestroyClass, DriverPhase, Busy, private
  <2>3. RegisteredInv'
    BY <1>1, <1>2, <1>11 DEF RegisteredInv, TypeOK, Devices, Removing, Probing, DestroyClass, DriverPhase, Busy, private
  <2>4. ReachInv'
    BY <1>1, <1>2, <1>11 DEF ReachInv, PhaseInv, RegisteredInv, TypeOK, Devices, Probing, Removing, DestroyClass, DriverPhase, Busy, private
  <2>5. ClassInv'
    BY <1>1, <1>11, NothingLeft DEF ClassInv, PhaseInv, DestroyClass, DriverPhase, Busy, private
  <2> QED BY <2>1, <2>2, <2>3, <2>4, <2>5
<1>12. CASE UnregisterRegion
  <2>1. TypeOK'
    <3>1. lock' = lock /\ dev_data' = dev_data /\ cdevs' = cdevs /\ nodes' = nodes /\ bound' = bound
          /\ refused' \subseteq Devices /\ registered' \subseteq Devices /\ total_device' \in Int
      BY <1>1, <1>2, <1>12 DEF TypeOK, Devices, UnregisterRegion, DriverPhase, private
    <3>2. /\ phase'["setup"] \in {"absent", "adding", "loaded", "removing", "undoing", "empty", "dead"}
          /\ phase'["driver"] \in {"absent", "class", "register", "attaching", "loaded",
                                   "draining", "detaching", "unregister"}
          /\ next' \in [Threads -> 0 .. N] /\ class' \in {"none", "ok", "error"}
      BY <1>1, <1>2, <1>12 DEF TypeOK, UnregisterRegion, DriverPhase, private
    <3>3. onBus' \in BOOLEAN /\ region' \in BOOLEAN
      BY <1>1, <1>12 DEF TypeOK, UnregisterRegion, DriverPhase, private
    <3> QED BY <1>1, <1>2, <3>1, <3>2, <3>3 DEF TypeOK
  <2>2. PhaseInv'
    BY <1>1, <1>2, <1>12 DEF PhaseInv, Probing, Removing, UnregisterRegion, DriverPhase, private
  <2>3. RegisteredInv'
    BY <1>1, <1>2, <1>12 DEF RegisteredInv, TypeOK, Devices, Removing, Probing, UnregisterRegion, DriverPhase, private
  <2>4. ReachInv'
    BY <1>1, <1>2, <1>12 DEF ReachInv, PhaseInv, RegisteredInv, TypeOK, Devices, Probing, Removing, UnregisterRegion, DriverPhase, private
  <2>5. ClassInv'
    BY <1>1, <1>12, NothingLeft DEF ClassInv, PhaseInv, UnregisterRegion, DriverPhase, private
  <2> QED BY <2>1, <2>2, <2>3, <2>4, <2>5
<1> QED
  BY <1>3, <1>4, <1>5, <1>6, <1>7, <1>8, <1>9, <1>10, <1>11, <1>12
  DEF Driver

(* A device that goes off the bus is nobody's to probe, and is released by  *)
(* the one who took it off.                                                 *)
LEMMA ModulesKeepPresent ==
  ASSUME IInv, Setup \/ Driver
  PROVE  PresentInv'
<1>1. /\ LockInv /\ PresentInv /\ bound' = bound
      /\ work \in [Threads -> [pc : {"idle"} \cup Probing \cup Removing,
                               dev : Devices \cup {0}, tmp : Int]]
      /\ "setup" \in Threads /\ "driver" \in Threads /\ Threads = {"setup", "driver"}
      /\ next \in [Threads -> 0 .. N] /\ N \in Nat /\ NoThread \notin Threads
  BY ModulesAreOutside, PlatformAssumption DEF IInv, Outside, WorkOK, Threads, TypeOK
<1>2. ~Busy("setup") => bound \subseteq registered
  BY <1>1 DEF PresentInv, Busy, Removing
<1>3. CASE AddDevice
  <2>1. registered \subseteq registered' /\ refused' = refused /\ bound \subseteq registered
    BY <1>2, <1>3 DEF AddDevice, private
  <2>2. \A t \in Threads : work'[t] = work[t] \/ work'[t].pc = "probe"
    BY <1>1, <1>3 DEF AddDevice, At
  <2> QED BY <1>1, <2>1, <2>2 DEF PresentInv
<1>4. ASSUME NEW d \in Devices, ~Busy("setup"), Unregister(d) PROVE PresentInv'
  <2>1. \A t \in Threads : work[t].pc \in Holding => work[t].dev # d
    BY <1>1, <1>4 DEF LockInv, Unregister
  <2>2. work' = [work EXCEPT !["setup"] = At("remove", d)] /\ registered' = registered \ {d}
        /\ refused' = refused \ {d}
    BY <1>4 DEF Unregister
  <2>3. work'["driver"] = work["driver"] /\ work'["setup"].pc = "remove" /\ work'["setup"].dev = d
    BY <1>1, <2>2 DEF At
  <2>4. \A t \in Threads : work'[t].pc \in Probing \ {"probe"} => work'[t].dev \in registered'
    BY <1>1, <2>1, <2>2, <2>3 DEF PresentInv, Holding, Probing, Removing
  <2>5. \A e \in bound' \ registered' : e = d
    BY <1>1, <1>2, <1>4, <2>2
  <2> QED BY <1>1, <2>2, <2>3, <2>4, <2>5 DEF PresentInv, Removing
<1>5. CASE UnregisterDevice
  <2>1. next["setup"] \in Devices
    BY <1>1, <1>5 DEF UnregisterDevice, Devices
  <2> QED BY <1>4, <1>5, <2>1 DEF UnregisterDevice
<1>6. CASE UndoDevice
  <2>1. next["setup"] - 1 \in Devices
    BY <1>1, <1>6 DEF UndoDevice, Devices
  <2> QED BY <1>4, <1>6, <2>1 DEF UndoDevice
<1>7. CASE AttachDevice \/ DetachDevice
  <2>1. registered' = registered /\ refused' = refused
    BY <1>7 DEF AttachDevice, DetachDevice, core, private
  <2>2. work'["setup"] = work["setup"]
        /\ (work'["driver"] = work["driver"] \/ work'["driver"].pc \in {"probe", "remove"})
    BY <1>1, <1>7 DEF AttachDevice, DetachDevice, At
  <2> QED BY <1>1, <2>1, <2>2 DEF PresentInv, Probing
<1>8. CASE \/ pcdev_platform_init \/ DevicesAdded \/ AddDeviceFails \/ DevicesUndone
           \/ pcdev_platform_exit \/ DevicesGone \/ ExitWithoutDevices
           \/ AllocRegion \/ CreateClass \/ RegisterDriver \/ DriverLoaded \/ pcd_exit
           \/ DriverDrained \/ DestroyClass \/ UnregisterRegion
  <2>1. registered' = registered /\ work' = work /\ refused' \subseteq refused
    BY <1>8
    DEF pcdev_platform_init, DevicesAdded, AddDeviceFails, DevicesUndone, pcdev_platform_exit,
        DevicesGone, ExitWithoutDevices, AllocRegion, CreateClass, RegisterDriver, DriverLoaded,
        pcd_exit, DriverDrained, DestroyClass, UnregisterRegion, DriverPhase, private
  <2> QED BY <1>1, <2>1 DEF PresentInv
<1> QED BY <1>3, <1>5, <1>6, <1>7, <1>8 DEF Setup, Driver

(* Every step of the system keeps the invariant.                            *)
LEMMA NextIInv ==
  ASSUME IInv, [Next]_vars
  PROVE  IInv'
<1>1. CASE Setup
  BY <1>1, ModulesAreOutside, OutsideKeeps, ModulesKeepPresent, SetupKeeps DEF IInv, Outside
<1>2. CASE Driver
  BY <1>2, ModulesAreOutside, OutsideKeeps, ModulesKeepPresent, DriverKeeps DEF IInv, Outside
<1>3. CASE \E t \in Threads : Probe(t) \/ Remove(t)
  <2>1. PICK t \in Threads : Probe(t) \/ Remove(t)
    BY <1>3
  <2>2. PICK d \in Devices, pc \in {"idle"} \cup Holding : Local(t, d, pc)
    BY <2>1, WorkIsLocal
  <2>3. WorkOK' /\ TypeOK'
    BY <2>1, <2>2, WorkKeepsTypes DEF Local
  <2> QED BY <2>2, <2>3, LocalKeeps DEF IInv
<1>4. CASE UNCHANGED vars
  <2>1. TypeOK' /\ WorkOK'
    BY <1>4 DEF IInv, TypeOK, WorkOK, Busy, vars
  <2>2. LockInv' /\ HoldInv' /\ WholeInv'
    BY <1>4 DEF IInv, LockInv, HoldInv, Matches, WholeInv, Whole, vars
  <2>3. PhaseInv' /\ RegisteredInv' /\ ClassInv'
    BY <1>4 DEF IInv, PhaseInv, RegisteredInv, ClassInv, vars
  <2>4. ReachInv' /\ PresentInv'
    BY <1>4 DEF IInv, ReachInv, PresentInv, vars
  <2> QED BY <2>1, <2>2, <2>3, <2>4 DEF IInv
<1> QED BY <1>1, <1>2, <1>3, <1>4 DEF Next

(* The inductive invariant holds in every reachable state.                  *)
THEOREM PlatformInvariant == Spec => []IInv
<1> QED BY InitIInv, NextIInv, PTL DEF Spec

(* The state of the two modules and of the devices keeps its types.         *)
THEOREM TypeCorrect == Spec => []TypeOK
<1>1. IInv => TypeOK
  BY DEF IInv
<1> QED BY <1>1, PlatformInvariant, PTL

(* Whatever fails in a probe, and whichever module makes it, a device that  *)
(* nobody is working on is bound with its data, its cdev and its file, or   *)
(* has none of them.                                                        *)
THEOREM DevicesAreWhole == Spec => []BoundIsWhole
<1>1. IInv => BoundIsWhole
  BY DEF IInv, WholeInv, Whole, BoundIsWhole
<1> QED BY <1>1, PlatformInvariant, PTL

(* A device file has its class and its cdev, a cdev its memory, and pcd_exit *)
(* leaves no device that uses the module it unloads.                        *)
THEOREM DevicesAreLayered == Spec => []LayeredDevices
<1>1. ASSUME IInv PROVE LayeredDevices
  <2>1. /\ TypeOK /\ WorkOK /\ LockInv /\ HoldInv /\ WholeInv /\ PhaseInv /\ ClassInv
    BY <1>1 DEF IInv
  <2>2. ASSUME NEW d \in Devices
        PROVE  (d \in nodes => d \in cdevs) /\ (d \in cdevs => d \in dev_data)
    <3>1. CASE lock[d] = NoThread
      BY <2>1, <3>1 DEF WholeInv, Whole
    <3>2. CASE lock[d] # NoThread
      <4>1. PICK t \in Threads : lock[d] = t
        BY <2>1, <3>2 DEF TypeOK
      <4>2. work[t].dev = d /\ work[t].pc \in Holding
        BY <2>1, <4>1 DEF LockInv
      <4>3. PICK pc \in Holding : Matches(d, pc)
        BY <2>1, <4>2 DEF HoldInv
      <4> QED BY <4>3 DEF Matches, WithNode, WithCdev, WithData
    <3> QED BY <3>1, <3>2
  <2>3. nodes \subseteq Devices /\ cdevs \subseteq Devices
    BY <2>1 DEF TypeOK
  <2>4. nodes \subseteq cdevs /\ cdevs \subseteq dev_data
    BY <2>2, <2>3
  <2>5. phase["driver"] = "absent" => bound = {} /\ dev_data = {}
    BY <1>1, <2>1, NothingLeft DEF PhaseInv
  <2> QED BY <2>1, <2>4, <2>5 DEF LayeredDevices, ClassInv
<1> QED BY <1>1, PlatformInvariant, PTL

(* However the loads of the two modules overlapped, each device is bound or *)
(* was refused once both are loaded and the driver is on the bus, or all of *)
(* them are missing because platform_add_devices failed.                    *)
THEOREM NoDeviceMissed == Spec => []NoneMissed
<1>1. ASSUME IInv PROVE NoneMissed
  <2> SUFFICES ASSUME phase["setup"] \in {"loaded", "empty"}, phase["driver"] = "loaded", onBus
               PROVE  /\ bound \cup refused = registered
                      /\ registered = IF phase["setup"] = "empty" THEN {} ELSE Devices
    BY DEF NoneMissed
  <2>1. /\ TypeOK /\ PhaseInv /\ RegisteredInv /\ ReachInv
    BY <1>1 DEF IInv
  <2>2. registered = IF phase["setup"] = "empty" THEN {} ELSE Devices
    BY <2>1 DEF RegisteredInv
  <2>3. \A t \in Threads : work[t].pc \notin Probing
    BY <2>1 DEF PhaseInv, Threads
  <2>4. registered \subseteq bound \cup refused
    BY <2>1, <2>2, <2>3 DEF ReachInv
  <2>5. work["setup"].pc \notin Removing
    BY <2>1 DEF PhaseInv
  <2>6. bound \cup refused \subseteq registered
    BY <1>1, <2>5 DEF IInv, PresentInv
  <2> QED BY <2>2, <2>4, <2>6
<1> QED BY <1>1, PlatformInvariant, PTL

(* When class_create cannot fail, the driver owns its range of numbers for  *)
(* as long as it is there, so that no cdev has a number from a range given  *)
(* back.  Without the assumption the property is false of the code.         *)
THEOREM NumbersAreOwned ==
  ASSUME "class" \notin MayFail
  PROVE  Spec => []NumbersOwned
<1>1. Init => RegionInv
  BY DEF Init, RegionInv, Threads
<1>2. ASSUME IInv, RegionInv, [Next]_vars PROVE RegionInv'
  <2>1. phase \in [Threads -> Phases] /\ "driver" \in Threads /\ "setup" \in Threads
    BY <1>2 DEF IInv, WorkOK, Threads
  <2>2. CASE Setup
    BY <1>2, <2>1, <2>2
    DEF RegionInv, Setup, pcdev_platform_init, AddDevice, DevicesAdded, pcdev_platform_exit,
        UnregisterDevice, DevicesGone, Unregister, AddDeviceFails, UndoDevice,
        DevicesUndone, ExitWithoutDevices
  <2>3. CASE Driver
    <3>1. CASE AllocRegion \/ CreateClass \/ UnregisterRegion
      BY <1>2, <2>1, <3>1
      DEF RegionInv, DriverPhase, AllocRegion, CreateClass, UnregisterRegion
    <3>2. CASE \/ RegisterDriver \/ AttachDevice \/ DriverLoaded \/ pcd_exit
               \/ DriverDrained \/ DetachDevice \/ DestroyClass
      BY <1>2, <2>1, <3>2
      DEF RegionInv, DriverPhase, RegisterDriver, AttachDevice, DriverLoaded, pcd_exit,
          DriverDrained, DetachDevice, DestroyClass, core
    <3> QED BY <2>3, <3>1, <3>2 DEF Driver
  <2>4. CASE \E t \in Threads : Probe(t) \/ Remove(t)
    <3>1. UNCHANGED core
      BY <1>2, <2>4, WorkIsLocal DEF Local
    <3> QED BY <1>2, <3>1 DEF RegionInv, core
  <2>5. CASE UNCHANGED vars
    BY <1>2, <2>5 DEF RegionInv, vars
  <2> QED BY <1>2, <2>2, <2>3, <2>4, <2>5 DEF Next
<1>3. ASSUME IInv, RegionInv PROVE NumbersOwned
  <2>1. PhaseInv
    BY <1>3 DEF IInv
  <2>2. phase["driver"] = "absent" => cdevs = {}
    BY <1>3, <2>1, NothingLeft DEF PhaseInv
  <2> QED BY <1>3, <2>2 DEF RegionInv, NumbersOwned
<1> QED BY <1>1, <1>2, <1>3, PlatformInvariant, PTL DEF Spec

(* A module whose function is over has no probe and no remove under way.    *)
LEMMA RestingIsIdle ==
  ASSUME IInv, NEW t \in Threads, Resting(t)
  PROVE  ~Busy(t)
<1>1. WorkOK /\ PhaseInv
  BY DEF IInv
<1>2. work[t].pc \notin Probing \cup Removing
  BY <1>1 DEF PhaseInv, Resting, Threads
<1> QED BY <1>1, <1>2 DEF WorkOK, Busy

(* A probe or remove counts what it binds or releases: nobody else is at    *)
(* work meanwhile, since the other module rests.                            *)
LEMMA WorkCounts ==
  ASSUME IInv, CountInv, serial, NEW t \in Threads, Probe(t) \/ Remove(t)
  PROVE  CountInv'
<1>1. /\ TypeOK /\ WorkOK /\ LockInv /\ HoldInv
      /\ Resting("setup") \/ Resting("driver")
      /\ total_device = Cardinality(bound)
      /\ \A u \in Threads : work[u].pc \in {"store", "unstore"} => work[u].tmp = total_device
  BY DEF IInv, CountInv
<1>2. PICK d \in Devices, p \in {"idle"} \cup Holding : Local(t, d, p)
  BY WorkIsLocal
<1>3. /\ Busy(t) /\ d = work[t].dev /\ UNCHANGED core
      /\ \A u \in Threads : u # t => work'[u] = work[u]
      /\ work \in [Threads -> [pc : {"idle"} \cup Probing \cup Removing,
                               dev : Devices \cup {0}, tmp : Int]]
      /\ work' \in [Threads -> [pc : {"idle"} \cup Probing \cup Removing,
                               dev : Devices \cup {0}, tmp : Int]]
  BY <1>1, <1>2 DEF Local, WorkOK
<1>4. Resting("setup")' \/ Resting("driver")'
  BY <1>1, <1>3 DEF core, Resting
<1>5. \A u \in Threads : u # t => work'[u].pc = "idle"
  <2>1. ~Resting(t)
    BY <1>3, RestingIsIdle
  <2>2. \A u \in Threads : u # t => Resting(u)
    BY <1>1, <2>1 DEF Threads
  <2> QED BY <1>3, <2>2, RestingIsIdle DEF Busy
<1>6. IsFiniteSet(bound)
  <2>1. IsFiniteSet(Devices)
    BY PlatformAssumption, FS_Interval DEF Devices
  <2> QED BY <1>1, <2>1, FS_Subset DEF TypeOK
<1>7. work[t].pc \in Holding => Matches(d, work[t].pc)
  BY <1>1, <1>3 DEF HoldInv
<1>8. ASSUME total_device' = Cardinality(bound'),
             work'[t].pc \in {"store", "unstore"} => work'[t].tmp = total_device'
      PROVE  CountInv'
  BY <1>4, <1>5, <1>8 DEF CountInv
<1>9. CASE ProbeStore(t)
  <2>1. d \notin bound
    BY <1>3, <1>7, <1>9 DEF ProbeStore, Holding, Probing, Removing, Matches, WithBound
  <2>2. total_device' = total_device + 1 /\ bound' = bound \cup {d} /\ work'[t].pc = "idle"
    BY <1>1, <1>3, <1>9 DEF ProbeStore, Idle
  <2>3. Cardinality(bound \cup {d}) = Cardinality(bound) + 1
    BY <1>6, <2>1, FS_AddElement
  <2> QED BY <1>1, <1>8, <2>2, <2>3
<1>10. CASE RemoveStore(t)
  <2>1. d \in bound
    BY <1>3, <1>7, <1>10 DEF RemoveStore, Holding, Probing, Removing, Matches, WithBound
  <2>2. total_device' = total_device - 1 /\ bound' = bound \ {d} /\ work'[t].pc = "idle"
    BY <1>1, <1>3, <1>10 DEF RemoveStore, Idle
  <2>3. Cardinality(bound \ {d}) = Cardinality(bound) - 1
    BY <1>6, <2>1, FS_RemoveElement
  <2> QED BY <1>1, <1>8, <2>2, <2>3
<1>11. CASE ProbeLoad(t) \/ RemoveLoad(t)
  <2>1. total_device' = total_device /\ bound' = bound /\ work'[t].tmp = total_device
    BY <1>3, <1>11 DEF ProbeLoad, RemoveLoad, private
  <2> QED BY <1>1, <1>8, <2>1
<1>12. CASE \/ ProbeLock(t) \/ ProbeAlloc(t) \/ ProbeAllocFails(t) \/ ProbeCdev(t)
            \/ ProbeCreate(t) \/ ProbeUndo(t) \/ ProbeFree(t)
            \/ RemoveLock(t) \/ RemoveNode(t) \/ RemoveCdev(t)
  <2>1. total_device' = total_device /\ bound' = bound
    BY <1>12 DEF ProbeLock, ProbeAlloc, ProbeAllocFails, ProbeCdev, ProbeCreate, ProbeUndo,
                 ProbeFree, RemoveLock, RemoveNode, RemoveCdev, private
  <2>2. work'[t].pc \notin {"store", "unstore"}
    BY <1>3, <1>12 DEF ProbeLock, ProbeAlloc, ProbeAllocFails, ProbeCdev, ProbeCreate, ProbeUndo,
                       ProbeFree, RemoveLock, RemoveNode, RemoveCdev, Goto, Idle
  <2> QED BY <1>1, <1>8, <2>1, <2>2
<1> QED BY <1>9, <1>10, <1>11, <1>12 DEF Probe, Remove

(* The other steps of the modules begin one at a time and count nothing,    *)
(* until the driver's memory goes, when no device is bound.                 *)
LEMMA ModulesCount ==
  ASSUME IInv, CountInv, serial, Setup \/ Driver
  PROVE  CountInv'
<1>1. /\ WorkOK /\ PhaseInv /\ Outside
      /\ Resting("setup") \/ Resting("driver")
      /\ total_device = Cardinality(bound)
      /\ \A u \in Threads : work[u].pc \in {"store", "unstore"} => work[u].tmp = total_device
      /\ Threads = {"setup", "driver"}
  BY ModulesAreOutside DEF IInv, CountInv, Threads
<1>2. bound' = bound /\ phase \in [Threads -> Phases]
  BY <1>1 DEF Outside, WorkOK
<1>3. \A u \in Threads : work'[u].pc \in {"store", "unstore"} => work'[u] = work[u]
  BY <1>1 DEF Outside
<1>4. Resting("setup")' \/ Resting("driver")'
  <2>1. CASE Setup
    BY <1>1, <1>2, <2>1
    DEF Resting, MayBegin, Setup, pcdev_platform_init, AddDevice, DevicesAdded,
        pcdev_platform_exit, UnregisterDevice, DevicesGone, Unregister, AddDeviceFails, UndoDevice,
        DevicesUndone, ExitWithoutDevices
  <2>2. CASE Driver
    BY <1>1, <1>2, <2>2
    DEF Resting, MayBegin, DriverPhase, Driver, AllocRegion, CreateClass, RegisterDriver,
        AttachDevice, DriverLoaded, pcd_exit, DriverDrained, DetachDevice, DestroyClass,
        UnregisterRegion, core
  <2> QED BY <2>1, <2>2
<1>5. CASE UnregisterRegion
  <2>1. total_device' = 0 /\ work' = work /\ phase["driver"] = "unregister"
    BY <1>5 DEF UnregisterRegion, DriverPhase
  <2>2. bound = {} /\ \A u \in Threads : work[u].pc \notin Holding
    BY <1>1, <2>1, NothingLeft DEF PhaseInv
  <2>3. \A u \in Threads : work'[u].pc \notin {"store", "unstore"}
    BY <2>1, <2>2 DEF Holding, Probing, Removing
  <2> QED BY <1>2, <1>4, <2>1, <2>2, <2>3, FS_EmptySet DEF CountInv
<1>6. CASE ~UnregisterRegion
  <2>1. total_device' = total_device
    BY <1>6
    DEF Setup, pcdev_platform_init, AddDevice, DevicesAdded, pcdev_platform_exit,
        UnregisterDevice, DevicesGone, Unregister, AddDeviceFails, UndoDevice,
        DevicesUndone, ExitWithoutDevices, Driver, AllocRegion, CreateClass, RegisterDriver,
        AttachDevice, DriverLoaded, pcd_exit, DriverDrained, DetachDevice, DestroyClass, private
  <2> QED BY <1>1, <1>2, <1>3, <1>4, <2>1 DEF CountInv
<1> QED BY <1>5, <1>6

(* total_device is the number of devices bound, when nothing is under way   *)
(* and the user runs one insmod or rmmod at a time.                         *)
THEOREM CountIsExact == Spec => []CountExact
<1>1. Init => CountInv
  BY FS_EmptySet DEF Init, CountInv, Idle, Resting, Threads
<1>2. ASSUME IInv, CountInv, [Next]_vars PROVE CountInv'
  <2>1. CASE UNCHANGED vars
    BY <1>2, <2>1 DEF CountInv, Resting, vars
  <2>2. CASE ~serial /\ Next
    <3>1. CASE \E t \in Threads : Probe(t) \/ Remove(t)
      BY <2>2, <3>1, <1>2, WorkIsLocal DEF Local, core, CountInv
    <3>2. CASE Setup \/ Driver
      <4>1. serial' <=> serial
        BY <3>2
        DEF Setup, pcdev_platform_init, AddDevice, DevicesAdded, pcdev_platform_exit,
            UnregisterDevice, DevicesGone, Unregister, AddDeviceFails, UndoDevice,
        DevicesUndone, ExitWithoutDevices, Driver, AllocRegion, CreateClass, RegisterDriver,
            AttachDevice, DriverLoaded, pcd_exit, DriverDrained, DetachDevice, DestroyClass,
            UnregisterRegion, core
      <4> QED BY <2>2, <4>1 DEF CountInv
    <3> QED BY <2>2, <3>1, <3>2 DEF Next
  <2>3. CASE serial /\ Next
    BY <1>2, <2>3, WorkCounts, ModulesCount DEF Next
  <2> QED BY <1>2, <2>1, <2>2, <2>3
<1>3. ASSUME CountInv PROVE CountExact
  BY <1>3 DEF CountInv, CountExact
<1> QED BY <1>1, <1>2, <1>3, PlatformInvariant, PTL DEF Spec
=============================================================================
